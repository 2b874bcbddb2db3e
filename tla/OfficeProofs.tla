----------------------------- MODULE OfficeProofs -----------------------------
(***************************************************************************)
(* Invariants of the accounts, the events, their timing, the catalogue,    *)
(* the payees, the paged lists and an order of files or prints, for every  *)
(* number of the actors that overlap in them.                              *)
(* The parts share no state (MCOffice), and no proof here speaks of two.   *)
(***************************************************************************)
EXTENDS Access, Events, Timing, Catalog, Connect, Pages, Fulfillment, LedgerTheorems

(* A sequence is a function of 1 .. its length. *)
LEMMA SeqIndices ==
  ASSUME NEW S, NEW s \in Seq(S)
  PROVE  Len(s) \in Nat /\ DOMAIN s = 1 .. Len(s) /\ \A i \in DOMAIN s : s[i] \in S
OBVIOUS

(* Appending keeps the elements and adds one. *)
LEMMA AppendIndices ==
  ASSUME NEW S, NEW s \in Seq(S), NEW x \in S
  PROVE  /\ Append(s, x) \in Seq(S) /\ Len(Append(s, x)) = Len(s) + 1
         /\ DOMAIN Append(s, x) = DOMAIN s \cup {Len(s) + 1}
         /\ \A i \in DOMAIN s : Append(s, x)[i] = s[i]
         /\ Append(s, x)[Len(s) + 1] = x
OBVIOUS

(* Replacing one element keeps the indices and the other elements. *)
LEMMA ExceptIndices ==
  ASSUME NEW S, NEW s \in Seq(S), NEW i \in DOMAIN s, NEW x \in S
  PROVE  /\ [s EXCEPT ![i] = x] \in Seq(S) /\ Len([s EXCEPT ![i] = x]) = Len(s)
         /\ DOMAIN [s EXCEPT ![i] = x] = DOMAIN s
         /\ [s EXCEPT ![i] = x][i] = x
         /\ \A j \in DOMAIN s \ {i} : [s EXCEPT ![i] = x][j] = s[j]
OBVIOUS

(***************************************************************************)
(* Access: magic links and sessions.                                       *)
(***************************************************************************)
(* A request that has used up its link. *)
PastLink(q) == q.pc \in {"find", "add", "mint"} /\ q.link # 0

(* What a request knows of its link and of its session. *)
VisitKnows(q) ==
  /\ q.pc \in {"consume", "find", "add"} => q.link # 0 /\ q.session = 0
  /\ q.link # 0 => q.link \in DOMAIN links
  /\ PastLink(q) => links[q.link].consumed /\ \A s \in DOMAIN sessions : sessions[s].link # q.link
  /\ q.pc \in {"user", "rotate", "deny", "leave"} => q.session # 0 /\ q.link = 0
  /\ q.session # 0 => q.session \in DOMAIN sessions /\ sessions[q.session].email = q.email
  /\ q.session # 0 /\ q.pc \in {"user", "rotate", "mint"} => ~sessions[q.session].ended
  /\ q.session # 0 /\ q.pc = "mint" => sessions[q.session].revoked

VisitInv ==
  /\ \A r \in Visits : VisitKnows(request[r])
  /\ \A r, q \in Visits :
       PastLink(request[r]) /\ PastLink(request[q]) /\ request[r].link = request[q].link => r = q

(* What a session row says of its link and of the session it rotated. *)
SessionInv ==
  \A s \in DOMAIN sessions :
    /\ sessions[s].link # 0 => sessions[s].link \in DOMAIN links /\ links[sessions[s].link].consumed
    /\ sessions[s].ended => sessions[s].revoked
    /\ sessions[s].parent # 0 => sessions[s].parent \in DOMAIN sessions

AccessInv == AccessTypeOK /\ VisitInv /\ SessionInv /\ LinkOnce /\ RotationEnds

(* An idle request is typed and knows nothing. *)
LEMMA IdleVisit ==
  /\ VisitIdle \in VisitStates /\ VisitIdle.pc = "idle" /\ VisitIdle.link = 0 /\ VisitIdle.session = 0
BY AccessAssumption DEF VisitIdle, VisitStates

(* The tables are sequences of rows, their indices within the bounds. *)
LEMMA Tables ==
  ASSUME AccessTypeOK
  PROVE  /\ links \in Seq(LinkRows) /\ sessions \in Seq(SessionRows)
         /\ Len(links) \in Nat /\ Len(sessions) \in Nat
         /\ DOMAIN links = 1 .. Len(links) /\ DOMAIN sessions = 1 .. Len(sessions)
         /\ DOMAIN links \subseteq 1 .. MaxLinks /\ DOMAIN sessions \subseteq 1 .. MaxSessions
         /\ \A l \in DOMAIN links : links[l] \in LinkRows
         /\ \A s \in DOMAIN sessions : sessions[s] \in SessionRows
<1>1. links \in Seq(LinkRows) /\ sessions \in Seq(SessionRows)
      /\ Len(links) <= MaxLinks /\ Len(sessions) <= MaxSessions
  BY DEF AccessTypeOK
<1>2. Len(links) \in Nat /\ DOMAIN links = 1 .. Len(links) /\ \A l \in DOMAIN links : links[l] \in LinkRows
  BY <1>1, SeqIndices
<1>3. /\ Len(sessions) \in Nat /\ DOMAIN sessions = 1 .. Len(sessions)
      /\ \A s \in DOMAIN sessions : sessions[s] \in SessionRows
  BY <1>1, SeqIndices
<1> QED
  BY <1>1, <1>2, <1>3, AccessAssumption

(* The initial state satisfies the invariant. *)
LEMMA AccessInvInit == AccessInit => AccessInv
<1> SUFFICES ASSUME AccessInit PROVE AccessInv
  OBVIOUS
<1>1. DOMAIN links = {} /\ DOMAIN sessions = {} /\ Len(links) = 0 /\ Len(sessions) = 0
  BY DEF AccessInit
<1>2. links \in Seq(LinkRows) /\ sessions \in Seq(SessionRows)
  BY DEF AccessInit
<1>3. request \in [Visits -> VisitStates] /\ \A r \in Visits : request[r] = VisitIdle
  BY IdleVisit DEF AccessInit
<1>4. users \in [Emails -> Statuses] /\ passwords \subseteq Emails
  BY DEF AccessInit, Statuses
<1>5. VisitInv
  BY <1>3, IdleVisit DEF VisitInv, VisitKnows, PastLink
<1> QED
  BY <1>1, <1>2, <1>3, <1>4, <1>5, AccessAssumption
     DEF AccessInv, AccessTypeOK, SessionInv, LinkOnce, RotationEnds

(* A request that only moves keeps the invariant when what it claims to know *)
(* is so, and it has used up no link but the one it had.                     *)
LEMMA MoveKeeps ==
  ASSUME AccessInv, NEW r \in Visits, NEW q \in VisitStates,
         request' = [request EXCEPT ![r] = q], UNCHANGED <<links, sessions>>,
         users' \in [Emails -> Statuses], passwords' \subseteq Emails,
         VisitKnows(q),
         PastLink(q) => PastLink(request[r]) /\ request[r].link = q.link
  PROVE  AccessInv'
<1>1. request \in [Visits -> VisitStates]
  BY DEF AccessInv, AccessTypeOK
<1>2. request' \in [Visits -> VisitStates] /\ request'[r] = q
      /\ \A t \in Visits \ {r} : request'[t] = request[t]
  BY <1>1
<1>3. \A t \in Visits : VisitKnows(request'[t])
  BY <1>2 DEF AccessInv, VisitInv
<1>4. \A t \in Visits : PastLink(request'[t]) => PastLink(request[t]) /\ request[t].link = request'[t].link
  BY <1>2
<1>5. VisitInv'
  BY <1>3, <1>4 DEF AccessInv, VisitInv, VisitKnows, PastLink
<1> QED
  BY <1>2, <1>5 DEF AccessInv, AccessTypeOK, SessionInv, LinkOnce, RotationEnds

(* So does a request that ends. *)
LEMMA EndKeeps ==
  ASSUME AccessInv, NEW r \in Visits, VisitEnds(r), UNCHANGED <<links, sessions>>,
         users' \in [Emails -> Statuses], passwords' \subseteq Emails
  PROVE  AccessInv'
<1>1. VisitKnows(VisitIdle) /\ ~PastLink(VisitIdle)
  BY IdleVisit DEF VisitKnows, PastLink
<1> QED
  BY <1>1, IdleVisit, MoveKeeps DEF VisitEnds

(* A session row that is revoked, ended or expired keeps what sessions say   *)
(* of each other, when it is ended only with nobody past its check.          *)
LEMMA RowKeeps ==
  ASSUME AccessInv, NEW s \in DOMAIN sessions, NEW entry \in SessionRows,
         sessions' = [sessions EXCEPT ![s] = entry], UNCHANGED <<links, users, passwords>>,
         entry.email = sessions[s].email /\ entry.link = sessions[s].link /\ entry.parent = sessions[s].parent,
         sessions[s].revoked => entry.revoked, entry.ended => entry.revoked,
         entry.ended => sessions[s].ended \/ ~Refreshed(s)
  PROVE  /\ sessions' \in Seq(SessionRows) /\ Len(sessions') = Len(sessions)
         /\ DOMAIN sessions' = DOMAIN sessions /\ sessions'[s] = entry
         /\ \A t \in DOMAIN sessions :
              /\ sessions'[t].email = sessions[t].email /\ sessions'[t].link = sessions[t].link
              /\ sessions'[t].parent = sessions[t].parent
              /\ sessions[t].revoked => sessions'[t].revoked
              /\ sessions'[t].ended => sessions[t].ended \/ (t = s /\ ~Refreshed(s))
         /\ SessionInv' /\ LinkOnce' /\ RotationEnds'
<1>0. AccessTypeOK
  BY DEF AccessInv
<1>1. /\ sessions' \in Seq(SessionRows) /\ Len(sessions') = Len(sessions)
      /\ DOMAIN sessions' = DOMAIN sessions /\ sessions'[s] = entry
      /\ \A j \in DOMAIN sessions \ {s} : sessions'[j] = sessions[j]
  BY <1>0, Tables, ExceptIndices
<1>2. \A t \in DOMAIN sessions :
        /\ sessions'[t].email = sessions[t].email /\ sessions'[t].link = sessions[t].link
        /\ sessions'[t].parent = sessions[t].parent
        /\ sessions[t].revoked => sessions'[t].revoked
        /\ sessions'[t].ended => sessions[t].ended \/ (t = s /\ ~Refreshed(s))
  BY <1>1
<1>3. SessionInv'
  BY <1>1, <1>2 DEF AccessInv, SessionInv
<1>4. LinkOnce'
  BY <1>1, <1>2 DEF AccessInv, LinkOnce
<1>5. RotationEnds'
  <2> SUFFICES ASSUME NEW t \in DOMAIN sessions, sessions[t].parent # 0
               PROVE  /\ sessions'[sessions[t].parent].revoked
                      /\ ~sessions'[sessions[t].parent].ended
                      /\ sessions'[sessions[t].parent].email = sessions'[t].email
    BY <1>1, <1>2 DEF RotationEnds
  <2>1. /\ sessions[t].parent \in DOMAIN sessions /\ sessions[sessions[t].parent].revoked
        /\ ~sessions[sessions[t].parent].ended
        /\ sessions[sessions[t].parent].email = sessions[t].email
    BY DEF AccessInv, SessionInv, RotationEnds
  <2>2. sessions[t].parent = s => Refreshed(s)
    BY DEF Refreshed
  <2> QED
    BY <1>2, <2>1, <2>2
<1> QED
  BY <1>1, <1>2, <1>3, <1>4, <1>5

(* Registration, login and the requests of links and sessions up to their    *)
(* first write keep the invariant.                                           *)
LEMMA InvRead ==
  ASSUME AccessInv, NEW r \in Visits,
         \/ Register(r) \/ InsertUser(r) \/ Login(r) \/ FindLink(r) \/ FindUser(r) \/ AddUser(r)
         \/ Refresh(r) \/ CheckUser(r) \/ Logout(r) \/ VisitDies(r)
  PROVE  AccessInv'
<1>0. /\ AccessTypeOK /\ request[r] \in VisitStates /\ VisitKnows(request[r])
      /\ users \in [Emails -> Statuses] /\ passwords \subseteq Emails
      /\ request \in [Visits -> VisitStates]
  BY DEF AccessInv, VisitInv, AccessTypeOK
<1>1. ASSUME NEW pc \in {"register", "consume", "mint", "user", "leave"}, NEW e \in Emails,
             NEW l \in 0 .. MaxLinks, NEW s \in 0 .. MaxSessions, VisitBegins(r, pc, e, l, s),
             UNCHANGED <<users, passwords, links, sessions>>,
             pc = "consume" <=> l # 0, l # 0 => l \in DOMAIN links,
             pc \in {"user", "leave"} <=> s # 0,
             s # 0 => s \in DOMAIN sessions /\ sessions[s].email = e /\ ~sessions[s].ended
      PROVE  AccessInv'
  <2> DEFINE q == [pc |-> pc, email |-> e, link |-> l, session |-> s]
  <2>1. q \in VisitStates /\ q.pc = pc /\ q.email = e /\ q.link = l /\ q.session = s
    BY DEF VisitStates
  <2>2. request' = [request EXCEPT ![r] = q]
    BY <1>1 DEF VisitBegins
  <2> HIDE DEF q
  <2>3. VisitKnows(q) /\ ~PastLink(q)
    BY <1>1, <2>1 DEF VisitKnows, PastLink
  <2> QED
    BY <1>0, <1>1, <2>1, <2>2, <2>3, MoveKeeps
<1>2. CASE Register(r)
  BY <1>1, <1>2, AccessAssumption DEF Register
<1>3. CASE InsertUser(r)
  <2>1. request[r].email \in Emails
    BY <1>0 DEF VisitStates
  <2>2. users' \in [Emails -> Statuses] /\ passwords' \subseteq Emails
    BY <1>0, <1>3, <2>1 DEF InsertUser, Statuses
  <2> QED
    BY <1>3, <2>2, EndKeeps DEF InsertUser
<1>4. CASE Login(r)
  BY <1>0, <1>1, <1>4, AccessAssumption DEF Login
<1>5. CASE FindLink(r)
  <2>1. PICK l \in DOMAIN links : VisitBegins(r, "consume", links[l].email, l, 0)
    BY <1>5 DEF FindLink
  <2>2. links[l].email \in Emails /\ l \in 0 .. MaxLinks /\ l # 0 /\ 0 \in 0 .. MaxSessions
    BY <1>0, Tables, AccessAssumption DEF LinkRows
  <2> QED
    BY <1>1, <1>5, <2>1, <2>2 DEF FindLink
<1>6. ASSUME NEW pc \in {"add", "mint", "rotate", "deny"}, Goes(r, pc), UNCHANGED <<links, sessions>>,
             \/ pc \in {"add", "mint"} /\ request[r].pc \in {"find", "add"} /\ request[r].session = 0
             \/ pc \in {"rotate", "deny"} /\ request[r].pc = "user",
             users' \in [Emails -> Statuses], passwords' \subseteq Emails
      PROVE  AccessInv'
  <2> DEFINE q == [request[r] EXCEPT !.pc = pc]
  <2>1. /\ q \in VisitStates /\ q.pc = pc /\ q.email = request[r].email
        /\ q.link = request[r].link /\ q.session = request[r].session
    BY <1>0 DEF VisitStates
  <2>2. request' = [request EXCEPT ![r] = q]
    BY <1>0, <1>6 DEF Goes
  <2> HIDE DEF q
  <2>3. VisitKnows(q) /\ (PastLink(q) => PastLink(request[r]))
    BY <1>0, <1>6, <2>1 DEF VisitKnows, PastLink
  <2> QED
    BY <1>0, <1>6, <2>1, <2>2, <2>3, MoveKeeps
<1>7. CASE FindUser(r)
  <2>1. request[r].pc = "find" /\ request[r].session = 0 /\ UNCHANGED <<users, passwords, links, sessions>>
    BY <1>0, <1>7 DEF FindUser, VisitAt, VisitKnows
  <2>2. Goes(r, "add") \/ Goes(r, "mint") \/ VisitEnds(r)
    BY <1>7 DEF FindUser
  <2> QED
    BY <1>0, <1>6, <2>1, <2>2, EndKeeps
<1>8. CASE AddUser(r)
  <2>1. request[r].pc = "add" /\ request[r].session = 0 /\ UNCHANGED <<passwords, links, sessions>>
    BY <1>0, <1>8 DEF AddUser, VisitAt, VisitKnows
  <2>2. users' \in [Emails -> Statuses]
    BY <1>0, <1>8 DEF AddUser, Statuses, VisitStates
  <2>3. Goes(r, "mint") \/ VisitEnds(r)
    BY <1>8 DEF AddUser
  <2> QED
    BY <1>0, <1>6, <2>1, <2>2, <2>3, EndKeeps
<1>9. ASSUME NEW pc \in {"user", "leave"}, NEW s \in DOMAIN sessions, FindActiveSession(s),
             VisitBegins(r, pc, sessions[s].email, 0, s), UNCHANGED <<users, passwords, links, sessions>>
      PROVE  AccessInv'
  <2>1. sessions[s].email \in Emails /\ s \in 0 .. MaxSessions /\ s # 0 /\ 0 \in 0 .. MaxLinks
    BY <1>0, Tables, AccessAssumption DEF SessionRows
  <2>2. ~sessions[s].ended
    BY <1>9 DEF FindActiveSession, Live, AccessInv, SessionInv
  <2> QED
    BY <1>1, <1>9, <2>1, <2>2
<1>10. CASE Refresh(r)
  BY <1>9, <1>10 DEF Refresh
<1>11. CASE Logout(r)
  BY <1>9, <1>11 DEF Logout
<1>12. CASE CheckUser(r)
  BY <1>0, <1>6, <1>12 DEF CheckUser, VisitAt
<1>13. CASE VisitDies(r)
  BY <1>0, <1>13, EndKeeps DEF VisitDies
<1> QED
  BY <1>2, <1>3, <1>4, <1>5, <1>7, <1>8, <1>10, <1>11, <1>12, <1>13

(* A link row that is consumed or expired stays where it is, and what was    *)
(* consumed stays so.                                                        *)
LEMMA LinkKeeps ==
  ASSUME AccessInv, NEW l \in DOMAIN links, NEW entry \in LinkRows,
         links' = [links EXCEPT ![l] = entry], sessions' = sessions, links[l].consumed => entry.consumed
  PROVE  /\ links' \in Seq(LinkRows) /\ Len(links') = Len(links) /\ DOMAIN links' = DOMAIN links
         /\ \A k \in DOMAIN links : links[k].consumed => links'[k].consumed
         /\ links'[l] = entry /\ SessionInv' /\ LinkOnce' /\ RotationEnds'
<1>0. AccessTypeOK
  BY DEF AccessInv
<1>1. /\ links' \in Seq(LinkRows) /\ Len(links') = Len(links) /\ DOMAIN links' = DOMAIN links
      /\ links'[l] = entry /\ \A k \in DOMAIN links \ {l} : links'[k] = links[k]
  BY <1>0, Tables, ExceptIndices
<1>2. \A k \in DOMAIN links : links[k].consumed => links'[k].consumed
  BY <1>1
<1> QED
  BY <1>1, <1>2 DEF AccessInv, SessionInv, LinkOnce, RotationEnds

(* Requesting, consuming and expiring links keep the invariant: of two       *)
(* requests with one link the first gets past ConsumeLink.                   *)
LEMMA InvLinks ==
  ASSUME AccessInv, RequestLink \/ ExpireLink \/ \E r \in Visits : ConsumeLink(r)
  PROVE  AccessInv'
<1>0. AccessTypeOK /\ VisitInv /\ request \in [Visits -> VisitStates]
  BY DEF AccessInv, AccessTypeOK
<1>1. CASE RequestLink
  <2>1. PICK e \in Emails : links' = Append(links, [email |-> e, consumed |-> FALSE, expired |-> FALSE])
    BY <1>1 DEF RequestLink
  <2>2. [email |-> e, consumed |-> FALSE, expired |-> FALSE] \in LinkRows
    BY DEF LinkRows
  <2>3. /\ links' \in Seq(LinkRows) /\ Len(links') = Len(links) + 1
        /\ DOMAIN links' = DOMAIN links \cup {Len(links) + 1}
        /\ \A l \in DOMAIN links : links'[l] = links[l]
    BY <1>0, <2>1, <2>2, Tables, AppendIndices
  <2>4. Len(links') <= MaxLinks
    BY <1>0, <1>1, <2>3, Tables, AccessAssumption DEF RequestLink
  <2>5. UNCHANGED <<users, passwords, sessions, request>>
    BY <1>1 DEF RequestLink
  <2>6. VisitInv'
    BY <1>0, <2>3, <2>5 DEF VisitInv, VisitKnows, PastLink
  <2> QED
    BY <2>3, <2>4, <2>5, <2>6
       DEF AccessInv, AccessTypeOK, SessionInv, LinkOnce, RotationEnds
<1>2. CASE ExpireLink
  <2>1. PICK l \in DOMAIN links : links' = [links EXCEPT ![l].expired = TRUE]
    BY <1>2 DEF ExpireLink
  <2> DEFINE entry == [links[l] EXCEPT !.expired = TRUE]
  <2>2. entry \in LinkRows /\ entry.consumed = links[l].consumed /\ links' = [links EXCEPT ![l] = entry]
    BY <1>0, <2>1, Tables DEF LinkRows
  <2>3. UNCHANGED <<users, passwords, sessions, request>>
    BY <1>2 DEF ExpireLink
  <2> HIDE DEF entry
  <2>4. /\ links' \in Seq(LinkRows) /\ Len(links') = Len(links) /\ DOMAIN links' = DOMAIN links
        /\ \A k \in DOMAIN links : links[k].consumed => links'[k].consumed
        /\ SessionInv' /\ LinkOnce' /\ RotationEnds'
    BY <2>2, <2>3, LinkKeeps
  <2>5. VisitInv'
    BY <1>0, <2>3, <2>4 DEF VisitInv, VisitKnows, PastLink
  <2> QED
    BY <2>3, <2>4, <2>5 DEF AccessInv, AccessTypeOK
<1>3. ASSUME NEW r \in Visits, ConsumeLink(r) PROVE AccessInv'
  <2> DEFINE l == request[r].link  entry == [links[l] EXCEPT !.consumed = TRUE]
  <2>1. /\ request[r] \in VisitStates /\ request[r].pc = "consume" /\ l \in DOMAIN links /\ l # 0
        /\ request[r].session = 0 /\ UNCHANGED <<users, passwords, sessions>>
    BY <1>0, <1>3 DEF ConsumeLink, VisitAt, VisitInv, VisitKnows
  <2>2. entry \in LinkRows /\ entry.consumed /\ links' = [links EXCEPT ![l] = entry]
    BY <1>0, <1>3, <2>1, Tables DEF ConsumeLink, LinkRows
  <2> HIDE DEF entry
  <2>3. /\ links' \in Seq(LinkRows) /\ Len(links') = Len(links) /\ DOMAIN links' = DOMAIN links
        /\ \A k \in DOMAIN links : links[k].consumed => links'[k].consumed
        /\ links'[l].consumed /\ SessionInv' /\ LinkOnce' /\ RotationEnds'
    BY <2>1, <2>2, LinkKeeps
  <2>5. PICK q \in VisitStates :
          /\ request' = [request EXCEPT ![r] = q] /\ q.session = 0
          /\ \/ links[l].consumed /\ q.pc = "idle" /\ q.link = 0
             \/ ~links[l].consumed /\ q.pc = "find" /\ q.link = l
    <3>1. CASE links[l].consumed
      BY <1>3, <3>1, IdleVisit DEF ConsumeLink, VisitEnds
    <3>2. CASE ~links[l].consumed
      <4> DEFINE q == [request[r] EXCEPT !.pc = "find"]
      <4>1. q \in VisitStates /\ q.pc = "find" /\ q.link = l /\ q.session = 0
        BY <2>1 DEF VisitStates
      <4>2. request' = [request EXCEPT ![r] = q]
        BY <1>0, <1>3, <3>2 DEF ConsumeLink, Goes
      <4> HIDE DEF q
      <4> QED
        BY <3>2, <4>1, <4>2
    <3> QED
      BY <3>1, <3>2
  <2>6. request' \in [Visits -> VisitStates] /\ request'[r] = q
        /\ \A t \in Visits \ {r} : request'[t] = request[t]
    BY <1>0, <2>5
  <2>7. ~links[l].consumed => /\ \A s \in DOMAIN sessions : sessions[s].link # l
                              /\ \A t \in Visits : ~(PastLink(request[t]) /\ request[t].link = l)
    BY <1>0, <2>1 DEF AccessInv, SessionInv, VisitInv, VisitKnows
  <2>8. VisitKnows(q)'
    BY <2>1, <2>3, <2>5, <2>7 DEF VisitKnows, PastLink
  <2>9. \A t \in Visits \ {r} : VisitKnows(request[t])'
    BY <1>0, <2>1, <2>3, <2>6 DEF VisitInv, VisitKnows, PastLink
  <2>10. VisitInv'
    <3>1. \A t \in Visits : VisitKnows(request[t])'
      BY <2>6, <2>8, <2>9
    <3>2. \A t \in Visits \ {r} :
            ~(PastLink(request'[t]) /\ PastLink(request'[r]) /\ request'[t].link = request'[r].link)
      BY <2>5, <2>6, <2>7 DEF PastLink
    <3>3. \A t, u \in Visits : PastLink(request'[t]) /\ PastLink(request'[u])
                              /\ request'[t].link = request'[u].link => t = u
      BY <1>0, <2>6, <3>2 DEF VisitInv
    <3> QED
      BY <3>1, <3>3 DEF VisitInv, PastLink
  <2> QED
    BY <2>1, <2>3, <2>6, <2>10 DEF AccessInv, AccessTypeOK
<1> QED
  BY <1>1, <1>2, <1>3

(* Rotating, denying and expiring a session, and logging it out, keep it.    *)
LEMMA InvSessions ==
  ASSUME AccessInv,
         \/ ExpireSession
         \/ \E r \in Visits : Rotate(r) \/ DenyInactive(r) \/ Leave(r)
  PROVE  AccessInv'
<1>0. AccessTypeOK /\ VisitInv /\ request \in [Visits -> VisitStates]
  BY DEF AccessInv, AccessTypeOK
<1>1. CASE ExpireSession
  <2>1. PICK s \in DOMAIN sessions : sessions' = [sessions EXCEPT ![s].expired = TRUE]
    BY <1>1 DEF ExpireSession
  <2> DEFINE entry == [sessions[s] EXCEPT !.expired = TRUE]
  <2>2. /\ entry \in SessionRows /\ sessions' = [sessions EXCEPT ![s] = entry]
        /\ entry.email = sessions[s].email /\ entry.link = sessions[s].link
        /\ entry.parent = sessions[s].parent /\ entry.revoked = sessions[s].revoked
        /\ entry.ended = sessions[s].ended
    BY <1>0, <2>1, Tables DEF SessionRows
  <2>3. UNCHANGED <<users, passwords, links, request>>
    BY <1>1 DEF ExpireSession
  <2>4. sessions[s].ended => sessions[s].revoked
    BY DEF AccessInv, SessionInv
  <2> HIDE DEF entry
  <2>5. /\ sessions' \in Seq(SessionRows) /\ Len(sessions') = Len(sessions)
        /\ DOMAIN sessions' = DOMAIN sessions /\ sessions'[s] = entry
        /\ \A t \in DOMAIN sessions :
              /\ sessions'[t].email = sessions[t].email /\ sessions'[t].link = sessions[t].link
              /\ sessions[t].revoked => sessions'[t].revoked
              /\ sessions'[t].ended => sessions[t].ended \/ (t = s /\ ~Refreshed(s))
        /\ SessionInv' /\ LinkOnce' /\ RotationEnds'
    BY <2>2, <2>3, <2>4, RowKeeps
  <2>6. \A t \in DOMAIN sessions : sessions'[t].ended => sessions[t].ended
    BY <2>2, <2>5
  <2>7. VisitInv'
    BY <1>0, <2>3, <2>5, <2>6 DEF VisitInv, VisitKnows, PastLink
  <2> QED
    BY <1>0, <2>3, <2>5, <2>7 DEF AccessInv, AccessTypeOK
<1>2. ASSUME NEW r \in Visits, NEW s \in DOMAIN sessions, NEW loggedOut \in BOOLEAN,
             sessions' = [sessions EXCEPT ![s].revoked = TRUE, ![s].ended = loggedOut],
             loggedOut => sessions[s].ended \/ ~Refreshed(s),
             UNCHANGED <<users, passwords, links>>, s = request[r].session, request[r].link = 0,
             \/ VisitEnds(r)
             \/ Goes(r, "mint") /\ request[r].pc = "rotate" /\ ~loggedOut
      PROVE  AccessInv'
  <2> DEFINE entry == [sessions[s] EXCEPT !.revoked = TRUE, !.ended = loggedOut]
  <2>1. /\ entry \in SessionRows /\ sessions' = [sessions EXCEPT ![s] = entry]
        /\ entry.email = sessions[s].email /\ entry.link = sessions[s].link
        /\ entry.parent = sessions[s].parent /\ entry.revoked /\ entry.ended = loggedOut
    BY <1>0, <1>2, Tables DEF SessionRows
  <2> HIDE DEF entry
  <2>2. /\ sessions' \in Seq(SessionRows) /\ Len(sessions') = Len(sessions)
        /\ DOMAIN sessions' = DOMAIN sessions /\ sessions'[s] = entry
        /\ \A t \in DOMAIN sessions :
              /\ sessions'[t].email = sessions[t].email /\ sessions'[t].link = sessions[t].link
              /\ sessions[t].revoked => sessions'[t].revoked
              /\ sessions'[t].ended => sessions[t].ended \/ (t = s /\ ~Refreshed(s))
        /\ SessionInv' /\ LinkOnce' /\ RotationEnds'
    BY <1>2, <2>1, RowKeeps
  <2>3. /\ \A t \in DOMAIN sessions : sessions'[t].ended => sessions[t].ended \/ ~Refreshed(t)
        /\ \A q \in Visits : request[q].pc \in {"user", "rotate", "mint"} /\ request[q].session # 0
                               => Refreshed(request[q].session)
    BY <2>2 DEF Refreshed
  <2>4. PICK q \in VisitStates :
          /\ request' = [request EXCEPT ![r] = q] /\ q.link = 0
          /\ \/ q.pc = "idle" /\ q.session = 0
             \/ q.pc = "mint" /\ q.session = s /\ q.email = request[r].email /\ ~loggedOut
    <3>1. CASE VisitEnds(r)
      BY <3>1, IdleVisit DEF VisitEnds
    <3>2. CASE Goes(r, "mint") /\ ~loggedOut
      <4> DEFINE q == [request[r] EXCEPT !.pc = "mint"]
      <4>1. /\ q \in VisitStates /\ q.pc = "mint" /\ q.link = 0 /\ q.session = s
            /\ q.email = request[r].email
        BY <1>0, <1>2 DEF VisitStates
      <4>2. request' = [request EXCEPT ![r] = q]
        BY <1>0, <3>2 DEF Goes
      <4> HIDE DEF q
      <4> QED
        BY <3>2, <4>1, <4>2
    <3> QED
      BY <1>2, <3>1, <3>2
  <2>5. request' \in [Visits -> VisitStates] /\ request'[r] = q
        /\ \A t \in Visits \ {r} : request'[t] = request[t]
    BY <1>0, <2>4
  <2>6. VisitKnows(q)'
    <3>1. sessions[s].email = request[r].email /\ s # 0
      BY <1>0, <1>2, Tables DEF VisitInv, VisitKnows
    <3> QED
      BY <1>2, <2>1, <2>2, <2>4, <3>1 DEF VisitKnows, PastLink
  <2>7. ASSUME NEW t \in Visits \ {r} PROVE VisitKnows(request[t])'
    <3>1. VisitKnows(request[t])
      BY <1>0 DEF VisitInv
    <3>2. request'[t] = request[t]
      BY <2>5
    <3>3. request[t].session # 0 /\ request[t].pc \in {"user", "rotate", "mint"}
            => ~sessions'[request[t].session].ended
      BY <2>3, <3>1 DEF VisitKnows
    <3> QED
      BY <1>2, <2>2, <3>1, <3>2, <3>3 DEF VisitKnows, PastLink
  <2>8. VisitInv'
    <3>1. \A t \in Visits : VisitKnows(request[t])'
      BY <2>5, <2>6, <2>7
    <3>2. \A t \in Visits : PastLink(request'[t]) => t # r /\ request'[t] = request[t]
      BY <2>4, <2>5 DEF PastLink
    <3> QED
      BY <1>0, <3>1, <3>2 DEF VisitInv, PastLink
  <2> QED
    BY <1>0, <1>2, <2>2, <2>5, <2>8 DEF AccessInv, AccessTypeOK
<1>3. ASSUME NEW r \in Visits, Rotate(r) \/ DenyInactive(r) PROVE AccessInv'
  <2> DEFINE s == request[r].session
  <2>1. request[r].pc \in {"rotate", "deny"} /\ VisitKnows(request[r])
    BY <1>0, <1>3 DEF Rotate, DenyInactive, VisitAt, VisitInv
  <2>2. s \in DOMAIN sessions /\ sessions[s] \in SessionRows
    BY <1>0, <2>1, Tables DEF VisitKnows
  <2>3. sessions' = [sessions EXCEPT ![s].revoked = TRUE, ![s].ended = sessions[s].ended]
    BY <1>0, <1>3, <2>2, Tables DEF Rotate, DenyInactive, RevokeSession, SessionRows
  <2>4. request[r].pc = "rotate" => ~sessions[s].ended
    BY <2>1, <2>2, <1>0, Tables DEF VisitKnows
  <2>5. sessions[s].ended \in BOOLEAN
    BY <2>2 DEF SessionRows
  <2>6. request[r].link = 0
    BY <1>0, <2>1 DEF VisitInv, VisitKnows
  <2> QED
    BY <1>2, <1>3, <2>2, <2>3, <2>4, <2>5, <2>6 DEF Rotate, DenyInactive, VisitAt
<1>4. ASSUME NEW r \in Visits, Leave(r) PROVE AccessInv'
  <2> DEFINE s == request[r].session
  <2>1. request[r].pc = "leave" /\ s \in DOMAIN sessions /\ request[r].link = 0
    BY <1>0, <1>4 DEF Leave, VisitAt, VisitInv, VisitKnows
  <2>2. sessions' = [sessions EXCEPT ![s].revoked = TRUE, ![s].ended = ~Refreshed(s)]
    BY <1>4 DEF Leave
  <2>3. (~Refreshed(s)) \in BOOLEAN
    BY DEF Refreshed
  <2> QED
    BY <1>2, <1>4, <2>1, <2>2, <2>3 DEF Leave
<1> QED
  BY <1>1, <1>3, <1>4

(* The last step of a sign-in appends a session that no link has given       *)
(* before and whose parent, when it has one, is dead.                        *)
LEMMA InvCreate ==
  ASSUME AccessInv, NEW r \in Visits, CreateSession(r)
  PROVE  AccessInv'
<1> DEFINE q == request[r]
           entry == [email |-> q.email, revoked |-> FALSE, expired |-> FALSE,
                   parent |-> q.session, link |-> q.link, ended |-> FALSE]
           n == Len(sessions) + 1
<1>0. /\ AccessTypeOK /\ VisitInv /\ request \in [Visits -> VisitStates]
      /\ q \in VisitStates /\ VisitKnows(q) /\ q.pc = "mint"
      /\ sessions' = Append(sessions, entry) /\ UNCHANGED <<users, passwords, links>>
  BY DEF AccessInv, AccessTypeOK, VisitInv, CreateSession, VisitAt
<1>1. /\ entry \in SessionRows /\ entry.email = q.email /\ entry.parent = q.session
      /\ entry.link = q.link /\ ~entry.ended
  BY <1>0 DEF VisitStates, SessionRows
<1> HIDE DEF entry
<1>2. /\ sessions' \in Seq(SessionRows) /\ Len(sessions') = n
      /\ DOMAIN sessions' = DOMAIN sessions \cup {n} /\ n \notin DOMAIN sessions
      /\ \A s \in DOMAIN sessions : sessions'[s] = sessions[s]
      /\ sessions'[n] = entry /\ n # 0
  BY <1>0, <1>1, Tables, AppendIndices
<1>3. Len(sessions') <= MaxSessions
  BY <1>0, <1>2, Tables, AccessAssumption DEF CreateSession
<1> HIDE DEF n
<1>4. request' \in [Visits -> VisitStates] /\ request'[r] = VisitIdle
      /\ \A t \in Visits \ {r} : request'[t] = request[t]
  BY <1>0, IdleVisit DEF CreateSession, VisitEnds
<1>5. \A t \in Visits \ {r} : PastLink(request[t]) => request[t].link # entry.link
  BY <1>0, <1>1 DEF VisitInv, PastLink
<1>6. VisitKnows(VisitIdle)' /\ ~PastLink(VisitIdle)
  BY IdleVisit DEF VisitKnows, PastLink
<1>7. \A t \in Visits \ {r} : VisitKnows(request[t])'
  <2> SUFFICES ASSUME NEW t \in Visits \ {r} PROVE VisitKnows(request[t])'
    OBVIOUS
  <2>1. VisitKnows(request[t]) /\ request'[t] = request[t] /\ links' = links
    BY <1>0, <1>4 DEF VisitInv
  <2> QED
    BY <1>2, <1>5, <2>1 DEF VisitKnows, PastLink
<1>8. VisitInv'
  <2>1. \A t \in Visits : VisitKnows(request[t])'
    BY <1>4, <1>6, <1>7
  <2>2. \A t \in Visits : PastLink(request'[t]) => t # r /\ request'[t] = request[t]
    BY <1>4, <1>6
  <2> QED
    BY <1>0, <2>1, <2>2 DEF VisitInv, PastLink
<1>9. entry.link # 0 => /\ entry.link \in DOMAIN links /\ links[entry.link].consumed
                      /\ \A s \in DOMAIN sessions : sessions[s].link # entry.link
  BY <1>0, <1>1 DEF VisitKnows, PastLink
<1>10. entry.parent # 0 =>
         /\ entry.parent \in DOMAIN sessions /\ sessions[entry.parent].revoked
         /\ ~sessions[entry.parent].ended /\ sessions[entry.parent].email = entry.email
  BY <1>0, <1>1 DEF VisitKnows
<1>11. SessionInv'
  BY <1>0, <1>1, <1>2, <1>9, <1>10 DEF AccessInv, SessionInv
<1>12. LinkOnce'
  BY <1>2, <1>9 DEF AccessInv, LinkOnce
<1>13. RotationEnds'
  <2> SUFFICES ASSUME NEW s \in DOMAIN sessions', sessions'[s].parent # 0
               PROVE  /\ sessions'[sessions'[s].parent].revoked
                      /\ ~sessions'[sessions'[s].parent].ended
                      /\ sessions'[sessions'[s].parent].email = sessions'[s].email
    BY DEF RotationEnds
  <2>1. CASE s = n
    BY <1>2, <1>10, <2>1
  <2>2. CASE s \in DOMAIN sessions
    <3>1. sessions[s].parent \in DOMAIN sessions
      BY <1>2, <2>2 DEF AccessInv, SessionInv
    <3> QED
      BY <1>2, <2>2, <3>1 DEF AccessInv, RotationEnds
  <2> QED
    BY <1>2, <2>1, <2>2
<1> QED
  BY <1>0, <1>2, <1>3, <1>4, <1>8, <1>11, <1>12, <1>13 DEF AccessInv, AccessTypeOK

(* AccessInv holds in every reachable state: what a request knows of its     *)
(* link and its session, and what the session rows say of each other.        *)
THEOREM AccessInductive == AccessSpec => []AccessInv
<1>1. AccessInv /\ [AccessNext]_accessVars => AccessInv'
  <2> SUFFICES ASSUME AccessInv, [AccessNext]_accessVars PROVE AccessInv'
    OBVIOUS
  <2>1. CASE RequestLink \/ ExpireLink \/ ExpireSession
    BY <2>1, InvLinks, InvSessions
  <2>2. CASE SetStatus
    <3>1. users' \in [Emails -> Statuses]
      BY <2>2 DEF SetStatus, AccessInv, AccessTypeOK, Statuses
    <3> QED
      BY <2>2, <3>1 DEF SetStatus, AccessInv, AccessTypeOK, VisitInv, VisitKnows, PastLink,
                        SessionInv, LinkOnce, RotationEnds
  <2>3. ASSUME NEW r \in Visits, VisitStep(r) PROVE AccessInv'
    BY <2>3, InvRead, InvLinks, InvSessions, InvCreate DEF VisitStep
  <2>4. CASE UNCHANGED accessVars
    BY <2>4 DEF accessVars, AccessInv, AccessTypeOK, VisitInv, VisitKnows, PastLink,
                SessionInv, LinkOnce, RotationEnds
  <2> QED
    BY <2>1, <2>2, <2>3, <2>4 DEF AccessNext
<1> QED
  BY <1>1, AccessInvInit, PTL DEF AccessSpec

(* A magic link gives one session however often it is opened, a rotated      *)
(* session is dead when its successor is made, and a session logged out      *)
(* before any refresh of it never has one (auth.ts, auth-passwordless.ts).   *)
THEOREM SessionsEarnedAlways == AccessSpec => []SessionsEarned
<1>1. AccessInv => SessionsEarned
  BY DEF AccessInv, SessionsEarned
<1> QED
  BY <1>1, AccessInductive, PTL

(***************************************************************************)
(* Catalog: products and bundles.                                          *)
(***************************************************************************)
(* A request that is not over has a tier, and one between the bundle and    *)
(* its product works on a bundle there is.                                  *)
EditorInv ==
  \A d \in Editors :
    /\ editor[d].pc # "idle" => editor[d].tier \in Tiers
    /\ editor[d].pc = "items" => editor[d].bundle \in DOMAIN bundles

(* A product that names a bundle, sold or not, names a whole one.           *)
NamesWhole ==
  \A i \in DOMAIN products :
    LET b == products[i].bundle IN
      b # 0 => b \in DOMAIN bundles /\ bundles[b].items = bundles[b].wanted

CatalogInv == CatalogTypeOK /\ EditorInv /\ NamesWhole

(* An idle request is typed. *)
LEMMA IdleEditor == EditorIdle \in EditorStates /\ EditorIdle.pc = "idle"
BY CatalogAssumption DEF EditorIdle, EditorStates

(* The initial state satisfies the invariant. *)
LEMMA CatalogInvInit == CatalogInit => CatalogInv
<1> SUFFICES ASSUME CatalogInit PROVE CatalogInv
  OBVIOUS
<1>1. DOMAIN products = {} /\ Len(products) = 0 /\ Len(bundles) = 0
  BY DEF CatalogInit
<1>2. products \in Seq(ProductRows) /\ bundles \in Seq(BundleRows)
  BY DEF CatalogInit
<1>3. ready \subseteq PhotoIds /\ editor \in [Editors -> EditorStates]
  BY IdleEditor DEF CatalogInit
<1>4. EditorInv
  BY IdleEditor DEF CatalogInit, EditorInv
<1> QED
  BY <1>1, <1>2, <1>3, <1>4, CatalogAssumption DEF CatalogInv, CatalogTypeOK, NamesWhole

(* A product appended keeps the rows typed and, when its bundle is whole,   *)
(* NamesWhole.                                                              *)
LEMMA InsertKeeps ==
  ASSUME CatalogInv, NEW photo \in PhotoIds \cup {NoPhoto}, NEW tier \in Tiers,
         NEW b \in 0 .. MaxBundles,
         Len(products) < MaxProducts, InsertRow(photo, tier, b), bundles' = bundles,
         b # 0 => b \in DOMAIN bundles /\ bundles[b].items = bundles[b].wanted
  PROVE  products' \in Seq(ProductRows) /\ Len(products') <= MaxProducts /\ NamesWhole'
<1> DEFINE entry == [photo |-> photo, tier |-> tier, skuTier |-> tier, bundle |-> b, active |-> TRUE]
<1>1. entry \in ProductRows
  BY DEF ProductRows
<1>2. products \in Seq(ProductRows) /\ products' = Append(products, entry)
  BY DEF CatalogInv, CatalogTypeOK, InsertRow
<1> HIDE DEF entry
<1>3. /\ products' \in Seq(ProductRows) /\ Len(products') = Len(products) + 1
      /\ DOMAIN products' = DOMAIN products \cup {Len(products) + 1}
      /\ \A i \in DOMAIN products : products'[i] = products[i]
      /\ products'[Len(products) + 1] = entry
  BY <1>1, <1>2, AppendIndices
<1>4. entry.bundle = b
  BY DEF entry
<1>5. Len(products) \in Nat
  BY <1>2, SeqIndices
<1>6. ASSUME NEW i \in DOMAIN products', products'[i].bundle # 0
      PROVE  /\ products'[i].bundle \in DOMAIN bundles'
             /\ bundles'[products'[i].bundle].items = bundles'[products'[i].bundle].wanted
  <2>1. CASE i \in DOMAIN products
    BY <1>3, <1>6, <2>1 DEF CatalogInv, NamesWhole
  <2>2. CASE i = Len(products) + 1
    BY <1>3, <1>4, <1>6, <2>2
  <2> QED
    BY <1>3, <1>6, <2>1, <2>2
<1> QED
  BY <1>3, <1>5, <1>6, CatalogAssumption DEF NamesWhole

(* The requests of organizers keep the invariant. *)
LEMMA InvEditor ==
  ASSUME CatalogInv, NEW d \in Editors,
         \/ CreateProduct(d) \/ InsertProduct(d) \/ CreateBundle(d) \/ InsertBundleItem(d)
         \/ InsertBundleProduct(d) \/ EditorDies(d)
  PROVE  CatalogInv'
<1> USE CatalogAssumption, IdleEditor DEF CatalogInv, EditorAt, EditorEnds
<1>0. /\ editor \in [Editors -> EditorStates] /\ editor[d] \in EditorStates
      /\ products \in Seq(ProductRows) /\ bundles \in Seq(BundleRows)
      /\ DOMAIN bundles \subseteq 1 .. MaxBundles /\ Len(bundles) \in Nat
  <2>1. /\ editor \in [Editors -> EditorStates] /\ editor[d] \in EditorStates
        /\ products \in Seq(ProductRows) /\ bundles \in Seq(BundleRows)
        /\ Len(bundles) <= MaxBundles
    BY DEF CatalogTypeOK
  <2>2. Len(bundles) \in Nat /\ DOMAIN bundles = 1 .. Len(bundles)
    BY <2>1, SeqIndices
  <2> QED
    BY <2>1, <2>2
<1>1. CASE CreateProduct(d)
  <2>1. PICK p \in PhotoIds, t \in Tiers : EditorBegins(d, "product", p, t, 0)
    BY <1>1 DEF CreateProduct
  <2>2. [pc |-> "product", photo |-> p, tier |-> t, bundle |-> 0] \in EditorStates
    BY DEF EditorStates
  <2>3. editor' \in [Editors -> EditorStates] /\ EditorInv'
    BY <1>0, <1>1, <2>1, <2>2 DEF EditorBegins, CreateProduct, EditorInv
  <2> QED
    BY <1>1, <2>3 DEF CreateProduct, CatalogTypeOK, NamesWhole
<1>2. CASE InsertProduct(d)
  <2>1. editor' \in [Editors -> EditorStates] /\ EditorInv'
    BY <1>0, <1>2 DEF InsertProduct, EditorInv
  <2>2. CASE products' = products
    BY <1>2, <2>1, <2>2 DEF InsertProduct, CatalogTypeOK, NamesWhole
  <2>3. CASE InsertRow(editor[d].photo, editor[d].tier, 0)
    <3>1. editor[d].photo \in PhotoIds \cup {NoPhoto}
      BY <1>0 DEF EditorStates
    <3>2. editor[d].tier \in Tiers
      BY <1>2 DEF InsertProduct, EditorInv
    <3>3. products' \in Seq(ProductRows) /\ Len(products') <= MaxProducts /\ NamesWhole'
      <4>1. 0 \in 0 .. MaxBundles /\ Len(products) < MaxProducts /\ bundles' = bundles
        BY <1>2 DEF InsertProduct
      <4> HIDE DEF CatalogInv
      <4> QED
        BY <2>3, <3>1, <3>2, <4>1, InsertKeeps
    <3> QED
      BY <1>2, <2>1, <3>3 DEF InsertProduct, CatalogTypeOK
  <2> QED
    BY <1>2, <2>2, <2>3 DEF InsertProduct
<1>3. CASE CreateBundle(d)
  <2>1. PICK k \in BundleKinds, t \in Tiers, w \in SUBSET PhotoIds :
          /\ bundles' = Append(bundles, [kind |-> k, wanted |-> w, items |-> {}, tier |-> t])
          /\ EditorBegins(d, "items", NoPhoto, t, Len(bundles) + 1)
    BY <1>3 DEF CreateBundle
  <2>2. [kind |-> k, wanted |-> w, items |-> {}, tier |-> t] \in BundleRows
    BY DEF BundleRows
  <2>3. /\ bundles' \in Seq(BundleRows) /\ Len(bundles') = Len(bundles) + 1
        /\ DOMAIN bundles' = DOMAIN bundles \cup {Len(bundles) + 1}
        /\ \A b \in DOMAIN bundles : bundles'[b] = bundles[b]
    BY <1>0, <2>1, <2>2, AppendIndices
  <2>4. [pc |-> "items", photo |-> NoPhoto, tier |-> t, bundle |-> Len(bundles) + 1] \in EditorStates
    BY <1>0, <1>3 DEF CreateBundle, EditorStates
  <2>5. editor' \in [Editors -> EditorStates] /\ EditorInv'
    BY <1>0, <2>1, <2>3, <2>4 DEF EditorBegins, EditorInv
  <2>6. NamesWhole'
    BY <1>3, <2>3 DEF CreateBundle, NamesWhole
  <2> QED
    BY <1>0, <1>3, <2>3, <2>5, <2>6 DEF CreateBundle, CatalogTypeOK
<1>4. CASE InsertBundleItem(d)
  <2> DEFINE b == editor[d].bundle
  <2>1. PICK p \in bundles[b].wanted \ bundles[b].items :
          bundles' = [bundles EXCEPT ![b].items = @ \cup {p}]
    BY <1>4 DEF InsertBundleItem
  <2>2. b \in DOMAIN bundles /\ bundles[b] \in BundleRows
    BY <1>0, <1>4, SeqIndices DEF InsertBundleItem, EditorInv
  <2>3. [bundles[b] EXCEPT !.items = @ \cup {p}] \in BundleRows
    BY <2>1, <2>2 DEF BundleRows
  <2>4. bundles' \in Seq(BundleRows) /\ Len(bundles') = Len(bundles) /\ DOMAIN bundles' = DOMAIN bundles
    BY <1>0, <2>1, <2>2, <2>3, ExceptIndices
  <2>5. \A c \in DOMAIN bundles : bundles[c].items = bundles[c].wanted => bundles'[c] = bundles[c]
    BY <1>0, <2>1, <2>2
  <2>6. NamesWhole'
    BY <1>4, <2>4, <2>5 DEF InsertBundleItem, NamesWhole
  <2> QED
    BY <1>4, <2>4, <2>6 DEF InsertBundleItem, CatalogTypeOK, EditorInv
<1>5. CASE InsertBundleProduct(d)
  <2>1. editor' \in [Editors -> EditorStates] /\ EditorInv'
    BY <1>0, <1>5 DEF InsertBundleProduct, EditorInv
  <2>2. editor[d].bundle \in DOMAIN bundles /\ editor[d].bundle \in 0 .. MaxBundles
    BY <1>0, <1>5 DEF InsertBundleProduct, EditorInv, EditorStates
  <2>3. editor[d].tier \in Tiers
    BY <1>5 DEF InsertBundleProduct, EditorInv
  <2>4. products' \in Seq(ProductRows) /\ Len(products') <= MaxProducts /\ NamesWhole'
    BY <1>5, <2>2, <2>3, InsertKeeps DEF InsertBundleProduct
  <2> QED
    BY <1>5, <2>1, <2>4 DEF InsertBundleProduct, CatalogTypeOK
<1>6. CASE EditorDies(d)
  BY <1>0, <1>6 DEF EditorDies, CatalogTypeOK, EditorInv, NamesWhole
<1> QED
  BY <1>1, <1>2, <1>3, <1>4, <1>5, <1>6

(* So do a changed or deactivated product and what happens to the photos. *)
LEMMA InvRest ==
  ASSUME CatalogInv, UpdateProduct \/ DeactivateProduct \/ SetReady
  PROVE  CatalogInv'
<1> USE DEF CatalogInv
<1>0. products \in Seq(ProductRows)
  BY DEF CatalogTypeOK
<1>1. ASSUME NEW i \in DOMAIN products, NEW entry \in ProductRows, entry.bundle = products[i].bundle,
             products' = [products EXCEPT ![i] = entry], UNCHANGED <<bundles, ready, editor>>
      PROVE  CatalogInv'
  <2>1. products' \in Seq(ProductRows) /\ Len(products') = Len(products) /\ DOMAIN products' = DOMAIN products
    BY <1>0, <1>1, ExceptIndices
  <2>2. \A j \in DOMAIN products : products'[j].bundle = products[j].bundle
    BY <1>0, <1>1
  <2> QED
    BY <1>1, <2>1, <2>2 DEF CatalogTypeOK, EditorInv, NamesWhole
<1>2. CASE UpdateProduct
  <2>1. PICK i \in DOMAIN products, t \in Tiers : products' = [products EXCEPT ![i].tier = t]
    BY <1>2 DEF UpdateProduct
  <2>2. products[i] \in ProductRows
    BY <1>0, SeqIndices
  <2>3. /\ [products[i] EXCEPT !.tier = t] \in ProductRows
        /\ [products[i] EXCEPT !.tier = t].bundle = products[i].bundle
    BY <2>2 DEF ProductRows
  <2>4. UNCHANGED <<bundles, ready, editor>>
    BY <1>2 DEF UpdateProduct
  <2> QED
    BY <1>1, <2>1, <2>3, <2>4
<1>3. CASE DeactivateProduct
  <2>1. PICK i \in DOMAIN products : products' = [products EXCEPT ![i].active = FALSE]
    BY <1>3 DEF DeactivateProduct
  <2>2. products[i] \in ProductRows
    BY <1>0, SeqIndices
  <2>3. /\ [products[i] EXCEPT !.active = FALSE] \in ProductRows
        /\ [products[i] EXCEPT !.active = FALSE].bundle = products[i].bundle
    BY <2>2 DEF ProductRows
  <2>4. UNCHANGED <<bundles, ready, editor>>
    BY <1>3 DEF DeactivateProduct
  <2> QED
    BY <1>1, <2>1, <2>3, <2>4
<1>4. CASE SetReady
  BY <1>4 DEF SetReady, CatalogTypeOK, EditorInv, NamesWhole
<1> QED
  BY <1>2, <1>3, <1>4

(* CatalogInv holds in every reachable state: types, the bundle a request   *)
(* is filling, and the bundles that products name (createBundle).           *)
THEOREM CatalogInductive == CatalogSpec => []CatalogInv
<1>1. CatalogInv /\ [CatalogNext]_catalogVars => CatalogInv'
  <2> SUFFICES ASSUME CatalogInv, [CatalogNext]_catalogVars PROVE CatalogInv'
    OBVIOUS
  <2>1. CASE CatalogNext
    BY <2>1, InvEditor, InvRest DEF CatalogNext
  <2>2. CASE UNCHANGED catalogVars
    BY <2>2 DEF catalogVars, CatalogInv, CatalogTypeOK, EditorInv, NamesWhole
  <2> QED
    BY <2>1, <2>2
<1> QED
  BY <1>1, CatalogInvInit, PTL DEF CatalogSpec

(* A custom bundle that can be bought holds every photo it was created with *)
(* (createBundle; findBundleProduct, resolveBundle).                        *)
THEOREM SoldWholeAlways == CatalogSpec => []SoldWhole
<1>1. CatalogInv => SoldWhole
  <2> SUFFICES ASSUME CatalogInv, NEW b \in DOMAIN bundles, ForSale(b)
               PROVE  bundles[b].items = bundles[b].wanted
    BY DEF SoldWhole
  <2>1. b # 0
    BY SeqIndices DEF CatalogInv, CatalogTypeOK
  <2> QED
    BY <2>1 DEF ForSale, BundleProducts, CatalogInv, NamesWhole
<1> QED
  BY <1>1, CatalogInductive, PTL

(***************************************************************************)
(* Connect: the account of a photographer at Stripe.                       *)
(***************************************************************************)
(* While Stripe has forgotten no key, an account it made is under the key.  *)
KeyHolds == ~expired => Len(accounts) <= 1 /\ (key = 0 => Len(accounts) = 0)

(* Unless events were overtaken, every event delivered was of the row's     *)
(* account, and the row says what the latest of them said.                  *)
Latest(i) == i \in arrived /\ \A j \in arrived : j <= i
LastWord ==
  ~overtaken =>
    /\ \A i \in arrived : reports[i].account = row.account
    /\ \A i \in arrived :
         Latest(i) => row.caps = reports[i].caps /\ row.status = DeriveStatus(row.caps)

ConnectInv == ConnectTypeOK /\ KeyHolds /\ LastWord

StartState == [pc : {"idle", "create", "store", "ensure"}, country : Countries,
               account : {0} \cup DOMAIN accounts]

(* An idle call is typed. *)
LEMMA IdleStart ==
  /\ NoStart \in StartState /\ Nothing \in Caps
  /\ NoStart.pc = "idle" /\ NoStart.country \in Countries /\ NoStart.account = 0
<1>1. NoStart.pc = "idle" /\ NoStart.country \in Countries /\ NoStart.account = 0
  BY ConnectAssumption DEF NoStart
<1>2. NoStart \in StartState
  BY ConnectAssumption DEF NoStart, StartState
<1> QED
  BY <1>1, <1>2 DEF Nothing, Caps

(* The status derived from two flags and a reason is one of three. *)
LEMMA Derived ==
  ASSUME NEW caps \in Caps
  PROVE  DeriveStatus(caps) \in {"pending_kyc", "active", "restricted"}
BY DEF DeriveStatus, Caps

(* The initial state satisfies the invariant. *)
LEMMA ConnectInvInit == ConnectInit => ConnectInv
<1> SUFFICES ASSUME ConnectInit PROVE ConnectInv
  OBVIOUS
<1>1. ConnectTypeOK
  <2>1. starts \in [Starts -> StartState]
    BY IdleStart DEF ConnectInit
  <2>2. row \in PayoutAccount /\ row.account = 0
    BY IdleStart DEF ConnectInit, PayoutAccount
  <2>3. DOMAIN accounts = {} /\ DOMAIN reports = {}
    BY DEF ConnectInit
  <2>4. accounts \in Seq(Countries) /\ reports \in Seq([account : Nat, caps : Caps])
    BY DEF ConnectInit
  <2> QED
    BY <2>1, <2>2, <2>3, <2>4 DEF ConnectInit, ConnectTypeOK, StartState
<1> QED
  BY <1>1 DEF ConnectInit, ConnectInv, KeyHolds, LastWord

(* Calls of startOnboarding keep it. *)
LEMMA InvStart ==
  ASSUME ConnectInv, NEW k \in Starts,
         \/ \E c \in Countries : StartOnboarding(k, c)
         \/ CreateAccount(k) \/ CreateUnanswered(k) \/ StoreAccount(k)
         \/ EnsurePhotographerAccount(k) \/ StartDies(k)
  PROVE  ConnectInv'
<1> USE IdleStart DEF ConnectInv, StartAt, StartGoes, StartEnds
<1>0. starts[k] \in StartState /\ starts[k].country \in Countries
  BY DEF ConnectTypeOK, StartState
<1>1. ASSUME NEW c \in Countries, StartOnboarding(k, c) PROVE ConnectInv'
  BY <1>1 DEF StartOnboarding, ConnectTypeOK, KeyHolds, LastWord, Latest
<1>2. ASSUME accounts' = Append(accounts, starts[k].country), key' = Len(accounts'), key = 0,
             \/ starts' = [starts EXCEPT ![k] = NoStart]
             \/ starts' = [starts EXCEPT ![k].pc = "store", ![k].account = Len(accounts')],
             UNCHANGED <<expired, reports, arrived, row, ledgered, overtaken>>
      PROVE  ConnectInv'
  <2>1. /\ accounts' \in Seq(Countries) /\ Len(accounts') = Len(accounts) + 1
        /\ DOMAIN accounts \subseteq DOMAIN accounts' /\ key' \in DOMAIN accounts'
    BY <1>0, <1>2 DEF ConnectTypeOK
  <2>2. starts' \in [Starts -> [pc : {"idle", "create", "store", "ensure"},
                                country : Countries, account : {0} \cup DOMAIN accounts']]
    <3>1. starts \in [Starts -> StartState'] /\ NoStart \in StartState'
          /\ starts[k] \in StartState'
      BY <1>0, <2>1 DEF ConnectTypeOK, StartState
    <3>2. [starts[k] EXCEPT !.pc = "store", !.account = Len(accounts')] \in StartState'
      BY <1>2, <2>1, <3>1 DEF StartState
    <3>3. starts' \in [Starts -> StartState']
      BY <1>2, <3>1, <3>2
    <3> QED
      BY <3>3 DEF StartState
  <2>3. ConnectTypeOK'
    BY <1>2, <2>1, <2>2 DEF ConnectTypeOK
  <2>4. KeyHolds'
    BY <1>2, <2>1 DEF KeyHolds, ConnectTypeOK
  <2>5. LastWord'
    BY <1>2 DEF LastWord, Latest
  <2> QED
    BY <2>3, <2>4, <2>5
<1>3. CASE CreateAccount(k)
  <2>1. CASE key = 0
    BY <1>3, <2>1, <1>2 DEF CreateAccount
  <2>2. CASE key # 0
    <3>1. /\ UNCHANGED <<accounts, key, expired, reports, arrived, row, ledgered, overtaken>>
          /\ \/ starts' = [starts EXCEPT ![k].pc = "store", ![k].account = key]
             \/ starts' = [starts EXCEPT ![k] = NoStart]
      BY <1>3, <2>2 DEF CreateAccount
    <3>2. ConnectTypeOK'
      <4>1. starts' \in [Starts -> StartState]
        <5>1. [starts[k] EXCEPT !.pc = "store", !.account = key] \in StartState
          BY <1>0, <2>2 DEF StartState, ConnectTypeOK
        <5>2. starts \in [Starts -> StartState]
          BY DEF ConnectTypeOK, StartState
        <5> QED
          BY <3>1, <5>1, <5>2
      <4> QED
        BY <3>1, <4>1 DEF ConnectTypeOK, StartState
    <3> QED
      BY <3>1, <3>2 DEF KeyHolds, LastWord, Latest
  <2> QED
    BY <2>1, <2>2
<1>4. CASE CreateUnanswered(k)
  BY <1>4, <1>2 DEF CreateUnanswered
<1>5. CASE StoreAccount(k)
  <2>1. starts[k].account \in {0} \cup DOMAIN accounts
    BY DEF ConnectTypeOK
  <2>2. row' \in PayoutAccount /\ row'.account \in {0} \cup DOMAIN accounts
    <3>1. CASE row' = row
      BY <3>1 DEF ConnectTypeOK
    <3>2. CASE row' = [account |-> starts[k].account, caps |-> Nothing, status |-> "pending_kyc"]
      BY <2>1, <3>2 DEF PayoutAccount, ConnectTypeOK
    <3> QED
      BY <1>5, <3>1, <3>2 DEF StoreAccount
  <2>3. ConnectTypeOK'
    <3>1. starts' \in [Starts -> StartState]
      <4>1. [starts[k] EXCEPT !.pc = "ensure"] \in StartState
        BY <1>0 DEF StartState
      <4>2. starts \in [Starts -> StartState]
        BY DEF ConnectTypeOK, StartState
      <4> QED
        BY <1>5, <4>1, <4>2 DEF StoreAccount
    <3> QED
      BY <1>5, <2>2, <3>1 DEF StoreAccount, ConnectTypeOK, StartState
  <2>4. overtaken \/ row.account # 0 \/ arrived = {}
    BY DEF LastWord, ConnectTypeOK
  <2>5. LastWord'
    BY <1>5, <2>4 DEF StoreAccount, LastWord, Latest
  <2> QED
    BY <1>5, <2>3, <2>5 DEF StoreAccount, KeyHolds
<1>6. CASE EnsurePhotographerAccount(k)
  BY <1>6 DEF EnsurePhotographerAccount, ConnectTypeOK, KeyHolds, LastWord, Latest, NoStart
<1>7. CASE StartDies(k)
  BY <1>7 DEF StartDies, ConnectTypeOK, KeyHolds, LastWord, Latest, NoStart
<1> QED
  BY <1>1, <1>3, <1>4, <1>5, <1>6, <1>7

(* So do Stripe, its events, and the other callers of ensurePhotographerAccount. *)
LEMMA InvStripe ==
  ASSUME ConnectInv,
         \/ EnsureElsewhere \/ KeyExpires
         \/ \E a \in DOMAIN accounts, caps \in Caps : Report(a, caps)
         \/ \E i \in DOMAIN reports : HandleAccountUpdated(i) \/ EventLost(i)
  PROVE  ConnectInv'
<1> USE DEF ConnectInv
<1>1. CASE EnsureElsewhere
  BY <1>1 DEF EnsureElsewhere, ConnectTypeOK, KeyHolds, LastWord, Latest
<1>2. CASE KeyExpires
  BY <1>2 DEF KeyExpires, ConnectTypeOK, KeyHolds, LastWord, Latest
<1>3. ASSUME NEW a \in DOMAIN accounts, NEW caps \in Caps, Report(a, caps) PROVE ConnectInv'
  <2>1. /\ reports' \in Seq([account : Nat, caps : Caps]) /\ DOMAIN reports \subseteq DOMAIN reports'
        /\ \A i \in DOMAIN reports : reports'[i] = reports[i]
        /\ \A i \in DOMAIN reports' : reports'[i].account \in DOMAIN accounts
    BY <1>3 DEF Report, ConnectTypeOK
  <2> QED
    BY <1>3, <2>1 DEF Report, ConnectTypeOK, KeyHolds, LastWord, Latest
<1>4. ASSUME NEW i \in DOMAIN reports, HandleAccountUpdated(i) PROVE ConnectInv'
  <2>0. reports[i] \in [account : Nat, caps : Caps] /\ DOMAIN reports \subseteq Nat
    <3>1. reports \in Seq([account : Nat, caps : Caps])
      BY DEF ConnectTypeOK
    <3>2. Len(reports) \in Nat /\ DOMAIN reports = 1 .. Len(reports)
      BY <3>1, SeqIndices
    <3>3. reports[i] \in [account : Nat, caps : Caps]
      BY <3>1, SeqIndices
    <3> QED
      BY <3>2, <3>3
  <2>1. reports[i].caps \in Caps /\ i \notin arrived /\ arrived \subseteq Nat /\ i \in Nat
    BY <1>4, <2>0 DEF HandleAccountUpdated, Undelivered, ConnectTypeOK
  <2>2. row' \in PayoutAccount /\ row'.account = row.account
    BY <1>4, <2>1, Derived DEF HandleAccountUpdated, PayoutAccount, ConnectTypeOK
  <2>3. ConnectTypeOK'
    BY <1>4, <2>2 DEF HandleAccountUpdated, ConnectTypeOK
  <2>4. ASSUME ~overtaken' PROVE LastWord'
    <3>1. /\ ~overtaken /\ InOrder(i) /\ row.account = reports[i].account
          /\ row'.caps = reports[i].caps /\ row'.status = DeriveStatus(row'.caps)
      BY <1>4, <2>1, <2>4 DEF HandleAccountUpdated, ConnectTypeOK, PayoutAccount
    <3>2. \A j \in arrived : j < i
      BY <3>1 DEF InOrder, LastWord
    <3>3. arrived' = arrived \cup {i} /\ reports' = reports
      BY <1>4 DEF HandleAccountUpdated
    <3>4. \A j \in arrived' : reports'[j].account = row'.account
      BY <2>2, <3>1, <3>3 DEF LastWord
    <3>5. \A j \in arrived' : Latest(j)' => j = i
      BY <2>1, <3>2, <3>3 DEF Latest
    <3> QED
      BY <3>1, <3>3, <3>4, <3>5 DEF LastWord
  <2> QED
    BY <1>4, <2>3, <2>4 DEF HandleAccountUpdated, KeyHolds, LastWord
<1>5. ASSUME NEW i \in DOMAIN reports, EventLost(i) PROVE ConnectInv'
  BY <1>5 DEF EventLost, ConnectTypeOK, KeyHolds, LastWord
<1> QED
  BY <1>1, <1>2, <1>3, <1>4, <1>5

(* ConnectInv holds in every reachable state: what a Stripe key holds, what *)
(* the delivered events say of the row.                                     *)
THEOREM ConnectInductive == ConnectSpec => []ConnectInv
<1>1. ConnectInv /\ [ConnectNext]_connectVars => ConnectInv'
  <2> SUFFICES ASSUME ConnectInv, [ConnectNext]_connectVars PROVE ConnectInv'
    OBVIOUS
  <2>1. CASE ConnectNext
    BY <2>1, InvStart, InvStripe DEF ConnectNext
  <2>2. CASE UNCHANGED connectVars
    BY <2>2 DEF connectVars, ConnectInv, ConnectTypeOK, KeyHolds, LastWord, Latest
  <2> QED
    BY <2>1, <2>2
<1> QED
  BY <1>1, ConnectInvInit, PTL DEF ConnectSpec

(* Onboardings that overlap, repeat and break off make one account while    *)
(* Stripe knows the key, the paid account is never replaced, and the row is *)
(* Stripe's last word when its events all came in order (startOnboarding,   *)
(* handleAccountUpdated).                                                   *)
THEOREM OnePayeeAlways == ConnectSpec => OnePayee
<1>1. ConnectInv => (expired \/ Len(accounts) <= 1)
  BY DEF ConnectInv, KeyHolds
<1>2. ConnectInv => (Undelivered = {} /\ ~overtaken /\ reports # <<>>
                       => row.caps = reports[Len(reports)].caps /\ row.status = DeriveStatus(row.caps))
  <2> SUFFICES ASSUME ConnectInv, Undelivered = {}, ~overtaken, reports # <<>>
               PROVE  row.caps = reports[Len(reports)].caps /\ row.status = DeriveStatus(row.caps)
    OBVIOUS
  <2>1. arrived = 1 .. Len(reports) /\ Len(reports) \in 1 .. Len(reports)
    <3>1. Len(reports) \in Nat /\ Len(reports) # 0 /\ DOMAIN reports = 1 .. Len(reports)
      BY SeqIndices DEF ConnectInv, ConnectTypeOK
    <3> QED
      <4>1. arrived = DOMAIN reports
        BY DEF ConnectInv, ConnectTypeOK, Undelivered
      <4> QED
        BY <3>1, <4>1
  <2> QED
    BY <2>1 DEF ConnectInv, LastWord, Latest
<1>3. ConnectInv /\ [ConnectNext]_connectVars => [PayeeStays]_connectVars
  BY DEF ConnectNext, PayeeStays, connectVars, ConnectInv, ConnectTypeOK, PayoutAccount,
         StartOnboarding, CreateAccount, CreateUnanswered, StoreAccount,
         EnsurePhotographerAccount, StartDies, EnsureElsewhere, KeyExpires, Report,
         HandleAccountUpdated, EventLost
<1> QED
  BY <1>1, <1>2, <1>3, ConnectInductive, PTL DEF ConnectSpec, OnePayee

(***************************************************************************)
(* Fulfillment: downloads and prints of an order.                          *)
(***************************************************************************)
GaveUp == \E j \in Jobs : jobs[j].pc = "failed"
Delivered == \E r \in DOMAIN rows : rows[r].status = "completed" \/ rows[r].photos = {}

(* What a job has established by the time it is at pc.  What it says of     *)
(* completed rows is so until a job of the order gives up.                  *)
JobKnows(j) ==
  /\ jobs[j].pc \in {"upload", "complete", "mail"} => jobs[j].row \in DOMAIN rows
  /\ jobs[j].pc = "complete" => jobs[j].row \in zips
  /\ ~GaveUp /\ jobs[j].pc = "mail" => rows[jobs[j].row].status = "completed"
  /\ ~GaveUp /\ jobs[j].pc \in {"mail", "audit"} => Delivered
  /\ ~GaveUp /\ content = "digital" /\ jobs[j].pc = "done" => Delivered

DigitalInv ==
  /\ jobs \in [Jobs -> Job] /\ rows \in Seq(Row) /\ zips \subseteq DOMAIN rows
  /\ \A j \in Jobs : JobKnows(j)
  /\ \A r \in DOMAIN rows :
       /\ rows[r].status = "completed" => r \in zips
       /\ ~GaveUp /\ rows[r].emailed => rows[r].status = "completed"

(* The lab is as far as a state says. *)
Reached(state) ==
  /\ state = "shipped" => lab.raw \in {"shipped", "delivered"}
  /\ state = "delivered" => lab.raw = "delivered"
  /\ state = "cancelled" => lab.raw = "canceled"

(* What the row, an answer read by the poll and a webhook on its way say of  *)
(* the lab is so, the lab has one order, and a row that may be submitted has *)
(* an attempt left.                                                          *)
PrintInv ==
  /\ print \in PrintRow /\ lab \in [orders : SUBSET {0}, raw : RawStates]
  /\ submit \in [pc : {"idle", "lab", "store"}, attempts : 0 .. MaxSubmits,
                 answer : {"none", "ok", "retryable", "terminal"}]
  /\ poll \in RawStates \cup {"idle"}
  /\ hooks \in [RawStates -> [copies : 0 .. MaxCopies, pc : {"none", "stored", "applied", "lost"}]]
  /\ Reached(print.state) /\ (poll # "idle" => Reached(MapState(poll)))
  /\ \A raw \in RawStates :
       hooks[raw].copies > 0 \/ hooks[raw].pc = "stored" => Reached(MapState(raw))
  /\ print.state = "pending" /\ ~print.manual => print.attempts < MaxSubmits
  /\ submit.pc # "idle" => submit.attempts < MaxSubmits

FulfilInv == content \in Contents /\ faults \in 0 .. MaxFaults /\ DigitalInv /\ PrintInv

(* The raw states of a lab are five words. *)
LEMMA RawWords ==
  /\ RawStates = {"received", "in_production", "shipped", "delivered", "canceled"}
  /\ \A i \in 2 .. Len(Raw) :
       \/ Raw[i - 1] = "received" /\ Raw[i] = "in_production"
       \/ Raw[i - 1] = "in_production" /\ Raw[i] = "shipped"
       \/ Raw[i - 1] = "shipped" /\ Raw[i] = "delivered"
<1>1. /\ Len(Raw) = 4 /\ DOMAIN Raw = 1 .. 4
      /\ Raw[1] = "received" /\ Raw[2] = "in_production" /\ Raw[3] = "shipped" /\ Raw[4] = "delivered"
  BY DEF Raw
<1>2. Range(Raw) = {"received", "in_production", "shipped", "delivered"}
  BY <1>1 DEF Range
<1>3. \A i \in 2 .. Len(Raw) : i = 2 \/ i = 3 \/ i = 4
  BY <1>1
<1> QED
  BY <1>1, <1>2, <1>3 DEF RawStates

(* What the poll writes is a state of the row. *)
LEMMA Mapped ==
  ASSUME NEW raw \in RawStates
  PROVE  MapState(raw) \in {"submitted", "in_production"} \cup Settled
BY RawWords DEF MapState, Settled

(* The initial state satisfies the invariant. *)
LEMMA FulfilInvInit == FulfilInit => FulfilInv
<1> SUFFICES ASSUME FulfilInit PROVE FulfilInv
  OBVIOUS
<1> USE FulfillmentAssumption
<1>1. /\ jobs \in [Jobs -> Job] /\ rows \in Seq(Row) /\ DOMAIN rows = {} /\ zips = {}
  BY DEF FulfilInit, Job, Final
<1>2. \A j \in Jobs : jobs[j].pc = IF content = "digital" THEN "check" ELSE "done"
  BY DEF FulfilInit
<1>3. DigitalInv
  BY <1>1, <1>2 DEF DigitalInv, JobKnows
<1>4. print \in PrintRow /\ print.state = "none"
  BY DEF FulfilInit, NoPrint, PrintRow
<1>5. /\ lab \in [orders : SUBSET {0}, raw : RawStates] /\ poll = "idle"
      /\ submit \in [pc : {"idle", "lab", "store"}, attempts : 0 .. MaxSubmits,
                     answer : {"none", "ok", "retryable", "terminal"}]
      /\ submit.pc = "idle"
  BY RawWords DEF FulfilInit
<1>6. /\ hooks \in [RawStates -> [copies : 0 .. MaxCopies, pc : {"none", "stored", "applied", "lost"}]]
      /\ \A raw \in RawStates : hooks[raw].copies = 0 /\ hooks[raw].pc = "none"
  BY DEF FulfilInit
<1>7. PrintInv
  BY <1>4, <1>5, <1>6 DEF PrintInv, Reached
<1> QED
  BY <1>3, <1>7 DEF FulfilInv, FulfilInit

(* A job that moves and touches no row keeps DigitalInv when what it claims  *)
(* to know is so.                                                            *)
LEMMA JobMoves ==
  ASSUME DigitalInv, NEW j \in Jobs, NEW x \in Job, jobs' = [jobs EXCEPT ![j] = x],
         UNCHANGED <<content, rows>>, zips \subseteq zips', zips' \subseteq DOMAIN rows,
         x.pc \in {"upload", "complete", "mail"} => x.row \in DOMAIN rows,
         x.pc = "complete" => x.row \in zips',
         ~GaveUp /\ x.pc = "mail" => rows[x.row].status = "completed",
         ~GaveUp /\ x.pc \in {"mail", "audit"} => Delivered,
         ~GaveUp /\ content = "digital" /\ x.pc = "done" => Delivered,
         jobs[j].pc # "failed"
  PROVE  DigitalInv'
<1>1. jobs' \in [Jobs -> Job] /\ jobs'[j] = x /\ \A k \in Jobs \ {j} : jobs'[k] = jobs[k]
  BY DEF DigitalInv
<1>2. ~GaveUp' => ~GaveUp
  BY <1>1 DEF GaveUp
<1>3. Delivered' = Delivered
  BY DEF Delivered
<1>4. \A k \in Jobs : JobKnows(k)'
  <2>1. JobKnows(j)'
    BY <1>1, <1>2, <1>3 DEF JobKnows
  <2>2. \A k \in Jobs \ {j} : JobKnows(k)'
    BY <1>1, <1>2, <1>3 DEF JobKnows, DigitalInv
  <2> QED
    BY <2>1, <2>2
<1> QED
  BY <1>1, <1>2, <1>4 DEF DigitalInv

(* The job's steps that write no row keep DigitalInv. *)
LEMMA InvJob ==
  ASSUME DigitalInv, NEW j \in Jobs,
         \/ FindExistingCompleted(j) \/ LoadOrder(j) \/ BuildAndUploadBundle(j) \/ WriteAudit(j)
         \/ Throw(j) \/ JobDies(j)
  PROVE  DigitalInv'
<1>0. jobs \in [Jobs -> Job] /\ jobs[j] \in Job /\ JobKnows(j) /\ zips \subseteq DOMAIN rows
  BY DEF DigitalInv
<1>1. ASSUME NEW to \in {"check", "load", "insert", "done", "complete"},
             jobs' = [jobs EXCEPT ![j].pc = to], jobs[j].pc # "failed",
             UNCHANGED <<content, rows>>, zips \subseteq zips', zips' \subseteq DOMAIN rows,
             to = "complete" => jobs[j].row \in zips',
             to = "done" /\ ~GaveUp /\ content = "digital" => Delivered
      PROVE  DigitalInv'
  <2> DEFINE x == [jobs[j] EXCEPT !.pc = to]
  <2>1. x \in Job /\ x.pc = to /\ x.row = jobs[j].row
    BY <1>0 DEF Job, Final
  <2>2. jobs' = [jobs EXCEPT ![j] = x]
    BY <1>0, <1>1
  <2> HIDE DEF x
  <2> QED
    BY <1>1, <2>1, <2>2, JobMoves
<1>2. CASE FindExistingCompleted(j)
  <2>1. PICK to \in {"load", "done"} :
          /\ jobs[j].pc = "check" /\ jobs' = [jobs EXCEPT ![j].pc = to]
          /\ to = "done" => Delivered
    BY <1>2 DEF FindExistingCompleted, Step, Delivered
  <2> QED
    BY <1>0, <1>1, <1>2, <2>1 DEF FindExistingCompleted
<1>3. CASE LoadOrder(j)
  <2>1. PICK found \in SUBSET Photos : jobs' = [jobs EXCEPT ![j].pc = "insert", ![j].found = found]
    BY <1>3 DEF LoadOrder
  <2> DEFINE x == [jobs[j] EXCEPT !.pc = "insert", !.found = found]
  <2>2. x \in Job /\ x.pc = "insert"
    BY <1>0 DEF Job, Final
  <2>3. jobs' = [jobs EXCEPT ![j] = x]
    BY <1>0, <2>1
  <2> HIDE DEF x
  <2>4. jobs[j].pc = "load" /\ UNCHANGED <<content, rows, zips>>
    BY <1>3 DEF LoadOrder
  <2> QED
    BY <1>0, <2>2, <2>3, <2>4, JobMoves
<1>4. CASE BuildAndUploadBundle(j)
  <2>1. /\ jobs[j].pc = "upload" /\ jobs' = [jobs EXCEPT ![j].pc = "complete"]
        /\ zips' = zips \cup {jobs[j].row} /\ UNCHANGED <<content, rows>>
    BY <1>4 DEF BuildAndUploadBundle, Step
  <2>2. jobs[j].row \in DOMAIN rows
    BY <1>0, <2>1 DEF JobKnows
  <2> QED
    BY <1>0, <1>1, <2>1, <2>2
<1>5. CASE WriteAudit(j)
  <2>1. /\ jobs[j].pc = "audit" /\ jobs' = [jobs EXCEPT ![j].pc = "done"]
        /\ UNCHANGED <<content, rows, zips>>
    BY <1>5 DEF WriteAudit, Step
  <2>2. ~GaveUp => Delivered
    BY <1>0, <2>1 DEF JobKnows
  <2> QED
    BY <1>0, <1>1, <2>1, <2>2
<1>6. CASE Throw(j)
  <2>1. UNCHANGED <<content, rows, zips>> /\ jobs[j].pc # "failed"
    BY <1>6 DEF Throw
  <2>2. CASE jobs[j].attempt < JobAttempts
    <3> DEFINE x == [jobs[j] EXCEPT !.pc = "check", !.attempt = @ + 1]
    <3>1. jobs' = [jobs EXCEPT ![j] = x]
      BY <1>6, <2>2 DEF Throw, Retried
    <3>2. x \in Job /\ x.pc = "check"
      <4>1. jobs[j].attempt \in 1 .. JobAttempts
        BY <1>0 DEF Job
      <4>2. jobs[j].attempt + 1 \in 1 .. JobAttempts
        BY <2>2, <4>1, FulfillmentAssumption
      <4> QED
        BY <1>0, <4>2 DEF Job
    <3> HIDE DEF x
    <3> QED
      BY <1>0, <2>1, <3>1, <3>2, JobMoves
  <2>3. CASE ~(jobs[j].attempt < JobAttempts)
    <3> DEFINE x == [jobs[j] EXCEPT !.pc = "giveup"]
    <3>1. jobs' = [jobs EXCEPT ![j] = x]
      BY <1>6, <2>3 DEF Throw, Retried
    <3>2. x \in Job /\ x.pc = "giveup"
      BY <1>0 DEF Job, Final
    <3> HIDE DEF x
    <3> QED
      BY <1>0, <2>1, <3>1, <3>2, JobMoves
  <2> QED
    BY <2>2, <2>3
<1>7. CASE JobDies(j)
  <2>1. /\ jobs' = [jobs EXCEPT ![j].pc = "check"] /\ UNCHANGED <<content, rows, zips>>
        /\ jobs[j].pc # "failed"
    BY <1>7 DEF JobDies, Final
  <2> QED
    BY <1>0, <1>1, <2>1
<1> QED
  BY <1>2, <1>3, <1>4, <1>5, <1>6, <1>7

(* So do the steps that insert or write a row of the job, *)
LEMMA InvRow ==
  ASSUME DigitalInv, NEW j \in Jobs, InsertFulfillment(j) \/ MarkCompleted(j) \/ SendEmail(j)
  PROVE  DigitalInv'
<1>0. /\ jobs \in [Jobs -> Job] /\ jobs[j] \in Job /\ JobKnows(j)
      /\ rows \in Seq(Row) /\ zips \subseteq DOMAIN rows
  BY DEF DigitalInv
<1>1. ASSUME NEW x \in Job, jobs' = [jobs EXCEPT ![j] = x], rows' \in Seq(Row),
             content' = content, zips' = zips, DOMAIN rows \subseteq DOMAIN rows', jobs[j].pc # "failed",
             \A r \in DOMAIN rows : /\ rows[r].status = "completed" => rows'[r].status = "completed"
                                    /\ rows[r].photos = rows'[r].photos,
             \A r \in DOMAIN rows' :
               /\ rows'[r].status = "completed" => r \in zips
               /\ ~GaveUp /\ rows'[r].emailed => rows'[r].status = "completed",
             x.pc \in {"upload", "mail", "audit"},
             x.pc # "audit" => x.row \in DOMAIN rows',
             x.pc = "mail" => rows'[x.row].status = "completed",
             x.pc = "audit" /\ ~GaveUp => Delivered'
      PROVE  DigitalInv'
  <2>1. jobs' \in [Jobs -> Job] /\ jobs'[j] = x /\ \A k \in Jobs \ {j} : jobs'[k] = jobs[k]
    BY <1>0, <1>1
  <2>2. ~GaveUp' => ~GaveUp
    BY <1>1, <2>1 DEF GaveUp
  <2>3. Delivered => Delivered'
    BY <1>1 DEF Delivered
  <2>4. JobKnows(j)'
    BY <1>1, <2>1, <2>2 DEF JobKnows, Delivered
  <2>5. \A k \in Jobs \ {j} : JobKnows(k)'
    <3> SUFFICES ASSUME NEW k \in Jobs \ {j} PROVE JobKnows(k)'
      OBVIOUS
    <3>1. JobKnows(k) /\ jobs'[k] = jobs[k]
      BY <2>1 DEF DigitalInv
    <3> QED
      BY <1>1, <2>2, <2>3, <3>1 DEF JobKnows
  <2> QED
    BY <1>0, <1>1, <2>1, <2>2, <2>4, <2>5 DEF DigitalInv
<1>2. CASE InsertFulfillment(j)
  <2> DEFINE found == jobs[j].found
             entry == [status |-> IF found = {} THEN "failed" ELSE "in_progress",
                     photos |-> found, emailed |-> FALSE]
             pc == IF found = {} THEN "audit" ELSE "upload"
             x == [jobs[j] EXCEPT !.pc = pc, !.row = Len(rows) + 1]
  <2>1. /\ rows' = Append(rows, entry) /\ UNCHANGED <<content, zips>> /\ jobs[j].pc = "insert"
        /\ jobs' = [jobs EXCEPT ![j] = x]
    BY <1>0, <1>2 DEF InsertFulfillment
  <2>2. entry \in Row /\ entry.photos = found /\ ~entry.emailed /\ entry.status # "completed"
    BY <1>0 DEF Row, Job
  <2>3. /\ x \in Job /\ x.row = Len(rows) + 1
        /\ \/ x.pc = "upload"
           \/ x.pc = "audit" /\ found = {}
    <3>1. pc \in {"upload", "audit"} /\ (pc = "audit" => found = {}) /\ Len(rows) + 1 \in Nat
      BY <1>0, SeqIndices
    <3> HIDE DEF pc, found
    <3> QED
      BY <1>0, <3>1 DEF Job, Final
  <2> HIDE DEF entry, x
  <2>4. /\ rows' \in Seq(Row) /\ DOMAIN rows' = DOMAIN rows \cup {Len(rows) + 1}
        /\ \A r \in DOMAIN rows : rows'[r] = rows[r]
        /\ rows'[Len(rows) + 1] = entry
    BY <1>0, <2>1, <2>2, AppendIndices
  <2>5. \A r \in DOMAIN rows' :
          /\ rows'[r].status = "completed" => r \in zips
          /\ ~GaveUp /\ rows'[r].emailed => rows'[r].status = "completed"
    BY <2>2, <2>4 DEF DigitalInv
  <2>6. x.pc = "audit" => Delivered'
    BY <2>2, <2>3, <2>4 DEF Delivered
  <2> QED
    BY <1>1, <2>1, <2>3, <2>4, <2>5, <2>6
<1>3. ASSUME NEW entry \in Row, rows' = [rows EXCEPT ![jobs[j].row] = entry],
             NEW to \in {"mail", "audit"}, jobs' = [jobs EXCEPT ![j].pc = to],
             UNCHANGED <<content, zips>>, jobs[j].pc \in {"complete", "mail"},
             entry.photos = rows[jobs[j].row].photos,
             jobs[j].pc = "mail" => entry.status = rows[jobs[j].row].status,
             jobs[j].pc = "complete" => /\ entry.status = "completed" /\ to = "mail"
                                        /\ entry.emailed = rows[jobs[j].row].emailed,
             jobs[j].pc = "mail" => to = "audit"
      PROVE  DigitalInv'
  <2> DEFINE i == jobs[j].row   x == [jobs[j] EXCEPT !.pc = to]
  <2>1. i \in DOMAIN rows
    BY <1>0, <1>3 DEF JobKnows
  <2>2. x \in Job /\ x.pc = to /\ x.row = i /\ jobs' = [jobs EXCEPT ![j] = x]
    BY <1>0, <1>3 DEF Job, Final
  <2> HIDE DEF x
  <2>3. /\ rows' \in Seq(Row) /\ DOMAIN rows' = DOMAIN rows /\ rows'[i] = entry
        /\ \A r \in DOMAIN rows \ {i} : rows'[r] = rows[r]
    BY <1>0, <1>3, <2>1, ExceptIndices
  <2> HIDE DEF i
  <2>4. /\ jobs[j].pc = "complete" => i \in zips
        /\ jobs[j].pc = "mail" /\ ~GaveUp => rows[i].status = "completed" /\ Delivered
        /\ rows[i].status = "completed" => i \in zips
    BY <1>0, <2>1 DEF JobKnows, DigitalInv, i
  <2>5. \A r \in DOMAIN rows : /\ rows[r].status = "completed" => rows'[r].status = "completed"
                               /\ rows[r].photos = rows'[r].photos
    BY <1>3, <2>3 DEF i
  <2>6. \A r \in DOMAIN rows' :
          /\ rows'[r].status = "completed" => r \in zips
          /\ ~GaveUp /\ rows'[r].emailed => rows'[r].status = "completed"
    BY <1>3, <2>1, <2>3, <2>4 DEF DigitalInv, i
  <2>7. Delivered => Delivered'
    BY <2>3, <2>5 DEF Delivered
  <2> QED
    BY <1>1, <1>3, <2>1, <2>2, <2>3, <2>4, <2>5, <2>6, <2>7 DEF i
<1>4. CASE MarkCompleted(j)
  <2> DEFINE i == jobs[j].row   entry == [rows[i] EXCEPT !.status = "completed"]
  <2>1. /\ jobs[j].pc = "complete" /\ jobs' = [jobs EXCEPT ![j].pc = "mail"]
        /\ rows' = [rows EXCEPT ![i].status = "completed"] /\ UNCHANGED <<content, zips>>
    BY <1>4 DEF MarkCompleted, Step
  <2>2. i \in DOMAIN rows /\ rows[i] \in Row
    BY <1>0, <2>1, SeqIndices DEF JobKnows
  <2>3. /\ entry \in Row /\ entry.status = "completed" /\ entry.photos = rows[i].photos
        /\ entry.emailed = rows[i].emailed /\ rows' = [rows EXCEPT ![i] = entry]
    BY <2>1, <2>2 DEF Row
  <2> HIDE DEF entry
  <2> QED
    BY <1>3, <2>1, <2>3
<1>5. CASE SendEmail(j)
  <2> DEFINE i == jobs[j].row
  <2>1. /\ jobs[j].pc = "mail" /\ jobs' = [jobs EXCEPT ![j].pc = "audit"]
        /\ UNCHANGED <<content, zips>>
    BY <1>5 DEF SendEmail, Step
  <2>2. PICK sent \in BOOLEAN : rows' = [rows EXCEPT ![i].emailed = sent]
    BY <1>5 DEF SendEmail
  <2> DEFINE entry == [rows[i] EXCEPT !.emailed = sent]
  <2>3. i \in DOMAIN rows /\ rows[i] \in Row
    BY <1>0, <2>1, SeqIndices DEF JobKnows
  <2>4. /\ entry \in Row /\ entry.status = rows[i].status /\ entry.photos = rows[i].photos
        /\ rows' = [rows EXCEPT ![i] = entry]
    BY <2>2, <2>3 DEF Row
  <2> HIDE DEF entry
  <2> QED
    BY <1>3, <2>1, <2>4
<1> QED
  BY <1>2, <1>4, <1>5

(* and the last attempt, which may mark rows only when it ends the job. *)
LEMMA InvGiveUp ==
  ASSUME DigitalInv, NEW j \in Jobs, GiveUp(j)
  PROVE  DigitalInv'
<1>0. jobs \in [Jobs -> Job] /\ jobs[j] \in Job /\ rows \in Seq(Row)
  BY DEF DigitalInv
<1>1. jobs' = [jobs EXCEPT ![j].pc = "failed"] /\ UNCHANGED <<content, zips>>
  BY DEF GiveUp, Step
<1>2. jobs' \in [Jobs -> Job] /\ GaveUp'
  BY <1>0, <1>1 DEF Job, Final, GaveUp
<1>3. \A k \in Jobs : jobs'[k].pc \in {"upload", "complete", "mail"}
                        => k # j /\ jobs'[k] = jobs[k]
  BY <1>0, <1>1
<1>4. rows' \in Seq(Row) /\ DOMAIN rows' = DOMAIN rows
      /\ \A r \in DOMAIN rows' : rows'[r].status = "completed" => rows[r].status = "completed"
  <2>1. CASE rows' = rows
    BY <1>0, <2>1
  <2>2. CASE rows' = [r \in DOMAIN rows |-> [rows[r] EXCEPT !.status = "failed"]]
    <3>1. Len(rows) \in Nat /\ DOMAIN rows = 1 .. Len(rows) /\ \A r \in DOMAIN rows : rows[r] \in Row
      BY <1>0, SeqIndices
    <3>2. \A r \in DOMAIN rows : [rows[r] EXCEPT !.status = "failed"] \in Row
      BY <3>1 DEF Row
    <3>3. \A r \in DOMAIN rows : [rows[r] EXCEPT !.status = "failed"].status = "failed"
      BY <3>1 DEF Row
    <3> QED
      <4>1. rows' = [r \in 1 .. Len(rows) |-> [rows[r] EXCEPT !.status = "failed"]]
        BY <2>2, <3>1
      <4>2. rows' \in Seq(Row) /\ DOMAIN rows' = DOMAIN rows
        BY <3>1, <3>2, <4>1
      <4>3. \A r \in DOMAIN rows : rows'[r].status = "failed"
        BY <2>2, <3>3
      <4> QED
        BY <4>2, <4>3
  <2> QED
    BY <2>1, <2>2 DEF GiveUp
<1>5. \A k \in Jobs : JobKnows(k)'
  BY <1>1, <1>2, <1>3, <1>4 DEF DigitalInv, JobKnows
<1> QED
  BY <1>1, <1>2, <1>4, <1>5 DEF DigitalInv

(* The submission sweep and the row's own steps keep PrintInv. *)
LEMMA InvSubmit ==
  ASSUME PrintInv,
         \/ CreatePrintLabOrder \/ RequestPoll \/ Reconfigure \/ SelectPending \/ FlagManual \/ SubmitToLab
         \/ StoreSubmission \/ StoreThrows \/ SubmissionDies
  PROVE  PrintInv'
<1> USE FulfillmentAssumption
<1>0. /\ print \in PrintRow /\ lab \in [orders : SUBSET {0}, raw : RawStates]
      /\ submit \in [pc : {"idle", "lab", "store"}, attempts : 0 .. MaxSubmits,
                     answer : {"none", "ok", "retryable", "terminal"}]
      /\ print.state = "pending" /\ ~print.manual => print.attempts < MaxSubmits
      /\ submit.pc # "idle" => submit.attempts < MaxSubmits
  BY DEF PrintInv
<1>1. ASSUME print' \in PrintRow, Reached(print.state) => Reached(print'.state),
             print'.state = "pending" /\ ~print'.manual => print'.attempts < MaxSubmits,
             UNCHANGED <<lab, submit, poll, hooks>>
      PROVE  PrintInv'
  BY <1>1 DEF PrintInv, Reached
<1>2. ASSUME submit' \in [pc : {"idle", "lab", "store"}, attempts : 0 .. MaxSubmits,
                          answer : {"none", "ok", "retryable", "terminal"}],
             submit'.pc # "idle" => submit'.attempts < MaxSubmits,
             print' \in PrintRow, Reached(print.state) => Reached(print'.state),
             print'.state = "pending" /\ ~print'.manual => print'.attempts < MaxSubmits,
             UNCHANGED <<lab, poll, hooks>>
      PROVE  PrintInv'
  BY <1>2 DEF PrintInv, Reached
<1>3. CASE CreatePrintLabOrder
  <2>1. print' = [state |-> "pending", known |-> FALSE, manual |-> FALSE, attempts |-> 0, due |-> TRUE]
    BY <1>3 DEF CreatePrintLabOrder, NoPrint
  <2>2. 0 \in 0 .. MaxSubmits /\ 0 < MaxSubmits
    OBVIOUS
  <2>3. print' \in PrintRow /\ print'.state = "pending" /\ print'.attempts = 0
    BY <2>1, <2>2 DEF PrintRow
  <2> QED
    BY <1>1, <1>3, <2>2, <2>3 DEF CreatePrintLabOrder, Reached
<1>4. CASE RequestPoll
  BY <1>0, <1>1, <1>4 DEF RequestPoll, PrintRow
<1>5. CASE SelectPending
  BY <1>0, <1>2, <1>5 DEF SelectPending, PrintRow
<1>6. CASE FlagManual
  BY <1>0, <1>2, <1>6 DEF FlagManual, PrintRow
<1>7. CASE SubmitToLab
  <2>1. PICK taken \in BOOLEAN, answer \in {"ok", "retryable", "terminal"} :
          /\ lab' = IF taken THEN [lab EXCEPT !.orders = @ \cup {IdempotencyKey(print)}] ELSE lab
          /\ submit' = [submit EXCEPT !.pc = "store", !.answer = answer]
    BY <1>7 DEF SubmitToLab
  <2>2. lab' \in [orders : SUBSET {0}, raw : RawStates] /\ lab'.raw = lab.raw
    BY <1>0, <2>1 DEF IdempotencyKey
  <2>3. /\ submit' \in [pc : {"idle", "lab", "store"}, attempts : 0 .. MaxSubmits,
                        answer : {"none", "ok", "retryable", "terminal"}]
        /\ submit'.attempts < MaxSubmits
    BY <1>0, <1>7, <2>1 DEF SubmitToLab
  <2>4. UNCHANGED <<print, poll, hooks>>
    BY <1>7 DEF SubmitToLab
  <2> QED
    BY <2>2, <2>3, <2>4 DEF PrintInv, Reached
<1>8. CASE StoreSubmission
  <2> DEFINE attempts == submit.attempts + 1
             again == submit.answer = "retryable" /\ attempts < MaxSubmits
  <2>1. attempts \in 1 .. MaxSubmits /\ submit' = [submit EXCEPT !.pc = "idle"]
        /\ UNCHANGED <<lab, poll, hooks>>
    BY <1>0, <1>8 DEF StoreSubmission
  <2>0. attempts \in 0 .. MaxSubmits /\ (again => attempts < MaxSubmits)
    BY <2>1
  <2>2. CASE submit.answer = "ok"
    <3>1. print' = [print EXCEPT !.known = TRUE, !.state = "submitted", !.due = TRUE]
      BY <1>8, <2>2 DEF StoreSubmission
    <3> QED
      BY <1>0, <1>2, <2>1, <3>1 DEF PrintRow, Reached
  <2>3. CASE submit.answer # "ok" /\ again
    <3>1. print' = [print EXCEPT !.attempts = attempts, !.due = FALSE]
      BY <1>8, <2>3 DEF StoreSubmission
    <3>2. print' \in PrintRow /\ print'.state = print.state /\ print'.attempts < MaxSubmits
      <4> HIDE DEF attempts
      <4> QED
        BY <1>0, <2>0, <2>3, <3>1 DEF PrintRow
    <3> QED
      BY <1>0, <1>2, <2>1, <3>2
  <2>4. CASE submit.answer # "ok" /\ ~again
    <3>1. PICK state \in {print.state, "failed"} :
            print' = [print EXCEPT !.attempts = attempts, !.manual = TRUE, !.state = state]
      BY <1>0, <1>8, <2>4 DEF StoreSubmission, PrintRow
    <3>2. state \in {"none", "pending", "submitted", "in_production"} \cup Settled
      BY <1>0 DEF PrintRow, Settled
    <3>3. print' \in PrintRow /\ print'.state = state /\ print'.manual
      <4> HIDE DEF attempts
      <4> QED
        BY <1>0, <2>0, <3>1, <3>2 DEF PrintRow
    <3> QED
      BY <1>0, <1>2, <2>1, <3>3 DEF Reached
  <2> QED
    BY <2>2, <2>3, <2>4
<1>9. CASE StoreThrows
  BY <1>0, <1>2, <1>9 DEF StoreThrows
<1>10. CASE SubmissionDies
  BY <1>0, <1>2, <1>10 DEF SubmissionDies
<1>11. CASE Reconfigure
  BY <1>11 DEF Reconfigure, printVars, PrintInv, Reached
<1> QED
  BY <1>3, <1>4, <1>5, <1>6, <1>7, <1>8, <1>9, <1>10, <1>11

(* So do the lab, the poll and the webhooks: a state once reached is never   *)
(* taken back, and only a state reached is reported.                         *)
LEMMA InvReports ==
  ASSUME PrintInv,
         \/ LabAdvances \/ ReadStatus \/ StoreStatus \/ PollDies
         \/ \E raw \in RawStates : ReceiveWebhook(raw) \/ ApplyWebhook(raw) \/ WebhookDies(raw)
  PROVE  PrintInv'
<1> USE FulfillmentAssumption
<1>0. /\ print \in PrintRow /\ lab \in [orders : SUBSET {0}, raw : RawStates]
      /\ hooks \in [RawStates -> [copies : 0 .. MaxCopies, pc : {"none", "stored", "applied", "lost"}]]
      /\ \A raw \in RawStates : /\ hooks[raw].copies \in 0 .. MaxCopies
                                /\ hooks[raw] \in [copies : 0 .. MaxCopies,
                                                   pc : {"none", "stored", "applied", "lost"}]
      /\ print.state = "pending" /\ ~print.manual => print.attempts < MaxSubmits
  BY DEF PrintInv
<1>1. CASE LabAdvances
  <2>1. PICK next \in RawStates :
          /\ \/ \E i \in 2 .. Len(Raw) : lab.raw = Raw[i - 1] /\ next = Raw[i]
             \/ lab.raw \in {"received", "in_production"} /\ next = "canceled"
          /\ lab' = [lab EXCEPT !.raw = next]
          /\ hooks' = [hooks EXCEPT ![next].copies = MaxCopies]
    BY <1>1 DEF LabAdvances
  <2>2. /\ lab.raw \notin {"delivered", "canceled"}
        /\ lab.raw = "shipped" => next = "delivered"
    BY <2>1, RawWords
  <2>3. lab' \in [orders : SUBSET {0}, raw : RawStates] /\ lab'.raw = next
    BY <1>0, <2>1
  <2>4. \A state : Reached(state) => Reached(state)'
    BY <2>2, <2>3 DEF Reached
  <2>5. Reached(MapState(next))'
    BY <2>3, RawWords DEF Reached, MapState
  <2>6. /\ hooks' \in [RawStates -> [copies : 0 .. MaxCopies, pc : {"none", "stored", "applied", "lost"}]]
        /\ \A raw \in RawStates \ {next} : hooks'[raw] = hooks[raw]
    <3>1. MaxCopies \in 0 .. MaxCopies
      OBVIOUS
    <3>2. [hooks[next] EXCEPT !.copies = MaxCopies]
            \in [copies : 0 .. MaxCopies, pc : {"none", "stored", "applied", "lost"}]
      BY <1>0, <3>1
    <3> QED
      BY <1>0, <2>1, <3>2
  <2>7. UNCHANGED <<print, submit, poll>>
    BY <1>1 DEF LabAdvances
  <2>8. \A raw \in RawStates : hooks'[raw].copies > 0 \/ hooks'[raw].pc = "stored" => Reached(MapState(raw))'
    BY <2>4, <2>5, <2>6 DEF PrintInv
  <2>9. Reached(print.state)' /\ (poll' # "idle" => Reached(MapState(poll))')
    BY <2>3, <2>2, <2>7 DEF PrintInv, Reached
  <2> QED
    BY <2>3, <2>6, <2>7, <2>8, <2>9 DEF PrintInv
<1>2. CASE ReadStatus
  <2>1. poll' = lab.raw /\ UNCHANGED <<print, lab, submit, hooks>> /\ lab.raw \in RawStates
    BY <1>0, <1>2 DEF ReadStatus
  <2>2. Reached(MapState(lab.raw))
    BY <2>1, RawWords DEF Reached, MapState
  <2> QED
    BY <2>1, <2>2 DEF PrintInv, Reached
<1>3. CASE StoreStatus
  <2>1. /\ poll # "idle" /\ poll' = "idle" /\ UNCHANGED <<lab, submit, hooks>>
        /\ print' = [print EXCEPT !.state = MapState(poll), !.due = TRUE]
    BY <1>3 DEF StoreStatus
  <2>2. poll \in RawStates /\ Reached(MapState(poll))
    BY <2>1 DEF PrintInv
  <2>3. print' \in PrintRow /\ print'.state = MapState(poll) /\ print'.state # "pending"
    BY <1>0, <2>1, <2>2, Mapped DEF PrintRow, Settled
  <2> QED
    BY <2>1, <2>2, <2>3 DEF PrintInv, Reached
<1>4. CASE PollDies
  BY <1>4 DEF PollDies, PrintInv, Reached
<1>5. ASSUME NEW raw \in RawStates, ReceiveWebhook(raw) PROVE PrintInv'
  <2> DEFINE pc == IF hooks[raw].pc = "none" THEN "stored" ELSE hooks[raw].pc
             x == [hooks[raw] EXCEPT !.copies = @ - 1, !.pc = pc]
  <2>1. hooks[raw].copies > 0 /\ UNCHANGED <<print, lab, submit, poll>> /\ hooks' = [hooks EXCEPT ![raw] = x]
    BY <1>0, <1>5 DEF ReceiveWebhook
  <2>2. pc \in {"none", "stored", "applied", "lost"} /\ hooks[raw].copies - 1 \in 0 .. MaxCopies
    BY <1>0, <2>1
  <2> HIDE DEF pc
  <2>3. x \in [copies : 0 .. MaxCopies, pc : {"none", "stored", "applied", "lost"}]
    BY <1>0, <2>2
  <2> HIDE DEF x
  <2>4. /\ hooks' \in [RawStates -> [copies : 0 .. MaxCopies, pc : {"none", "stored", "applied", "lost"}]]
        /\ \A other \in RawStates \ {raw} : hooks'[other] = hooks[other]
    BY <1>0, <2>1, <2>3
  <2>5. Reached(MapState(raw))
    BY <2>1 DEF PrintInv
  <2> QED
    BY <2>1, <2>4, <2>5 DEF PrintInv, Reached
<1>6. ASSUME NEW raw \in RawStates, ApplyWebhook(raw) PROVE PrintInv'
  <2>1. /\ hooks[raw].pc = "stored" /\ UNCHANGED <<lab, submit, poll>>
        /\ hooks' = [hooks EXCEPT ![raw].pc = "applied"]
    BY <1>6 DEF ApplyWebhook
  <2>2. /\ hooks' \in [RawStates -> [copies : 0 .. MaxCopies, pc : {"none", "stored", "applied", "lost"}]]
        /\ \A other \in RawStates : /\ hooks'[other].copies = hooks[other].copies
                                    /\ hooks'[other].pc = "stored" => hooks[other].pc = "stored"
    BY <1>0, <2>1
  <2>3. print' \in PrintRow /\ Reached(print'.state)
        /\ (print'.state = "pending" /\ ~print'.manual => print'.attempts < MaxSubmits)
    <3>1. CASE print' = print
      BY <1>0, <3>1 DEF PrintInv
    <3>2. CASE raw \in DOMAIN LabStateMap /\ print' = [print EXCEPT !.state = LabStateMap[raw]]
      <4>1. raw \in {"in_production", "shipped", "delivered"} /\ LabStateMap[raw] = raw /\ MapState(raw) = raw
        BY <3>2, RawWords DEF LabStateMap, MapState
      <4>2. Reached(raw)
        BY <2>1, <4>1 DEF PrintInv
      <4> QED
        BY <1>0, <3>2, <4>1, <4>2 DEF PrintRow, Settled
    <3> QED
      BY <1>6, <3>1, <3>2 DEF ApplyWebhook
  <2> QED
    BY <2>1, <2>2, <2>3 DEF PrintInv, Reached
<1>7. ASSUME NEW raw \in RawStates, WebhookDies(raw) PROVE PrintInv'
  <2>1. UNCHANGED <<print, lab, submit, poll>> /\ hooks' = [hooks EXCEPT ![raw].pc = "lost"]
    BY <1>7 DEF WebhookDies
  <2>2. /\ hooks' \in [RawStates -> [copies : 0 .. MaxCopies, pc : {"none", "stored", "applied", "lost"}]]
        /\ \A other \in RawStates : /\ hooks'[other].copies = hooks[other].copies
                                    /\ hooks'[other].pc = "stored" => hooks[other].pc = "stored"
    BY <1>0, <2>1
  <2> QED
    BY <2>1, <2>2 DEF PrintInv, Reached
<1> QED
  BY <1>1, <1>2, <1>3, <1>4, <1>5, <1>6, <1>7

(* FulfilInv holds in every reachable state: what each step of a job has     *)
(* established, and what the print row may know of the lab.                  *)
THEOREM FulfilInductive == FulfilSpec => []FulfilInv
<1>1. FulfilInv /\ [FulfilNext]_fulfilVars => FulfilInv'
  <2> SUFFICES ASSUME FulfilInv, [FulfilNext]_fulfilVars PROVE FulfilInv'
    OBVIOUS
  <2> USE FulfillmentAssumption
  <2>1. CASE DigitalNext
    <3>1. PICK j \in Jobs :
            \/ FindExistingCompleted(j) \/ LoadOrder(j) \/ InsertFulfillment(j)
            \/ BuildAndUploadBundle(j) \/ MarkCompleted(j) \/ SendEmail(j) \/ WriteAudit(j)
            \/ Throw(j) \/ GiveUp(j) \/ JobDies(j)
      BY <2>1 DEF DigitalNext
    <3>2. DigitalInv'
      BY <3>1, InvJob, InvRow, InvGiveUp DEF FulfilInv
    <3>3. UNCHANGED <<content, printVars>>
      BY <3>1 DEF FindExistingCompleted, LoadOrder, InsertFulfillment, BuildAndUploadBundle,
                  MarkCompleted, SendEmail, WriteAudit, Throw, GiveUp, JobDies
    <3>4. faults' \in 0 .. MaxFaults
      <4>1. faults' = faults \/ (faults < MaxFaults /\ faults' = faults + 1)
        BY <3>1 DEF FindExistingCompleted, LoadOrder, InsertFulfillment, BuildAndUploadBundle,
                    MarkCompleted, SendEmail, WriteAudit, Throw, GiveUp, JobDies
      <4> QED
        BY <4>1 DEF FulfilInv
    <3>5. PrintInv'
      BY <3>3 DEF FulfilInv, printVars, PrintInv, Reached
    <3> QED
      BY <3>2, <3>3, <3>4, <3>5 DEF FulfilInv
  <2>2. CASE PrintNext
    <3>1. PrintInv'
      BY <2>2, InvSubmit, InvReports DEF FulfilInv, PrintNext
    <3>2. UNCHANGED <<content, digitalVars>>
      BY <2>2 DEF PrintNext, CreatePrintLabOrder, RequestPoll, Reconfigure, SelectPending, FlagManual,
                  SubmitToLab, StoreSubmission, StoreThrows, SubmissionDies, LabAdvances,
                  ReadStatus, StoreStatus, PollDies, ReceiveWebhook, ApplyWebhook, WebhookDies
    <3>3. faults' \in 0 .. MaxFaults
      <4>1. faults' = faults \/ (faults < MaxFaults /\ faults' = faults + 1)
        BY <2>2 DEF PrintNext, CreatePrintLabOrder, RequestPoll, Reconfigure, SelectPending, FlagManual,
                    SubmitToLab, StoreSubmission, StoreThrows, SubmissionDies, LabAdvances,
                    ReadStatus, StoreStatus, PollDies, ReceiveWebhook, ApplyWebhook, WebhookDies
      <4> QED
        BY <4>1 DEF FulfilInv
    <3>4. DigitalInv'
      BY <3>2 DEF FulfilInv, digitalVars, DigitalInv, JobKnows, GaveUp, Delivered
    <3> QED
      BY <3>1, <3>2, <3>3, <3>4 DEF FulfilInv
  <2>3. CASE UNCHANGED fulfilVars
    BY <2>3 DEF fulfilVars, digitalVars, printVars, FulfilInv, DigitalInv, JobKnows, GaveUp,
                Delivered, PrintInv, Reached
  <2> QED
    BY <2>1, <2>2, <2>3 DEF FulfilNext
<1> QED
  BY <1>1, FulfilInvInit, PTL DEF FulfilSpec

(* The worker is configured for the lab, or is not. *)
AdapterTyped == adapter \in BOOLEAN
LEMMA AdapterStaysTyped == FulfilSpec => []AdapterTyped
<1>1. FulfilInit => AdapterTyped
  BY Zenon DEF FulfilInit, AdapterTyped
<1>2. AdapterTyped /\ [FulfilNext]_fulfilVars => AdapterTyped'
  <2>1. CASE Reconfigure
    BY <2>1, Zenon DEF Reconfigure, AdapterTyped
  <2>2. CASE DigitalNext
    BY <2>2 DEF DigitalNext, FindExistingCompleted, LoadOrder, InsertFulfillment, BuildAndUploadBundle,
                MarkCompleted, SendEmail, WriteAudit, Throw, GiveUp, JobDies, AdapterTyped
  <2>3. CASE PrintNext /\ ~Reconfigure
    BY <2>3 DEF PrintNext, CreatePrintLabOrder, RequestPoll, SelectPending, FlagManual,
                SubmitToLab, StoreSubmission, StoreThrows, SubmissionDies, LabAdvances,
                ReadStatus, StoreStatus, PollDies, ReceiveWebhook, ApplyWebhook, WebhookDies, AdapterTyped
  <2>4. CASE UNCHANGED fulfilVars
    BY <2>4 DEF fulfilVars, AdapterTyped
  <2> QED
    BY <2>1, <2>2, <2>3, <2>4 DEF FulfilNext
<1> QED
  BY <1>1, <1>2, PTL DEF FulfilSpec

(* Every variable keeps its type. *)
THEOREM FulfilTypeCorrect == FulfilSpec => []FulfilTypeOK
<1>1. FulfilInv /\ AdapterTyped => FulfilTypeOK
  BY DEF FulfilInv, DigitalInv, PrintInv, AdapterTyped, FulfilTypeOK, Keys
<1> QED
  BY <1>1, FulfilInductive, AdapterStaysTyped, PTL

(* A served link leads to a stored zip, and unless a job of the order has    *)
(* used up its attempts an e-mailed link leads to a completed row and a job  *)
(* that ended well delivered (processFulfillmentDigital, downloadsRoutes).   *)
THEOREM LinksKeptAlways == FulfilSpec => []LinksKept
<1>1. FulfilInv => LinksKept
  BY DEF FulfilInv, DigitalInv, JobKnows, GaveUp, Delivered, LinksKept, Served
<1> QED
  BY <1>1, FulfilInductive, PTL

(* However often an order is submitted the lab prints it once, and the row   *)
(* never says more than the lab did (runPrintSubmissions,                    *)
(* runPrintStatusPolls, applyWebhookEvent).                                  *)
THEOREM PrintMatchesLabAlways == FulfilSpec => []PrintMatchesLab
<1>1. FulfilInv => PrintMatchesLab
  <2> SUFFICES ASSUME FulfilInv PROVE PrintMatchesLab
    OBVIOUS
  <2>1. lab.orders = {} \/ lab.orders = {0}
    BY DEF FulfilInv, PrintInv
  <2>2. Cardinality(lab.orders) <= 1
    BY <2>1, FS_EmptySet, FS_Singleton
  <2> QED
    BY <2>2 DEF FulfilInv, PrintInv, Reached, PrintMatchesLab
<1> QED
  BY <1>1, FulfilInductive, PTL

(***************************************************************************)
(* Events: members, their splits, and credentials.                         *)
(***************************************************************************)
(* The sum of the splits that the users us have in the rows of an event, the *)
(* photographers among them, and what assertSplitPctInvariant looks at.      *)
Taken(table, us) == SumOver([u \in Users |-> table[u].split], us)
Takers(table) == {u \in Users : table[u].role = "photographer"}
Fits(table, others, role, split) ==
  role = "photographer" /\ split > 0 => Taken(table, others) + split <= 100

(* An event that exists has a slug. *)
SlugsKnown == \A e \in EventIds : IF Exists(e) THEN event[e].slug \in Slugs ELSE event[e].slug = None

(* What a request knows of the event it writes, and of what the body said. *)
EventKnown(q) ==
  /\ q.pc \in {"insert", "rename"} => q.slug \in Slugs
  /\ q.pc \in {"settings", "rename", "publish", "archive"} => Exists(q.e)
  /\ q.pc = "add" => q.role \in MemberRoles /\ q.split \in Splits

(* What a request that nobody overtook knows of the members ... *)
MembersKnown(q) ==
  LET table == member[q.e] IN
    /\ q.pc = "add" /\ ~q.stale => Fits(table, Takers(table), q.role, q.split)
    /\ q.pc = "change" /\ ~q.stale /\ table[q.u].role # None =>
         Fits(table, Takers(table) \ {q.u}, Given(q.role, None, table[q.u].role),
              Given(q.split, NoSplit, table[q.u].split))

(* ... and of the credentials. *)
CredentialsKnown(q) == q.pc = "ftp" /\ ~q.stale => ftp[q.e] = 0

EventsTyped ==
  EventsTypeOK /\ SlugsKnown /\ \A r \in Desks : EventKnown(office[r])
SplitsInv ==
  /\ \A r \in Desks : MembersKnown(office[r])
  /\ raced \cap {"add", "change"} = {} => \A e \in EventIds : Taken(member[e], Takers(member[e])) <= 100
CredentialsInv ==
  /\ \A r \in Desks : CredentialsKnown(office[r])
  /\ "ftp" \notin raced => \A e \in EventIds : ftp[e] <= 1
EventsInv == EventsTyped /\ SplitsInv /\ CredentialsInv

LEMMA OfficeIdleTyped == OfficeIdle \in OfficeRows /\ OfficeIdle.pc = "idle" /\ OfficeIdle.stale = FALSE
<1>1. (CHOOSE e \in EventIds : TRUE) \in EventIds /\ (CHOOSE u \in Users : TRUE) \in Users
  BY EventsAssumption
<1> QED
  BY <1>1 DEF OfficeIdle, OfficeRows

(* The sum of the model is a sum of a function. *)
LEMMA SplitSumTaken ==
  ASSUME EventsTypeOK, NEW e \in EventIds, NEW us \in SUBSET Users
  PROVE  SplitSum(e, us) = Taken(member[e], us)
<1> DEFINE f == [u \in Users |-> member[e][u].split]
           body(it) == [s \in SUBSET us |->
             IF s = {} THEN 0 ELSE member[e][CHOOSE x \in s : TRUE].split + it[s \ {CHOOSE x \in s : TRUE}]]
           it0 == CHOOSE it : it = body(it)
<1>1. IsFiniteSet(us) /\ \A x \in us : f[x] \in Int
  <2>1. member[e] \in [Users -> MemberRows]
    BY DEF EventsTypeOK
  <2>2. \A u \in Users : member[e][u].split \in 0 .. 100
    BY <2>1 DEF MemberRows
  <2> QED
    BY <2>2, FS_Subset, EventsAssumption
<1>2. \A it : it = body(it) <=> Iterates(it, f, us)
  <2>1. ASSUME NEW s \in SUBSET us, s # {}
        PROVE  f[AnyOf(s)] = member[e][CHOOSE x \in s : TRUE].split
    <3>1. AnyOf(s) \in us /\ AnyOf(s) = CHOOSE x \in s : TRUE
      BY <2>1 DEF AnyOf
    <3> QED
      BY <3>1
  <2> HIDE DEF f
  <2> QED
    BY <2>1 DEF Iterates, AnyOf
<1>3. SplitSum(e, us) = it0[us]
  BY Zenon DEF SplitSum, MapThenSumSet, MapThenFoldSet
<1>4. Iterates(it0, f, us)
  <2> HIDE DEF body, f
  <2>1. \E it : it = body(it)
    BY <1>1, <1>2, SumOverChosen
  <2> QED
    BY <2>1, <1>2
<1> HIDE DEF it0, body
<1>5. it0[us] = SumOver(f, us)
  <2> HIDE DEF f
  <2> QED
    BY <1>1, <1>4, SumIterated
<1> QED
  BY <1>3, <1>5 DEF Taken

Rowed == [Users -> MemberRows]

LEMMA TakenLess ==
  ASSUME NEW table \in Rowed, NEW T \in SUBSET Users, NEW S \in SUBSET T
  PROVE  Taken(table, S) \in Nat /\ Taken(table, T) \in Nat /\ Taken(table, S) <= Taken(table, T)
<1> DEFINE f == [u \in Users |-> table[u].split]
<1>1. IsFiniteSet(T) /\ IsFiniteSet(S) /\ (\A x \in T : f[x] \in Nat)
  BY FS_Subset, EventsAssumption DEF Rowed, MemberRows
<1> HIDE DEF f
<1>2. SumOver(f, S) \in Nat /\ SumOver(f, T) \in Nat /\ SumOver(f, S) <= SumOver(f, T)
  BY <1>1, SumNat, SumSubset
<1> QED
  BY <1>2 DEF Taken, f

(* One member's row is written: the sum over the others stays. *)
LEMMA OneRowWritten ==
  ASSUME NEW table \in Rowed, NEW u \in Users, NEW new \in MemberRows
  PROVE  LET table2 == [table EXCEPT ![u] = new] IN
         /\ table2 \in Rowed
         /\ Takers(table2) = IF new.role = "photographer" THEN (Takers(table) \ {u}) \cup {u} ELSE Takers(table) \ {u}
         /\ \A S \in SUBSET (Users \ {u}) : Taken(table2, S) = Taken(table, S)
         /\ Taken(table2, Takers(table2)) =
              Taken(table, Takers(table) \ {u}) + (IF new.role = "photographer" THEN new.split ELSE 0)
<1> DEFINE table2 == [table EXCEPT ![u] = new]
           f == [v \in Users |-> table[v].split]
           g == [v \in Users |-> table2[v].split]
           rest == Takers(table) \ {u}
<1>1. table2 \in Rowed /\ table2[u] = new /\ \A v \in Users \ {u} : table2[v] = table[v]
  BY DEF Rowed
<1>2. Takers(table2) = IF new.role = "photographer" THEN rest \cup {u} ELSE rest
  BY <1>1 DEF Takers
<1>3. (\A x \in Users : f[x] \in Int /\ g[x] \in Int) /\ g[u] = new.split
      /\ \A x \in Users \ {u} : f[x] = g[x]
  BY <1>1 DEF Rowed, MemberRows
<1>4. ASSUME NEW S \in SUBSET (Users \ {u})
      PROVE  Taken(table2, S) = Taken(table, S)
  <2>1. IsFiniteSet(S) /\ \A x \in S : g[x] \in Int /\ g[x] = f[x]
    BY <1>3, FS_Subset, EventsAssumption
  <2> HIDE DEF f, g
  <2>2. SumOver(g, S) = SumOver(f, S)
    BY <2>1, SumSame
  <2> QED
    BY <2>2 DEF Taken, f, g
<1>5. rest \in SUBSET (Users \ {u})
  BY DEF Takers
<1>6. Taken(table2, rest \cup {u}) = Taken(table2, rest) + new.split
  <2>1. IsFiniteSet(rest) /\ u \notin rest /\ (\A x \in rest : g[x] \in Int) /\ g[u] \in Int
    BY <1>3, <1>5, FS_Subset, EventsAssumption
  <2> HIDE DEF g, rest
  <2>2. SumOver(g, rest \cup {u}) = SumOver(g, rest) + g[u]
    BY <2>1, SumAdd
  <2> QED
    BY <2>2, <1>3 DEF Taken, g
<1>7. Taken(table, rest) \in Nat
  BY <1>5, TakenLess
<1> HIDE DEF table2, rest
<1>8. Taken(table2, Takers(table2)) = Taken(table, rest) + (IF new.role = "photographer" THEN new.split ELSE 0)
  BY <1>2, <1>4, <1>5, <1>6, <1>7
<1> QED
  BY <1>1, <1>2, <1>4, <1>8 DEF table2, rest

(* The fields of a request stay, but for staleness, which stays once it is there. *)
OneDeskMoves(r) ==
  /\ office' \in [Desks -> OfficeRows]
  /\ \A d \in Desks \ {r} :
       /\ office'[d].pc = office[d].pc /\ office'[d].e = office[d].e /\ office'[d].u = office[d].u
       /\ office'[d].role = office[d].role /\ office'[d].split = office[d].split
       /\ office'[d].slug = office[d].slug
       /\ office[d].stale => office'[d].stale

LEMMA DeskWritten ==
  ASSUME EventsTypeOK, NEW r \in Desks, NEW q \in OfficeRows, office' = [office EXCEPT ![r] = q]
  PROVE  OneDeskMoves(r) /\ office'[r] = q /\ \A d \in Desks \ {r} : office'[d] = office[d]
BY DEF EventsTypeOK, OneDeskMoves

LEMMA DeskOver ==
  ASSUME EventsTypeOK, NEW r \in Desks, NEW pcs, OfficeRepliesOver(r, pcs)
  PROVE  /\ OneDeskMoves(r) /\ office'[r] = OfficeIdle
         /\ \A d \in Desks \ {r} :
              office[d].pc \in pcs /\ office[d].e = office[r].e => office'[d].stale
<1> DEFINE over(d) == [office[d] EXCEPT !.stale = @ \/ (office[d].pc \in pcs /\ office[d].e = office[r].e)]
<1>1. \A d \in Desks : office[d] \in OfficeRows
  BY DEF EventsTypeOK
<1>2. \A d \in Desks :
        /\ over(d) \in OfficeRows /\ over(d).pc = office[d].pc /\ over(d).e = office[d].e
        /\ over(d).u = office[d].u /\ over(d).role = office[d].role
        /\ over(d).split = office[d].split /\ over(d).slug = office[d].slug
        /\ (office[d].stale => over(d).stale)
        /\ (office[d].pc \in pcs /\ office[d].e = office[r].e => over(d).stale)
  BY <1>1 DEF OfficeRows
<1>3. office' = [d \in Desks |-> IF d = r THEN OfficeIdle ELSE over(d)]
  BY DEF OfficeRepliesOver
<1> HIDE DEF over
<1> QED
  BY <1>2, <1>3, OfficeIdleTyped DEF OneDeskMoves

(* A request that begins, and one that ends. *)
Begun == {"insert", "rename", "publish", "archive", "ftp", "sftp", "add", "change"}

LEMMA DeskBegins ==
  ASSUME EventsTypeOK, NEW r \in Desks, NEW e \in EventIds, NEW pc \in Begun, OfficeBegins(r, pc, e)
  PROVE  /\ OneDeskMoves(r) /\ office'[r].pc = pc /\ office'[r].e = e
         /\ office'[r].stale = FALSE /\ \A d \in Desks \ {r} : office'[d] = office[d]
<1> DEFINE q == [OfficeIdle EXCEPT !.pc = pc, !.e = e]
<1>1. q \in OfficeRows /\ q.pc = pc /\ q.e = e /\ q.stale = FALSE
  BY OfficeIdleTyped DEF OfficeRows, Begun
<1>2. office' = [office EXCEPT ![r] = q]
  BY DEF OfficeBegins
<1> HIDE DEF q
<1> QED
  BY <1>1, <1>2, DeskWritten

LEMMA DeskBeginsSlug ==
  ASSUME EventsTypeOK, NEW r \in Desks, NEW e \in EventIds, NEW pc \in Begun, NEW s \in Slugs,
         OfficeBeginsSlug(r, pc, e, s)
  PROVE  /\ OneDeskMoves(r) /\ office'[r].pc = pc /\ office'[r].e = e /\ office'[r].slug = s
         /\ office'[r].stale = FALSE /\ \A d \in Desks \ {r} : office'[d] = office[d]
<1> DEFINE q == [OfficeIdle EXCEPT !.pc = pc, !.e = e, !.slug = s]
<1>1. q \in OfficeRows /\ q.pc = pc /\ q.e = e /\ q.slug = s /\ q.stale = FALSE
  BY OfficeIdleTyped DEF OfficeRows, Begun
<1>2. office' = [office EXCEPT ![r] = q]
  BY DEF OfficeBeginsSlug
<1> HIDE DEF q
<1> QED
  BY <1>1, <1>2, DeskWritten

BeganMember(r, pc, e, u, role, split) ==
  /\ office'[r].pc = pc /\ office'[r].e = e /\ office'[r].u = u
  /\ office'[r].role = role /\ office'[r].split = split
  /\ office'[r].stale = FALSE /\ \A d \in Desks \ {r} : office'[d] = office[d]

LEMMA DeskBeginsMember ==
  ASSUME EventsTypeOK, NEW r \in Desks, NEW e \in EventIds, NEW pc \in Begun, NEW u \in Users,
         NEW role \in MemberRoles \cup {None}, NEW split \in Splits \cup {NoSplit},
         OfficeBeginsMember(r, pc, e, u, role, split)
  PROVE  OneDeskMoves(r) /\ BeganMember(r, pc, e, u, role, split)
<1> DEFINE q == [OfficeIdle EXCEPT !.pc = pc, !.e = e, !.u = u, !.role = role, !.split = split]
<1>1. q \in OfficeRows /\ q.pc = pc /\ q.e = e /\ q.u = u /\ q.role = role
      /\ q.split = split /\ q.stale = FALSE
  BY OfficeIdleTyped DEF OfficeRows, Begun
<1>2. office' = [office EXCEPT ![r] = q]
  BY DEF OfficeBeginsMember
<1> HIDE DEF q
<1> QED
  BY <1>1, <1>2, DeskWritten DEF BeganMember

LEMMA DeskReplies ==
  ASSUME EventsTypeOK, NEW r \in Desks, OfficeReplies(r)
  PROVE  /\ OneDeskMoves(r) /\ office'[r] = OfficeIdle
         /\ \A d \in Desks \ {r} : office'[d] = office[d]
BY OfficeIdleTyped, DeskWritten DEF OfficeReplies

(* A step of a request moves it and nobody else, and what it begins is as    *)
(* EventKnown says.                                                          *)
LEMMA DeskSteps ==
  ASSUME EventsTyped, NEW r \in Desks, OfficeStep(r)
  PROVE  OneDeskMoves(r)
<1> USE DEF EventsTyped
<1>0. None \notin {} /\ GivenRoles \subseteq MemberRoles
  BY EventsAssumption
<1>1. CASE CreateEvent(r)
  BY <1>1, DeskBeginsSlug DEF CreateEvent, Begun
<1>2. CASE InsertEvent(r)
  <2>1. CASE OfficeReplies(r)
    BY <2>1, DeskReplies
  <2>2. CASE office' = [office EXCEPT ![r].pc = "settings"]
    <3>1. [office[r] EXCEPT !.pc = "settings"] \in OfficeRows
      BY DEF EventsTypeOK, OfficeRows
    <3>2. office' = [office EXCEPT ![r] = [office[r] EXCEPT !.pc = "settings"]]
      BY <2>2 DEF EventsTypeOK
    <3> QED
      BY <3>1, <3>2, DeskWritten
  <2> QED
    BY <1>2, <2>1, <2>2 DEF InsertEvent
<1>3. CASE UpdateEvent(r)
  <2>1. PICK e \in EventIds, s \in Slugs : OfficeBeginsSlug(r, "rename", e, s)
    BY <1>3 DEF UpdateEvent
  <2> QED
    BY <2>1, DeskBeginsSlug DEF Begun
<1>4. CASE PublishEvent(r) \/ ArchiveEvent(r) \/ RotateFtpCredential(r) \/ ProvisionSftp(r)
  <2>1. PICK e \in EventIds, pc \in {"publish", "archive", "ftp", "sftp"} : OfficeBegins(r, pc, e)
    BY <1>4 DEF PublishEvent, ArchiveEvent, RotateFtpCredential, ProvisionSftp
  <2> QED
    BY <2>1, DeskBegins DEF Begun
<1>5. CASE AddMember(r)
  <2>1. PICK e \in EventIds, u \in Users, role \in GivenRoles, split \in Splits :
          OfficeBeginsMember(r, "add", e, u, role, split)
    BY <1>5 DEF AddMember
  <2> QED
    BY <1>0, <2>1, DeskBeginsMember DEF Begun
<1>6. CASE UpdateMember(r)
  <2>1. PICK e \in EventIds, u \in Users, role \in GivenRoles \cup {None}, split \in Splits \cup {NoSplit} :
          OfficeBeginsMember(r, "change", e, u, role, split)
    BY <1>6 DEF UpdateMember
  <2> QED
    BY <1>0, <2>1, DeskBeginsMember DEF Begun
<1>7. CASE OfficeReplies(r)
  BY <1>7, DeskReplies
<1>8. ASSUME NEW pcs, OfficeRepliesOver(r, pcs) PROVE OneDeskMoves(r)
  BY <1>8, DeskOver
<1>9. OfficeReplies(r) \/ (\E pcs : OfficeRepliesOver(r, pcs)) \/ InsertEvent(r)
      \/ CreateEvent(r) \/ UpdateEvent(r) \/ PublishEvent(r) \/ ArchiveEvent(r)
      \/ RotateFtpCredential(r) \/ ProvisionSftp(r) \/ AddMember(r) \/ UpdateMember(r)
  BY Zenon DEF OfficeStep, InsertSettings, WriteSlug, WritePublished, WriteArchived, InsertMember,
         WriteMember, InsertCredential, InsertAccount, BreakOff
<1> QED
  BY <1>1, <1>2, <1>3, <1>4, <1>5, <1>6, <1>7, <1>8, <1>9

(* The events a step writes keep their types and their slugs, and stay.      *)
EventTable ==
  /\ event \in [EventIds -> EventRows] /\ SlugsKnown
  /\ \A e, f \in EventIds : Exists(e) /\ event[e].slug = event[f].slug => e = f

LEMMA EventTableKept ==
  ASSUME EventsTyped, NEW r \in Desks, OfficeStep(r)
  PROVE  EventTable' /\ \A e \in EventIds : Exists(e) => Exists(e)'
<1>1. EventTable /\ office[r] \in OfficeRows /\ EventKnown(office[r])
  BY DEF EventsTyped, EventsTypeOK, EventTable
<1>2. CASE UNCHANGED event
  BY <1>1, <1>2 DEF EventTable, SlugsKnown, Exists
<1> DEFINE q == office[r]
<1>3. q.e \in EventIds /\ event[q.e] \in EventRows
  BY <1>1 DEF OfficeRows, EventTable
<1>4. \A e \in EventIds : Exists(e) <=> event[e].slug \in Slugs
  BY <1>1, EventsAssumption DEF EventTable, SlugsKnown
<1>5. ASSUME NEW table \in EventRows, table.status # None, table.slug \in Slugs,
             event' = [event EXCEPT ![q.e] = table],
             \A e \in EventIds \ {q.e} : event[e].slug # table.slug
      PROVE  EventTable' /\ \A e \in EventIds : Exists(e) => Exists(e)'
  <2>1. event' \in [EventIds -> EventRows] /\ event'[q.e] = table
        /\ \A e \in EventIds \ {q.e} : event'[e] = event[e]
    BY <1>1, <1>3, <1>5 DEF EventTable
  <2>2. \A e \in EventIds : Exists(e) => Exists(e)'
    BY <1>5, <2>1 DEF Exists
  <2>3. SlugsKnown'
    BY <1>1, <1>5, <2>1 DEF EventTable, SlugsKnown, Exists
  <2>4. ASSUME NEW e \in EventIds, NEW f \in EventIds, Exists(e)', event'[e].slug = event'[f].slug
        PROVE  e = f
    <3>1. CASE e = q.e
      BY <1>5, <2>1, <2>4, <3>1
    <3>2. CASE f = q.e /\ e # q.e
      BY <1>5, <2>1, <2>4, <3>2
    <3>3. CASE f # q.e /\ e # q.e
      BY <1>1, <2>1, <2>4, <3>3 DEF Exists, EventTable
    <3> QED
      BY <3>1, <3>2, <3>3
  <2> QED
    BY <2>1, <2>2, <2>3, <2>4 DEF EventTable
<1>6. CASE InsertEvent(r)
  <2> DEFINE table == [status |-> "draft", slug |-> q.slug, settings |-> FALSE]
  <2>1. CASE event' = event
    BY <2>1, <1>2
  <2>2. CASE ~SlugTaken(q.slug) /\ event' = [event EXCEPT ![q.e] = table]
    <3>1. q.slug \in Slugs
      BY <1>1, <1>6 DEF InsertEvent, OfficeAt, EventKnown
    <3>2. table \in EventRows /\ table.status # None /\ table.slug = q.slug
      BY <3>1 DEF EventRows, None
    <3> HIDE DEF table
    <3> QED
      BY <1>5, <2>2, <3>1, <3>2 DEF SlugTaken
  <2> QED
    BY <1>6, <2>1, <2>2 DEF InsertEvent
<1>7. CASE WriteSlug(r)
  <2>1. Exists(q.e) /\ q.slug \in Slugs
    BY <1>1, <1>7 DEF WriteSlug, OfficeAt, EventKnown
  <2> DEFINE table == [event[q.e] EXCEPT !.slug = q.slug]
  <2>2. CASE event' = event
    BY <2>2, <1>2
  <2>3. CASE (q.slug = event[q.e].slug \/ ~SlugTaken(q.slug)) /\ event' = [event EXCEPT ![q.e].slug = q.slug]
    <3>1. table \in EventRows /\ table.status # None /\ table.slug = q.slug
      BY <1>3, <2>1 DEF EventRows, Exists
    <3>2. event' = [event EXCEPT ![q.e] = table]
      BY <1>1, <1>3, <2>3 DEF EventTable
    <3>3. \A e \in EventIds \ {q.e} : event[e].slug # q.slug
      BY <1>1, <1>3, <2>1, <2>3 DEF EventTable, SlugTaken
    <3> HIDE DEF table
    <3> QED
      BY <1>5, <2>1, <3>1, <3>2, <3>3
  <2> QED
    BY <1>7, <2>2, <2>3 DEF WriteSlug
<1>8. CASE InsertSettings(r) \/ WritePublished(r) \/ WriteArchived(r)
  <2>1. Exists(q.e) /\ event[q.e].slug \in Slugs
    BY <1>1, <1>4, <1>3, <1>8 DEF InsertSettings, WritePublished, WriteArchived, OfficeAt, EventKnown
  <2>2. PICK table \in EventRows : /\ event' = [event EXCEPT ![q.e] = table]
                                /\ table.slug = event[q.e].slug /\ table.status # None
    <3>1. CASE InsertSettings(r)
      <4>1. [event[q.e] EXCEPT !.settings = TRUE] \in EventRows
        BY <1>3 DEF EventRows
      <4>2. event' = [event EXCEPT ![q.e] = [event[q.e] EXCEPT !.settings = TRUE]]
        BY <3>1, <1>1, <1>3 DEF InsertSettings, EventTable
      <4> QED
        BY <4>1, <4>2, <1>3, <2>1 DEF EventRows, Exists
    <3>2. CASE WritePublished(r) \/ WriteArchived(r)
      <4>1. PICK st \in {"published", "archived"} : event' = [event EXCEPT ![q.e].status = st]
        BY <3>2 DEF WritePublished, WriteArchived
      <4>2. [event[q.e] EXCEPT !.status = st] \in EventRows
        BY <1>3 DEF EventRows
      <4>3. event' = [event EXCEPT ![q.e] = [event[q.e] EXCEPT !.status = st]]
        BY <4>1, <1>1, <1>3 DEF EventTable
      <4> QED
        BY <4>2, <4>3, <1>3, <2>1 DEF EventRows, Exists, None
    <3> QED
      BY <1>8, <3>1, <3>2
  <2>3. \A e \in EventIds \ {q.e} : event[e].slug # table.slug
    BY <1>1, <1>3, <2>1, <2>2 DEF EventTable
  <2> QED
    BY <1>5, <2>1, <2>2, <2>3
<1>9. UNCHANGED event \/ InsertEvent(r) \/ WriteSlug(r) \/ InsertSettings(r) \/ WritePublished(r)
      \/ WriteArchived(r)
  BY Zenon DEF OfficeStep, CreateEvent, UpdateEvent, PublishEvent, ArchiveEvent, AddMember, InsertMember,
         UpdateMember, WriteMember, RotateFtpCredential, InsertCredential, ProvisionSftp,
         InsertAccount, BreakOff
<1> QED
  BY <1>2, <1>6, <1>7, <1>8, <1>9

(* The row a request writes for a member: a step that writes one writes this. *)
MemberWritten(r) ==
  LET q == office[r] IN
    IF q.pc = "add" THEN [role |-> q.role, split |-> q.split]
    ELSE [role |-> Given(q.role, None, member[q.e][q.u].role),
          split |-> Given(q.split, NoSplit, member[q.e][q.u].split)]

LEMMA MemberTable ==
  ASSUME EventsTyped, NEW r \in Desks, OfficeStep(r)
  PROVE  \/ UNCHANGED member
         \/ /\ InsertMember(r) \/ WriteMember(r)
            /\ office[r].e \in EventIds /\ office[r].u \in Users
            /\ MemberWritten(r) \in MemberRows
            /\ member' = [member EXCEPT ![office[r].e] =
                            [member[office[r].e] EXCEPT ![office[r].u] = MemberWritten(r)]]
<1> DEFINE q == office[r]
<1>1. q \in OfficeRows /\ EventKnown(q) /\ member \in [EventIds -> [Users -> MemberRows]]
  BY DEF EventsTyped, EventsTypeOK
<1>2. q.e \in EventIds /\ q.u \in Users
  BY <1>1 DEF OfficeRows
<1>3. Splits \subseteq 0 .. 100 /\ NoSplit \notin 0 .. 100
  BY EventsAssumption DEF NoSplit
<1>4. CASE InsertMember(r) /\ ~UNCHANGED member
  <2>1. q.pc = "add" /\ q.role \in MemberRoles /\ q.split \in Splits
    BY <1>1, <1>4 DEF InsertMember, OfficeAt, EventKnown
  <2>2. MemberWritten(r) = [role |-> q.role, split |-> q.split]
    BY <2>1 DEF MemberWritten
  <2>3. member' = [member EXCEPT ![q.e][q.u] = MemberWritten(r)]
    BY <1>4, <2>2 DEF InsertMember
  <2>4. MemberWritten(r) \in MemberRows
    <3>1. q.role \in MemberRoles \cup {None} /\ q.split \in 0 .. 100
      BY <1>3, <2>1
    <3>2. \A x \in MemberRoles \cup {None}, y \in 0 .. 100 : [role |-> x, split |-> y] \in MemberRows
      BY DEF MemberRows
    <3>3. [role |-> q.role, split |-> q.split] \in MemberRows
      <4> HIDE DEF q
      <4> QED
        BY <3>1, <3>2
    <3> QED
      BY <3>3, <2>2
  <2> QED
    BY <1>1, <1>2, <1>4, <2>3, <2>4
<1>5. CASE WriteMember(r) /\ ~UNCHANGED member
  <2> DEFINE old == member[q.e][q.u]
  <2>1. q.pc = "change"
    BY <1>5 DEF WriteMember, OfficeAt
  <2>2. old \in MemberRows /\ q.role \in MemberRoles \cup {None} /\ q.split \in Splits \cup {NoSplit}
    BY <1>1, <1>2 DEF OfficeRows
  <2>3. MemberWritten(r) = [role |-> Given(q.role, None, old.role), split |-> Given(q.split, NoSplit, old.split)]
    BY <2>1 DEF MemberWritten
  <2>4. member' = [member EXCEPT ![q.e] = [member[q.e] EXCEPT ![q.u] = MemberWritten(r)]]
    <3>1. member' = [member EXCEPT ![q.e][q.u] =
                       [role |-> Given(q.role, None, @.role), split |-> Given(q.split, NoSplit, @.split)]]
      BY <1>5 DEF WriteMember
    <3> QED
      BY <1>1, <1>2, <2>3, <3>1
  <2>5. MemberWritten(r) \in MemberRows
    <3>1. old.role \in MemberRoles \cup {None} /\ old.split \in 0 .. 100
      BY <2>2 DEF MemberRows
    <3>2. Given(q.role, None, old.role) \in MemberRoles \cup {None}
      BY <2>2, <3>1 DEF Given
    <3>3. Given(q.split, NoSplit, old.split) \in 0 .. 100
      BY <1>3, <2>2, <3>1 DEF Given
    <3> HIDE DEF old
    <3> DEFINE a == Given(q.role, None, old.role)
               b == Given(q.split, NoSplit, old.split)
    <3>4. a \in MemberRoles \cup {None} /\ b \in 0 .. 100 /\ MemberWritten(r) = [role |-> a, split |-> b]
      BY <2>3, <3>2, <3>3
    <3> HIDE DEF a, b
    <3> QED
      BY <3>4 DEF MemberRows
  <2> QED
    BY <1>2, <1>5, <2>4, <2>5
<1>6. UNCHANGED member \/ InsertMember(r) \/ WriteMember(r)
  BY Zenon DEF OfficeStep, CreateEvent, InsertEvent, InsertSettings, UpdateEvent, WriteSlug, PublishEvent,
         WritePublished, ArchiveEvent, WriteArchived, AddMember, UpdateMember,
         RotateFtpCredential, InsertCredential, ProvisionSftp, InsertAccount, BreakOff
<1> QED
  BY <1>4, <1>5, <1>6

(* The credentials keep their types, and the history its kinds. *)
LEMMA CredentialTable ==
  ASSUME EventsTyped, NEW r \in Desks, OfficeStep(r)
  PROVE  /\ ftp' \in [EventIds -> Nat]
         /\ sftp' \in [EventIds -> [status : {None, "active", "disabled"}, key : 0 .. MaxKeys]]
         /\ raced' \subseteq {"publish", "add", "change", "ftp"}
<1>1. /\ office[r].e \in EventIds /\ ftp \in [EventIds -> Nat]
      /\ sftp \in [EventIds -> [status : {None, "active", "disabled"}, key : 0 .. MaxKeys]]
      /\ raced \subseteq {"publish", "add", "change", "ftp"}
  BY DEF EventsTyped, EventsTypeOK, OfficeRows
<1>2. ftp' \in [EventIds -> Nat]
  <2>1. CASE RotateFtpCredential(r)
    BY <1>1, <2>1 DEF RotateFtpCredential
  <2>2. CASE InsertCredential(r)
    BY <1>1, <2>2 DEF InsertCredential
  <2>3. UNCHANGED ftp \/ RotateFtpCredential(r) \/ InsertCredential(r)
    BY Zenon DEF OfficeStep, CreateEvent, InsertEvent, InsertSettings, UpdateEvent, WriteSlug, PublishEvent,
           WritePublished, ArchiveEvent, WriteArchived, AddMember, InsertMember, UpdateMember,
           WriteMember, ProvisionSftp, InsertAccount, BreakOff
  <2> QED
    BY <1>1, <2>1, <2>2, <2>3
<1>3. sftp' \in [EventIds -> [status : {None, "active", "disabled"}, key : 0 .. MaxKeys]]
  <2>1. CASE InsertAccount(r)
    <3>1. 1 \in 0 .. MaxKeys
      BY EventsAssumption
    <3> QED
      BY <1>1, <2>1, <3>1 DEF InsertAccount
  <2>2. UNCHANGED sftp \/ InsertAccount(r)
    BY Zenon DEF OfficeStep, CreateEvent, InsertEvent, InsertSettings, UpdateEvent, WriteSlug, PublishEvent,
           WritePublished, ArchiveEvent, WriteArchived, AddMember, InsertMember, UpdateMember,
           WriteMember, RotateFtpCredential, InsertCredential, ProvisionSftp, BreakOff
  <2> QED
    BY <1>1, <2>1, <2>2
<1>4. UNCHANGED raced \/ (office[r].pc \in {"publish", "add", "change", "ftp"} /\ Races(r))
  BY Zenon DEF OfficeStep, CreateEvent, InsertEvent, InsertSettings, UpdateEvent, WriteSlug, PublishEvent,
         WritePublished, ArchiveEvent, WriteArchived, AddMember, InsertMember, UpdateMember,
         WriteMember, RotateFtpCredential, InsertCredential, ProvisionSftp, InsertAccount, BreakOff, OfficeAt
<1>5. raced' \subseteq {"publish", "add", "change", "ftp"}
  BY <1>1, <1>4 DEF Races
<1> QED
  BY <1>2, <1>3, <1>5

(* What a request has begun with is what it will need. *)
LEMMA EventKnownOf ==
  ASSUME EventsTyped, NEW r \in Desks, OfficeStep(r)
  PROVE  EventKnown(office[r])'
<1>0. {"rename", "add", "change"} \subseteq Begun
  BY DEF Begun
<1>1. EventsTypeOK /\ EventTable
  BY DEF EventsTyped, EventsTypeOK, EventTable
<1>2. CASE CreateEvent(r)
  <2>1. PICK e \in EventIds, s \in Slugs : OfficeBeginsSlug(r, "insert", e, s)
    BY <1>2 DEF CreateEvent
  <2> QED
    BY <1>1, <2>1, DeskBeginsSlug DEF Begun, EventKnown
<1>3. CASE UpdateEvent(r)
  <2>1. PICK e \in EventIds, s \in Slugs : Exists(e) /\ OfficeBeginsSlug(r, "rename", e, s)
    BY <1>3 DEF UpdateEvent, ViewerHolds
  <2>2. office'[r].pc = "rename" /\ office'[r].e = e /\ office'[r].slug = s
    BY <1>0, <1>1, <2>1, DeskBeginsSlug
  <2>3. event' = event
    BY <1>3 DEF UpdateEvent
  <2> QED
    BY <2>1, <2>2, <2>3 DEF EventKnown, Exists
<1>4. CASE PublishEvent(r) \/ ArchiveEvent(r)
  <2>1. PICK e \in EventIds, pc \in {"publish", "archive"} : Exists(e) /\ OfficeBegins(r, pc, e)
    BY <1>4 DEF PublishEvent, ArchiveEvent, ViewerHolds
  <2>2. office'[r].pc = pc /\ office'[r].e = e
    BY <1>1, <2>1, DeskBegins DEF Begun
  <2>3. event' = event
    BY <1>4 DEF PublishEvent, ArchiveEvent
  <2> QED
    BY <2>1, <2>2, <2>3 DEF EventKnown, Exists
<1>5. CASE RotateFtpCredential(r) \/ ProvisionSftp(r)
  <2>1. PICK e \in EventIds, pc \in {"ftp", "sftp"} : OfficeBegins(r, pc, e)
    BY <1>5 DEF RotateFtpCredential, ProvisionSftp
  <2>2. pc \in Begun
    BY <2>1 DEF Begun
  <2>3. office'[r].pc = pc
    BY <1>1, <2>1, <2>2, DeskBegins
  <2> QED
    BY <2>1, <2>3 DEF EventKnown
<1>6. CASE AddMember(r)
  <2>1. PICK e \in EventIds, u \in Users, role \in GivenRoles, split \in Splits :
          OfficeBeginsMember(r, "add", e, u, role, split)
    BY <1>6 DEF AddMember
  <2>2. role \in MemberRoles
    BY EventsAssumption
  <2>3. "add" \in Begun
    BY DEF Begun
  <2>4. BeganMember(r, "add", e, u, role, split)
    BY <1>1, <2>1, <2>2, <2>3, DeskBeginsMember
  <2>5. office'[r].pc = "add" /\ office'[r].role = role /\ office'[r].split = split
    BY <2>4 DEF BeganMember
  <2> QED
    BY <2>1, <2>2, <2>4, <2>5 DEF EventKnown
<1>7. CASE UpdateMember(r)
  <2>1. PICK e \in EventIds, u \in Users, role \in GivenRoles \cup {None}, split \in Splits \cup {NoSplit} :
          OfficeBeginsMember(r, "change", e, u, role, split)
    BY <1>7 DEF UpdateMember
  <2>2. role \in MemberRoles \cup {None}
    BY EventsAssumption
  <2>3. "change" \in Begun
    BY DEF Begun
  <2>4. BeganMember(r, "change", e, u, role, split)
    BY <1>1, <2>1, <2>2, <2>3, DeskBeginsMember
  <2>5. office'[r].pc = "change" /\ office'[r].role = role /\ office'[r].split = split
    BY <2>4 DEF BeganMember
  <2> QED
    BY <2>1, <2>2, <2>4, <2>5 DEF EventKnown
<1>8. CASE office'[r] = OfficeIdle
  BY <1>8, OfficeIdleTyped DEF EventKnown
<1>9. CASE office' = [office EXCEPT ![r].pc = "settings"] /\ InsertEvent(r)
  <2>1. CASE event' = event /\ office'[r] = OfficeIdle
    BY <1>8, <2>1
  <2>2. CASE event' = [event EXCEPT ![office[r].e] = [status |-> "draft", slug |-> office[r].slug, settings |-> FALSE]]
    BY <1>1, <1>9, <2>2 DEF EventKnown, EventsTypeOK, OfficeRows, Exists, None
  <2> QED
    BY <1>1, <1>9, <2>1, <2>2, DeskReplies DEF InsertEvent
<1>10. \/ OfficeReplies(r) \/ (\E pcs : OfficeRepliesOver(r, pcs))
       \/ office' = [office EXCEPT ![r].pc = "settings"] /\ InsertEvent(r)
       \/ CreateEvent(r) \/ UpdateEvent(r) \/ PublishEvent(r) \/ ArchiveEvent(r)
       \/ RotateFtpCredential(r) \/ ProvisionSftp(r) \/ AddMember(r) \/ UpdateMember(r)
  BY Zenon DEF OfficeStep, InsertEvent, InsertSettings, WriteSlug, WritePublished, WriteArchived,
         InsertMember, WriteMember, InsertCredential, InsertAccount, BreakOff
<1> QED
  BY <1>1, <1>2, <1>3, <1>4, <1>5, <1>6, <1>7, <1>8, <1>9, <1>10, DeskReplies, DeskOver

(* Types, slugs, and what each request needs are kept by every step. *)
LEMMA EventsTypedKept ==
  ASSUME EventsTyped, [EventsNext]_eventVars
  PROVE  EventsTyped'
<1>1. ASSUME NEW r \in Desks, OfficeStep(r)
      PROVE  EventsTyped'
  <2>1. OneDeskMoves(r)
    BY <1>1, DeskSteps
  <2>2. EventTable' /\ \A e \in EventIds : Exists(e) => Exists(e)'
    BY <1>1, EventTableKept
  <2>3. member' \in [EventIds -> [Users -> MemberRows]]
    <3>1. member \in [EventIds -> [Users -> MemberRows]]
      BY DEF EventsTyped, EventsTypeOK
    <3>2. CASE UNCHANGED member
      BY <3>1, <3>2
    <3>3. ASSUME office[r].e \in EventIds, office[r].u \in Users, MemberWritten(r) \in MemberRows,
                 member' = [member EXCEPT ![office[r].e] =
                            [member[office[r].e] EXCEPT ![office[r].u] = MemberWritten(r)]]
          PROVE  member' \in [EventIds -> [Users -> MemberRows]]
      <4>1. [member[office[r].e] EXCEPT ![office[r].u] = MemberWritten(r)] \in [Users -> MemberRows]
        BY <3>1, <3>3
      <4> QED
        BY <3>1, <3>3, <4>1
    <3> QED
      BY <1>1, <3>2, <3>3, MemberTable
  <2>4. /\ ftp' \in [EventIds -> Nat]
        /\ sftp' \in [EventIds -> [status : {None, "active", "disabled"}, key : 0 .. MaxKeys]]
        /\ raced' \subseteq {"publish", "add", "change", "ftp"}
    BY <1>1, CredentialTable
  <2>5. EventKnown(office[r])'
    BY <1>1, EventKnownOf
  <2>6. ASSUME NEW d \in Desks \ {r} PROVE EventKnown(office[d])'
    <3>1. EventKnown(office[d]) /\ office[d].e \in EventIds
      BY DEF EventsTyped, EventsTypeOK, OfficeRows
    <3>2. /\ office'[d].pc = office[d].pc /\ office'[d].e = office[d].e
          /\ office'[d].role = office[d].role /\ office'[d].split = office[d].split
          /\ office'[d].slug = office[d].slug
      BY <2>1 DEF OneDeskMoves
    <3> QED
      BY <2>2, <3>1, <3>2 DEF EventKnown
  <2> QED
    BY <2>1, <2>2, <2>3, <2>4, <2>5, <2>6 DEF EventsTyped, EventsTypeOK, EventTable, OneDeskMoves
<1>2. CASE RemoveMember
  <2>1. PICK e \in EventIds, u \in Users : member' = [member EXCEPT ![e][u] = [role |-> None, split |-> 0]]
    BY <1>2 DEF RemoveMember
  <2>2. [role |-> None, split |-> 0] \in MemberRows
    BY DEF MemberRows
  <2>3. member' \in [EventIds -> [Users -> MemberRows]]
    BY <2>1, <2>2 DEF EventsTyped, EventsTypeOK
  <2> QED
    BY <1>2, <2>3 DEF RemoveMember, EventsTyped, EventsTypeOK, SlugsKnown, EventKnown, Exists
<1>3. CASE RotateSftp \/ DisableSftp
  <2>1. sftp' \in [EventIds -> [status : {None, "active", "disabled"}, key : 0 .. MaxKeys]]
    <3>1. sftp \in [EventIds -> [status : {None, "active", "disabled"}, key : 0 .. MaxKeys]]
          /\ MaxKeys \in Nat
      BY EventsAssumption DEF EventsTyped, EventsTypeOK
    <3>2. CASE RotateSftp
      <4>1. PICK e \in EventIds : /\ sftp[e].key \in 1 .. MaxKeys - 1
                                 /\ sftp' = [sftp EXCEPT ![e] = [status |-> "active", key |-> @.key + 1]]
        BY <3>2 DEF RotateSftp
      <4>2. [status |-> "active", key |-> sftp[e].key + 1] \in
              [status : {None, "active", "disabled"}, key : 0 .. MaxKeys]
        BY <3>1, <4>1
      <4> QED
        BY <3>1, <4>1, <4>2
    <3>3. CASE DisableSftp
      BY <3>1, <3>3 DEF DisableSftp
    <3> QED
      BY <1>3, <3>2, <3>3
  <2> QED
    BY <1>3, <2>1 DEF RotateSftp, DisableSftp, EventsTyped, EventsTypeOK, SlugsKnown, EventKnown, Exists
<1>4. CASE UNCHANGED eventVars
  BY <1>4 DEF eventVars, EventsTyped, EventsTypeOK, SlugsKnown, EventKnown, Exists
<1> QED
  BY <1>1, <1>2, <1>3, <1>4 DEF EventsNext

(* Credentials: a rotation that nobody overtook finds none that is not revoked. *)
LEMMA CredentialsKept ==
  ASSUME EventsTyped, CredentialsInv, [EventsNext]_eventVars
  PROVE  CredentialsInv'
<1>0. ftp \in [EventIds -> Nat] /\ EventsTypeOK
  BY DEF EventsTyped, EventsTypeOK
<1>1. ASSUME NEW r \in Desks, RotateFtpCredential(r)
      PROVE  CredentialsInv'
  <2>1. PICK e \in EventIds : OfficeBegins(r, "ftp", e) /\ ftp' = [ftp EXCEPT ![e] = 0]
    BY <1>1 DEF RotateFtpCredential
  <2>2. "ftp" \in Begun
    BY DEF Begun
  <2>3. office'[r].e = e /\ \A d \in Desks \ {r} : office'[d] = office[d]
    BY <1>0, <2>1, <2>2, DeskBegins
  <2>4. ftp'[e] = 0 /\ \A f \in EventIds : ftp'[f] = 0 \/ ftp'[f] = ftp[f]
    BY <1>0, <2>1
  <2>5. raced' = raced
    BY <1>1 DEF RotateFtpCredential
  <2>6. \A d \in Desks : CredentialsKnown(office[d])'
    BY <1>0, <2>3, <2>4 DEF CredentialsInv, CredentialsKnown, EventsTypeOK, OfficeRows
  <2> QED
    BY <1>0, <2>4, <2>5, <2>6 DEF CredentialsInv
<1>2. ASSUME NEW r \in Desks, InsertCredential(r)
      PROVE  CredentialsInv'
  <2> DEFINE e == office[r].e
  <2>1. /\ OneDeskMoves(r) /\ office'[r] = OfficeIdle
        /\ \A d \in Desks \ {r} : office[d].pc = "ftp" /\ office[d].e = e => office'[d].stale
    BY <1>0, <1>2, DeskOver DEF InsertCredential
  <2>2. e \in EventIds /\ office[r].pc = "ftp" /\ CredentialsKnown(office[r])
    BY <1>0, <1>2 DEF InsertCredential, OfficeAt, CredentialsInv, EventsTypeOK, OfficeRows
  <2>3. ftp'[e] = ftp[e] + 1 /\ \A f \in EventIds \ {e} : ftp'[f] = ftp[f]
    BY <1>0, <1>2, <2>2 DEF InsertCredential
  <2>4. \A d \in Desks : CredentialsKnown(office[d])'
    <3>1. CredentialsKnown(office[r])'
      BY <2>1, OfficeIdleTyped DEF CredentialsKnown
    <3>2. ASSUME NEW d \in Desks \ {r} PROVE CredentialsKnown(office[d])'
      <4>1. /\ office'[d].pc = office[d].pc /\ office'[d].e = office[d].e
            /\ office[d].stale => office'[d].stale
            /\ office[d].e \in EventIds
        BY <1>0, <2>1 DEF OneDeskMoves, EventsTypeOK, OfficeRows
      <4> QED
        BY <2>1, <2>3, <4>1 DEF CredentialsInv, CredentialsKnown
    <3> QED
      BY <3>1, <3>2
  <2>5. ASSUME "ftp" \notin raced', NEW f \in EventIds PROVE ftp'[f] <= 1
    <3>1. raced' = IF office[r].stale THEN raced \cup {"ftp"} ELSE raced
      BY <1>2, <2>2 DEF InsertCredential, Races
    <3>2. ~office[r].stale /\ "ftp" \notin raced
      BY <2>5, <3>1
    <3> QED
      BY <1>0, <2>2, <2>3, <3>2 DEF CredentialsInv, CredentialsKnown
  <2> QED
    BY <2>4, <2>5 DEF CredentialsInv
<1>3. ASSUME NEW r \in Desks, OfficeStep(r), UNCHANGED ftp, office'[r].pc # "ftp", raced \subseteq raced'
      PROVE  CredentialsInv'
  <2>1. OneDeskMoves(r)
    BY <1>3, DeskSteps
  <2>2. \A d \in Desks : CredentialsKnown(office[d])'
    BY <1>3, <2>1 DEF OneDeskMoves, CredentialsInv, CredentialsKnown
  <2> QED
    BY <1>3, <2>2 DEF CredentialsInv
<1>4. ASSUME NEW r \in Desks, OfficeStep(r), ~RotateFtpCredential(r), ~InsertCredential(r)
      PROVE  UNCHANGED ftp /\ office'[r].pc # "ftp" /\ raced \subseteq raced'
  <2>1. UNCHANGED ftp
    BY <1>4, Zenon DEF OfficeStep, CreateEvent, InsertEvent, InsertSettings, UpdateEvent, WriteSlug, PublishEvent,
           WritePublished, ArchiveEvent, WriteArchived, AddMember, InsertMember, UpdateMember,
           WriteMember, ProvisionSftp, InsertAccount, BreakOff
  <2>2. UNCHANGED raced \/ Races(r)
    BY <1>4, Zenon DEF OfficeStep, CreateEvent, InsertEvent, InsertSettings, UpdateEvent, WriteSlug, PublishEvent,
           WritePublished, ArchiveEvent, WriteArchived, AddMember, InsertMember, UpdateMember,
           WriteMember, ProvisionSftp, InsertAccount, BreakOff
  <2>3. raced \subseteq raced'
    BY <2>2 DEF Races
  <2>4. office'[r].pc # "ftp"
    <3>1. CASE \E e \in EventIds, pc \in {"publish", "archive", "sftp"} : OfficeBegins(r, pc, e)
      <4>1. PICK e \in EventIds, pc \in {"publish", "archive", "sftp"} : OfficeBegins(r, pc, e)
        BY <3>1
      <4>2. pc \in Begun /\ pc # "ftp"
        BY <4>1 DEF Begun
      <4> QED
        BY <1>0, <4>1, <4>2, DeskBegins
    <3>2. CASE \E e \in EventIds, s \in Slugs, pc \in {"insert", "rename"} : OfficeBeginsSlug(r, pc, e, s)
      <4>1. PICK e \in EventIds, s \in Slugs, pc \in {"insert", "rename"} : OfficeBeginsSlug(r, pc, e, s)
        BY <3>2
      <4>2. pc \in Begun /\ pc # "ftp"
        BY <4>1 DEF Begun
      <4> QED
        BY <1>0, <4>1, <4>2, DeskBeginsSlug
    <3>3. CASE \E e \in EventIds, u \in Users, role \in GivenRoles \cup {None},
                 split \in Splits \cup {NoSplit}, pc \in {"add", "change"} :
                 OfficeBeginsMember(r, pc, e, u, role, split)
      <4>1. PICK e \in EventIds, u \in Users, role \in GivenRoles \cup {None},
                 split \in Splits \cup {NoSplit}, pc \in {"add", "change"} :
                 OfficeBeginsMember(r, pc, e, u, role, split)
        BY <3>3
      <4>2. pc \in Begun /\ pc # "ftp" /\ role \in MemberRoles \cup {None}
        BY <4>1, EventsAssumption DEF Begun
      <4> QED
        BY <1>0, <4>1, <4>2, DeskBeginsMember DEF BeganMember
    <3>4. CASE office'[r] = OfficeIdle
      BY <3>4, OfficeIdleTyped
    <3>5. CASE office' = [office EXCEPT ![r].pc = "settings"]
      BY <1>0, <3>5 DEF EventsTypeOK, OfficeRows
    <3>6. \/ OfficeReplies(r) \/ (\E pcs : OfficeRepliesOver(r, pcs))
          \/ office' = [office EXCEPT ![r].pc = "settings"]
          \/ CreateEvent(r) \/ UpdateEvent(r) \/ PublishEvent(r) \/ ArchiveEvent(r)
          \/ ProvisionSftp(r) \/ AddMember(r) \/ UpdateMember(r)
      BY <1>4, Zenon DEF OfficeStep, InsertEvent, InsertSettings, WriteSlug, WritePublished, WriteArchived,
             InsertMember, WriteMember, InsertAccount, BreakOff
    <3>7. CASE CreateEvent(r) \/ UpdateEvent(r)
      BY <3>2, <3>7 DEF CreateEvent, UpdateEvent
    <3>8. CASE PublishEvent(r) \/ ArchiveEvent(r) \/ ProvisionSftp(r)
      BY <3>1, <3>8 DEF PublishEvent, ArchiveEvent, ProvisionSftp
    <3>9. CASE AddMember(r) \/ UpdateMember(r)
      BY <3>3, <3>9 DEF AddMember, UpdateMember
    <3> QED
      BY <1>0, <3>4, <3>5, <3>6, <3>7, <3>8, <3>9, DeskReplies, DeskOver
  <2> QED
    BY <2>1, <2>3, <2>4
<1>5. CASE RemoveMember \/ RotateSftp \/ DisableSftp \/ UNCHANGED eventVars
  BY <1>5 DEF RemoveMember, RotateSftp, DisableSftp, eventVars, CredentialsInv, CredentialsKnown
<1> QED
  BY <1>1, <1>2, <1>3, <1>4, <1>5 DEF EventsNext

(* What the model checks is what Fits says. *)
LEMMA SplitFitsTaken ==
  ASSUME EventsTypeOK, NEW e \in EventIds
  PROVE  /\ member[e] \in Rowed /\ Photographers(e) = Takers(member[e])
         /\ \A us \in SUBSET Users : \A role, split :
              SplitFits(e, us, role, split) <=> Fits(member[e], us, role, split)
<1>1. member[e] \in Rowed
  BY DEF EventsTypeOK, Rowed
<1>2. \A us \in SUBSET Users : SplitSum(e, us) = Taken(member[e], us)
  BY SplitSumTaken
<1>3. Photographers(e) = Takers(member[e])
  BY DEF Photographers, Takers
<1> QED
  BY <1>1, <1>2, <1>3 DEF SplitFits, Fits

(* One row more or less is written: the other requests at this event are    *)
(* overtaken, and one that was not itself keeps the sum within 100.          *)
LEMMA SplitsWritten ==
  ASSUME EventsTyped, SplitsInv, NEW r \in Desks, InsertMember(r) \/ WriteMember(r), ~UNCHANGED member,
         office[r].e \in EventIds, office[r].u \in Users, MemberWritten(r) \in MemberRows,
         member' = [member EXCEPT ![office[r].e] =
                            [member[office[r].e] EXCEPT ![office[r].u] = MemberWritten(r)]]
  PROVE  SplitsInv'
<1> DEFINE q == office[r]
           e == office[r].e
           u == office[r].u
           new == MemberWritten(r)
           table == member[e]
           rest == Takers(table) \ {u}
<1>0. EventsTypeOK /\ table \in Rowed /\ q \in OfficeRows /\ EventKnown(q) /\ MembersKnown(q)
  BY DEF EventsTyped, EventsTypeOK, SplitsInv, Rowed
<1>1. /\ member'[e] = [table EXCEPT ![u] = new] /\ \A f \in EventIds \ {e} : member'[f] = member[f]
  BY DEF EventsTyped, EventsTypeOK
<1>2. /\ OfficeRepliesOver(r, {"add", "change"}) /\ Races(r)
      /\ q.pc = "add" \/ (q.pc = "change" /\ table[u].role # None)
  <2>1. CASE InsertMember(r)
    BY <2>1 DEF InsertMember, OfficeAt
  <2>2. CASE WriteMember(r)
    BY <2>2 DEF WriteMember, OfficeAt
  <2> QED
    BY <2>1, <2>2
<1>3. /\ OneDeskMoves(r) /\ office'[r] = OfficeIdle
      /\ \A d \in Desks \ {r} :
              office[d].pc \in {"add", "change"} /\ office[d].e = e => office'[d].stale
  BY <1>0, <1>2, DeskOver
<1>4. Taken(member'[e], Takers(member'[e])) =
        Taken(table, rest) + (IF new.role = "photographer" THEN new.split ELSE 0)
  <2>1. table \in Rowed /\ u \in Users /\ new \in MemberRows /\ member'[e] = [table EXCEPT ![u] = new]
    BY <1>0, <1>1
  <2> HIDE DEF table, u, new
  <2>2. Taken([table EXCEPT ![u] = new], Takers([table EXCEPT ![u] = new])) =
          Taken(table, Takers(table) \ {u}) + (IF new.role = "photographer" THEN new.split ELSE 0)
    BY <2>1, OneRowWritten
  <2> QED
    BY <2>1, <2>2
<1>5. /\ Taken(table, rest) \in Nat /\ Taken(table, Takers(table)) \in Nat
      /\ Taken(table, rest) <= Taken(table, Takers(table))
  <2>1. Takers(table) \in SUBSET Users /\ rest \in SUBSET Takers(table)
    BY DEF Takers
  <2> QED
    BY <1>0, <2>1, TakenLess
<1>6. new.split \in Nat
  BY DEF MemberRows
<1>7. ASSUME raced' \cap {"add", "change"} = {} PROVE Taken(member'[e], Takers(member'[e])) <= 100
  <2>1. raced' = IF q.stale THEN raced \cup {q.pc} ELSE raced
    BY <1>2 DEF Races
  <2>2. ~q.stale /\ raced \cap {"add", "change"} = {}
    BY <1>2, <1>7, <2>1
  <2>3. Taken(table, Takers(table)) <= 100
    BY <2>2 DEF SplitsInv
  <2>4. ASSUME new.role = "photographer", new.split > 0
        PROVE  Taken(table, rest) + new.split <= 100
    <3>1. CASE q.pc = "add"
      <4>1. Fits(table, Takers(table), q.role, q.split) /\ new.role = q.role /\ new.split = q.split
        BY <1>0, <2>2, <3>1 DEF MembersKnown, MemberWritten
      <4> QED
        BY <1>5, <1>6, <2>4, <4>1 DEF Fits
    <3>2. CASE q.pc = "change" /\ table[u].role # None
      <4>1. /\ Fits(table, rest, Given(q.role, None, table[u].role), Given(q.split, NoSplit, table[u].split))
            /\ new.role = Given(q.role, None, table[u].role)
            /\ new.split = Given(q.split, NoSplit, table[u].split)
        BY <1>0, <2>2, <3>2 DEF MembersKnown, MemberWritten
      <4> QED
        BY <2>4, <4>1 DEF Fits
    <3> QED
      BY <1>2, <3>1, <3>2
  <2> HIDE DEF new, rest, table
  <2>5. CASE new.role = "photographer" /\ new.split > 0
    BY <1>4, <2>4, <2>5
  <2>6. CASE new.role # "photographer" \/ new.split = 0
    <3>1. Taken(member'[e], Takers(member'[e])) = Taken(table, rest)
      BY <1>4, <1>5, <2>6
    <3> QED
      BY <3>1, <1>5, <2>3
  <2> QED
    BY <1>6, <2>5, <2>6
<1>8. ASSUME NEW d \in Desks PROVE MembersKnown(office[d])'
  <2>1. CASE d = r
    BY <1>3, <2>1, OfficeIdleTyped DEF MembersKnown
  <2>2. CASE d # r
    <3>1. /\ office'[d].pc = office[d].pc /\ office'[d].e = office[d].e /\ office'[d].u = office[d].u
          /\ office'[d].role = office[d].role /\ office'[d].split = office[d].split
          /\ office[d].stale => office'[d].stale
          /\ office[d].e \in EventIds /\ MembersKnown(office[d])
      BY <1>0, <1>3, <2>2 DEF OneDeskMoves, EventsTypeOK, OfficeRows, SplitsInv
    <3>2. CASE office[d].e = e
      BY <1>3, <2>2, <3>1, <3>2 DEF MembersKnown
    <3>3. CASE office[d].e # e
      <4>1. member'[office[d].e] = member[office[d].e]
        BY <1>1, <3>1, <3>3
      <4> QED
        BY <3>1, <4>1 DEF MembersKnown
    <3> QED
      BY <3>2, <3>3
  <2> QED
    BY <2>1, <2>2
<1>9. raced \subseteq raced'
  BY <1>2 DEF Races
<1>10. ASSUME raced' \cap {"add", "change"} = {}, NEW f \in EventIds
       PROVE  Taken(member'[f], Takers(member'[f])) <= 100
  <2>1. raced \cap {"add", "change"} = {}
    BY <1>9, <1>10
  <2>2. CASE f # e
    <3>1. member'[f] = member[f]
      BY <1>1, <2>2
    <3> QED
      BY <2>1, <3>1 DEF SplitsInv
  <2> QED
    BY <1>7, <1>10, <2>2
<1> QED
  BY <1>8, <1>10 DEF SplitsInv

(* A member is removed, without regard to the requests under way. *)
LEMMA SplitsRemoved ==
  ASSUME EventsTyped, SplitsInv, RemoveMember
  PROVE  SplitsInv'
<1>0. EventsTypeOK /\ member \in [EventIds -> Rowed]
  BY DEF EventsTyped, EventsTypeOK, Rowed
<1>1. PICK e \in EventIds, u \in Users : member' = [member EXCEPT ![e][u] = [role |-> None, split |-> 0]]
  BY DEF RemoveMember
<1> DEFINE table == member[e]
           table2 == [table EXCEPT ![u] = [role |-> None, split |-> 0]]
<1>2. table \in Rowed /\ [role |-> None, split |-> 0] \in MemberRows
      /\ [role |-> None, split |-> 0].role # "photographer"
  BY <1>0 DEF MemberRows, None
<1>3. member'[e] = table2 /\ \A f \in EventIds \ {e} : member'[f] = member[f]
  BY <1>0, <1>1, <1>2
<1>4. table2[u].role = None /\ \A v \in Users \ {u} : table2[v] = table[v]
  BY <1>2 DEF Rowed
<1>5. /\ Takers(table2) = Takers(table) \ {u}
      /\ \A S \in SUBSET (Users \ {u}) : Taken(table2, S) = Taken(table, S)
  BY <1>2, OneRowWritten
<1>6. ASSUME NEW S \in SUBSET Users, NEW T \in SUBSET S, u \notin T
      PROVE  Taken(table2, T) \in Nat /\ Taken(table, S) \in Nat /\ Taken(table2, T) <= Taken(table, S)
  <2>1. Taken(table2, T) = Taken(table, T)
    BY <1>5, <1>6
  <2> HIDE DEF table2, table
  <2> QED
    BY <1>2, <1>6, <2>1, TakenLess
<1>7. Takers(table) \in SUBSET Users /\ Takers(table2) \in SUBSET Takers(table) /\ u \notin Takers(table2)
  BY <1>5 DEF Takers
<1> HIDE DEF table2
<1>8. ASSUME NEW d \in Desks PROVE MembersKnown(office[d])'
  <2> DEFINE p == office[d]
  <2>0. office' = office /\ p.e \in EventIds /\ p.u \in Users /\ MembersKnown(p) /\ EventKnown(p)
    BY <1>0 DEF RemoveMember, SplitsInv, EventsTyped, EventsTypeOK, OfficeRows
  <2>1. CASE p.e # e
    BY <1>3, <2>0, <2>1 DEF MembersKnown
  <2>2. CASE p.e = e /\ p.pc = "add"
    <3>1. ASSUME ~p.stale, p.role = "photographer", p.split > 0
          PROVE  Taken(table2, Takers(table2)) + p.split <= 100
      <4>1. Taken(table, Takers(table)) + p.split <= 100
        BY <2>0, <2>2, <3>1 DEF MembersKnown, Fits
      <4>2. p.split \in Nat
        <5>1. p.split \in Splits
          BY <2>0, <2>2 DEF EventKnown
        <5>2. \A x \in Splits : x \in 0 .. 100
          BY EventsAssumption
        <5> HIDE DEF p
        <5> QED
          BY <5>1, <5>2
      <4>3. /\ Taken(table2, Takers(table2)) \in Nat /\ Taken(table, Takers(table)) \in Nat
            /\ Taken(table2, Takers(table2)) <= Taken(table, Takers(table))
        BY <1>6, <1>7
      <4> QED
        BY <4>1, <4>2, <4>3
    <3> QED
      BY <1>3, <2>0, <2>2, <3>1 DEF MembersKnown, Fits
  <2>3. CASE p.e = e /\ p.pc = "change"
    <3> DEFINE role == Given(p.role, None, table[p.u].role)
               split == Given(p.split, NoSplit, table[p.u].split)
    <3>1. ASSUME ~p.stale, table2[p.u].role # None
          PROVE  /\ p.u # u /\ table2[p.u] = table[p.u] /\ Fits(table2, Takers(table2) \ {p.u}, role, split)
      <4>1. p.u # u /\ table2[p.u] = table[p.u]
        BY <1>4, <2>0, <3>1
      <4>2. Fits(table, Takers(table) \ {p.u}, role, split)
        BY <2>0, <2>3, <3>1, <4>1 DEF MembersKnown
      <4>3. /\ Taken(table2, Takers(table2) \ {p.u}) \in Nat /\ Taken(table, Takers(table) \ {p.u}) \in Nat
            /\ Taken(table2, Takers(table2) \ {p.u}) <= Taken(table, Takers(table) \ {p.u})
        <5>1. Takers(table) \ {p.u} \in SUBSET Users
              /\ Takers(table2) \ {p.u} \in SUBSET (Takers(table) \ {p.u})
              /\ u \notin Takers(table2) \ {p.u}
          BY <1>7
        <5> QED
          BY <1>6, <5>1
      <4>4. split \in Int
        <5>1. table[p.u].split \in 0 .. 100 /\ p.split \in Splits \cup {NoSplit}
          BY <1>0, <1>2, <2>0 DEF Rowed, MemberRows, EventsTypeOK, OfficeRows
        <5>2. \A x \in Splits : x \in 0 .. 100
          BY EventsAssumption
        <5>3. p.split = NoSplit => split = table[p.u].split
          BY DEF Given
        <5>4. p.split # NoSplit => split = p.split
          BY DEF Given
        <5> HIDE DEF split, table
        <5> QED
          BY <5>1, <5>2, <5>3, <5>4
      <4> HIDE DEF role, split, table
      <4> QED
        BY <4>1, <4>2, <4>3, <4>4 DEF Fits
    <3> QED
      BY <1>3, <2>0, <2>3, <3>1 DEF MembersKnown
  <2>4. CASE p.pc \notin {"add", "change"}
    BY <2>0, <2>4 DEF MembersKnown
  <2> QED
    BY <2>1, <2>2, <2>3, <2>4
<1>9. ASSUME raced' \cap {"add", "change"} = {}, NEW f \in EventIds
      PROVE  Taken(member'[f], Takers(member'[f])) <= 100
  <2>1. Taken(member[f], Takers(member[f])) <= 100
    BY <1>9 DEF RemoveMember, SplitsInv
  <2>2. CASE f # e
    BY <1>3, <2>1, <2>2
  <2>3. CASE f = e
    <3>1. /\ Taken(table2, Takers(table2)) \in Nat /\ Taken(table, Takers(table)) \in Nat
          /\ Taken(table2, Takers(table2)) <= Taken(table, Takers(table))
      BY <1>6, <1>7
    <3> QED
      BY <1>3, <2>1, <2>3, <3>1
  <2> QED
    BY <2>2, <2>3
<1> QED
  BY <1>8, <1>9 DEF SplitsInv

(* Steps that write no member. *)
LEMMA SplitsSame ==
  ASSUME EventsTyped, SplitsInv, NEW r \in Desks, OneDeskMoves(r), UNCHANGED member, raced \subseteq raced',
         MembersKnown(office[r])'
  PROVE  SplitsInv'
<1>1. ASSUME NEW d \in Desks \ {r} PROVE MembersKnown(office[d])'
  <2>1. /\ office'[d].pc = office[d].pc /\ office'[d].e = office[d].e /\ office'[d].u = office[d].u
        /\ office'[d].role = office[d].role /\ office'[d].split = office[d].split
        /\ office[d].stale => office'[d].stale
    BY DEF OneDeskMoves
  <2>2. MembersKnown(office[d]) /\ member' = member
    BY DEF SplitsInv
  <2> QED
    BY <2>1, <2>2 DEF MembersKnown
<1>2. ASSUME raced' \cap {"add", "change"} = {}, NEW f \in EventIds
      PROVE  Taken(member'[f], Takers(member'[f])) <= 100
  BY <1>2 DEF SplitsInv
<1> QED
  BY <1>1, <1>2 DEF SplitsInv

(* A request for a split begins with what was read of the others. *)
LEMMA SplitsBegun ==
  ASSUME EventsTyped, SplitsInv, NEW r \in Desks, AddMember(r) \/ UpdateMember(r)
  PROVE  SplitsInv'
<1>0. EventsTypeOK /\ UNCHANGED <<member, raced>>
  BY DEF EventsTyped, AddMember, UpdateMember
<1>1. CASE AddMember(r)
  <2>1. PICK e \in EventIds, u \in Users, role \in GivenRoles, split \in Splits :
          SplitFits(e, Photographers(e), role, split) /\ OfficeBeginsMember(r, "add", e, u, role, split)
    BY <1>1 DEF AddMember
  <2>2. "add" \in Begun /\ role \in MemberRoles \cup {None} /\ split \in Splits \cup {NoSplit}
    BY EventsAssumption DEF Begun
  <2>3. OneDeskMoves(r)
    BY <1>0, <2>1, <2>2, DeskBeginsMember
  <2>4. BeganMember(r, "add", e, u, role, split)
    BY <1>0, <2>1, <2>2, DeskBeginsMember
  <2>5. /\ office'[r].pc = "add" /\ office'[r].e = e /\ office'[r].u = u
        /\ office'[r].role = role /\ office'[r].split = split
    BY <2>4 DEF BeganMember
  <2>6. Fits(member[e], Takers(member[e]), role, split)
    <3>1. Takers(member[e]) \in SUBSET Users
      BY DEF Takers
    <3> QED
      BY <1>0, <2>1, <3>1, SplitFitsTaken
  <2>7. MembersKnown(office[r])'
    BY <1>0, <2>4, <2>5, <2>6 DEF MembersKnown
  <2> QED
    BY <1>0, <2>3, <2>7, SplitsSame
<1>2. CASE UpdateMember(r)
  <2>1. PICK e \in EventIds, u \in Users, role \in GivenRoles \cup {None}, split \in Splits \cup {NoSplit} :
          /\ SplitFits(e, Photographers(e) \ {u}, Given(role, None, member[e][u].role),
                       Given(split, NoSplit, member[e][u].split))
          /\ OfficeBeginsMember(r, "change", e, u, role, split)
    BY <1>2 DEF UpdateMember
  <2>2. "change" \in Begun /\ role \in MemberRoles \cup {None}
    BY EventsAssumption DEF Begun
  <2>3. OneDeskMoves(r)
    BY <1>0, <2>1, <2>2, DeskBeginsMember
  <2>4. BeganMember(r, "change", e, u, role, split)
    BY <1>0, <2>1, <2>2, DeskBeginsMember
  <2>5. /\ office'[r].pc = "change" /\ office'[r].e = e /\ office'[r].u = u
        /\ office'[r].role = role /\ office'[r].split = split
    BY <2>4 DEF BeganMember
  <2>6. Fits(member[e], Takers(member[e]) \ {u}, Given(role, None, member[e][u].role),
             Given(split, NoSplit, member[e][u].split))
    <3>1. Takers(member[e]) \ {u} \in SUBSET Users
      BY DEF Takers
    <3> QED
      BY <1>0, <2>1, <3>1, SplitFitsTaken
  <2>7. MembersKnown(office[r])'
    BY <1>0, <2>4, <2>5, <2>6 DEF MembersKnown
  <2> QED
    BY <1>0, <2>3, <2>7, SplitsSame
<1> QED
  BY <1>1, <1>2

(* A step that begins neither leaves a request that knows nothing of splits. *)
LEMMA OtherThanSplits ==
  ASSUME EventsTyped, NEW r \in Desks, OfficeStep(r), ~AddMember(r), ~UpdateMember(r)
  PROVE  office'[r].pc \notin {"add", "change"}
<1>0. EventsTypeOK
  BY DEF EventsTyped
<1>1. CASE \E e \in EventIds, pc \in {"publish", "archive", "sftp", "ftp"} : OfficeBegins(r, pc, e)
  <2>1. PICK e \in EventIds, pc \in {"publish", "archive", "sftp", "ftp"} : OfficeBegins(r, pc, e)
    BY <1>1
  <2>2. pc \in Begun /\ pc \notin {"add", "change"}
    BY <2>1 DEF Begun
  <2> QED
    BY <1>0, <2>1, <2>2, DeskBegins
<1>2. CASE \E e \in EventIds, s \in Slugs, pc \in {"insert", "rename"} : OfficeBeginsSlug(r, pc, e, s)
  <2>1. PICK e \in EventIds, s \in Slugs, pc \in {"insert", "rename"} : OfficeBeginsSlug(r, pc, e, s)
    BY <1>2
  <2>2. pc \in Begun /\ pc \notin {"add", "change"}
    BY <2>1 DEF Begun
  <2> QED
    BY <1>0, <2>1, <2>2, DeskBeginsSlug
<1>3. CASE office'[r] = OfficeIdle
  BY <1>3, OfficeIdleTyped
<1>4. CASE office' = [office EXCEPT ![r].pc = "settings"]
  BY <1>0, <1>4 DEF EventsTypeOK, OfficeRows
<1>5. \/ OfficeReplies(r) \/ (\E pcs : OfficeRepliesOver(r, pcs))
      \/ office' = [office EXCEPT ![r].pc = "settings"]
      \/ CreateEvent(r) \/ UpdateEvent(r) \/ PublishEvent(r) \/ ArchiveEvent(r)
      \/ ProvisionSftp(r) \/ RotateFtpCredential(r)
  BY Zenon DEF OfficeStep, InsertEvent, InsertSettings, WriteSlug, WritePublished, WriteArchived,
         InsertMember, WriteMember, InsertAccount, InsertCredential, BreakOff
<1>6. CASE CreateEvent(r) \/ UpdateEvent(r)
  BY <1>2, <1>6 DEF CreateEvent, UpdateEvent
<1>7. CASE PublishEvent(r) \/ ArchiveEvent(r) \/ ProvisionSftp(r) \/ RotateFtpCredential(r)
  BY <1>1, <1>7 DEF PublishEvent, ArchiveEvent, ProvisionSftp, RotateFtpCredential
<1> QED
  BY <1>0, <1>3, <1>4, <1>5, <1>6, <1>7, DeskReplies, DeskOver

LEMMA SplitsKept ==
  ASSUME EventsTyped, SplitsInv, [EventsNext]_eventVars
  PROVE  SplitsInv'
<1>1. ASSUME NEW r \in Desks, OfficeStep(r)
      PROVE  SplitsInv'
  <2>1. CASE AddMember(r) \/ UpdateMember(r)
    BY <2>1, SplitsBegun
  <2>2. CASE ~AddMember(r) /\ ~UpdateMember(r) /\ UNCHANGED member
    <3>1. MembersKnown(office[r])'
      BY <1>1, <2>2, OtherThanSplits DEF MembersKnown
    <3>2. UNCHANGED raced \/ Races(r)
      BY <1>1, Zenon DEF OfficeStep, CreateEvent, InsertEvent, InsertSettings, UpdateEvent, WriteSlug,
             PublishEvent, WritePublished, ArchiveEvent, WriteArchived, AddMember, InsertMember,
             UpdateMember, WriteMember, RotateFtpCredential, InsertCredential, ProvisionSftp,
             InsertAccount, BreakOff
    <3>3. raced \subseteq raced'
      BY <3>2 DEF Races
    <3> QED
      BY <1>1, <2>2, <3>1, <3>3, DeskSteps, SplitsSame
  <2>3. CASE ~UNCHANGED member
    BY <1>1, <2>3, MemberTable, SplitsWritten
  <2> QED
    BY <2>1, <2>2, <2>3
<1>2. CASE RotateSftp \/ DisableSftp \/ UNCHANGED eventVars
  <2>1. UNCHANGED <<member, office, raced>>
    BY <1>2 DEF RotateSftp, DisableSftp, eventVars
  <2>2. \A d \in Desks : MembersKnown(office[d])'
    BY <2>1 DEF SplitsInv, MembersKnown
  <2> QED
    BY <2>1, <2>2 DEF SplitsInv
<1> QED
  BY <1>1, <1>2, SplitsRemoved DEF EventsNext

LEMMA EventsInvInit == EventsInit => EventsInv
<1> SUFFICES ASSUME EventsInit PROVE EventsInv
  OBVIOUS
<1>1. \A r \in Desks : office[r] = OfficeIdle
  BY DEF EventsInit
<1>2. EventsTypeOK
  <2>1. event \in [EventIds -> EventRows] /\ \A e \in EventIds : ~Exists(e)
    BY DEF EventsInit, EventRows, Exists
  <2>2. member \in [EventIds -> [Users -> MemberRows]]
    BY DEF EventsInit, MemberRows
  <2>3. sftp \in [EventIds -> [status : {None, "active", "disabled"}, key : 0 .. MaxKeys]]
    BY EventsAssumption DEF EventsInit
  <2> QED
    BY <2>1, <2>2, <2>3, OfficeIdleTyped DEF EventsInit, EventsTypeOK
<1>3. EventsTyped
  BY <1>1, <1>2, OfficeIdleTyped DEF EventsInit, EventsTyped, SlugsKnown, EventKnown, Exists
<1>4. ASSUME NEW e \in EventIds PROVE Taken(member[e], Takers(member[e])) = 0
  <2>1. Takers(member[e]) = {}
    BY DEF EventsInit, Takers, None
  <2> QED
    BY <2>1, SumEmpty DEF Taken
<1>5. SplitsInv
  BY <1>1, <1>4, OfficeIdleTyped DEF SplitsInv, MembersKnown
<1>6. CredentialsInv
  BY <1>1, OfficeIdleTyped DEF EventsInit, CredentialsInv, CredentialsKnown
<1> QED
  BY <1>3, <1>5, <1>6 DEF EventsInv

(* EventsInv holds in every reachable state: what a request under way read   *)
(* of the event still holds when it writes, unless it was overtaken.         *)
THEOREM EventsInductive == EventsSpec => []EventsInv
<1>1. EventsInv /\ [EventsNext]_eventVars => EventsInv'
  BY EventsTypedKept, SplitsKept, CredentialsKept DEF EventsInv
<1> QED
  BY <1>1, EventsInvInit, PTL DEF EventsSpec

(* Every variable of the event model keeps its type, and no two events that  *)
(* exist have one slug (services/events.ts).                                 *)
THEOREM EventsTypeCorrect == EventsSpec => []EventsTypeOK
<1>1. EventsInv => EventsTypeOK
  BY DEF EventsInv, EventsTyped
<1> QED
  BY <1>1, EventsInductive, PTL

(* No sequence of members added, changed and removed takes the splits of an  *)
(* event over 100 percent, and no sequence of rotations leaves two FTP       *)
(* passwords, unless a write was overtaken (assertSplitPctInvariant,         *)
(* rotateFtpCredential).                                                     *)
THEOREM HoldsUnracedAlways == EventsSpec => []HoldsUnraced
<1>1. ASSUME EventsInv PROVE HoldsUnraced
  <2>1. EventsTypeOK
    BY <1>1 DEF EventsInv, EventsTyped
  <2>2. ASSUME raced \cap {"add", "change"} = {}, NEW e \in EventIds
        PROVE  SplitSum(e, Photographers(e)) <= 100
    <3>1. Photographers(e) \in SUBSET Users /\ Photographers(e) = Takers(member[e])
      BY DEF Photographers, Takers
    <3>2. SplitSum(e, Photographers(e)) = Taken(member[e], Takers(member[e]))
      BY <2>1, <3>1, SplitSumTaken
    <3> QED
      BY <1>1, <2>2, <3>2 DEF EventsInv, SplitsInv
  <2>3. SplitWithin100
    BY <2>2 DEF SplitWithin100
  <2>4. OneCredential
    BY <1>1 DEF EventsInv, CredentialsInv, OneCredential
  <2> QED
    BY <2>3, <2>4 DEF HoldsUnraced
<1> QED
  BY <1>1, EventsInductive, PTL

(***************************************************************************)
(* Timing: what the sweep pulls and what a roster brings.                  *)
(***************************************************************************)
(* A crossing of the bound race that the sweep may not skip, and one that is *)
(* stored.                                                                   *)
FinishOwed(b) == <<binding.race, b>> \in published \ excused
FinishKept(b) == finishes[b] = <<binding.race, crossed[binding.race][b]>>

(* A sweep works with the stamp it read; while it works on a race that is    *)
(* not bound any more nothing is owed of the one that is, and what it has    *)
(* pulled and not yet written is still to do.                                *)
FinishInv ==
  /\ \A c \in published : crossed[c[1]][c[2]] > 0
  /\ sync.pc = "results" => \A b \in sync.todo : <<sync.race, b>> \in published
  /\ sync.pc # "idle" => sync.since = binding.since
  /\ sync.pc # "idle" /\ sync.race # binding.race => \A b \in Bibs : ~FinishOwed(b)
  /\ sync.pc = "results" /\ sync.race = binding.race =>
       \A b \in Bibs : FinishOwed(b) =>
         b \in sync.todo \/ FinishKept(b) \/ crossed[binding.race][b] < binding.since

(* What a commit of a roster has inserted is there. *)
RosterInv ==
  \A k \in Clerks : commits[k].pc = "insert" =>
    /\ roster.status # "none" /\ commits[k].todo \subseteq Listed(roster.rows)
    /\ \A b \in Listed(roster.rows) \ commits[k].todo : people[b] # "none"

TimingInv ==
  TimingTypeOK /\ FinishInv /\ FinishesStored /\ RosterInv /\ RosterStored

LEMMA AnyRaceTyped == AnyRace \in RaceIds /\ 0 \in 0 .. MaxTime /\ Nobody \in Entries
BY TimingAssumption DEF AnyRace, Nobody, Entries

LEMMA IdleTyped == Idle \in Sync /\ Idle.pc = "idle"
BY AnyRaceTyped DEF Idle, Sync

(* The rows of a file that count are entries. *)
LEMMA ValidRowsTyped ==
  ASSUME NEW csv \in Csvs
  PROVE  ValidRows(csv) \in Entries
<1> DEFINE good(b) == {i \in DOMAIN csv : csv[i].bib = b /\ csv[i].kind # "bad"}
           first(b) == CHOOSE i \in good(b) : \A j \in good(b) : i <= j
<1>1. DOMAIN csv \subseteq 1 .. 2 /\ \A i \in DOMAIN csv : csv[i] \in CsvRows
  BY DEF Csvs
<1>2. ASSUME NEW b \in Bibs, good(b) # {}
      PROVE  csv[first(b)].kind \in {"plain", "email"}
  <2>1. \E i \in good(b) : \A j \in good(b) : i <= j
    <3>1. good(b) \subseteq {1, 2}
      BY <1>1
    <3> HIDE DEF good
    <3> QED
      BY <1>2, <3>1
  <2>2. first(b) \in good(b)
    <3> HIDE DEF good
    <3> QED
      BY <2>1
  <2> QED
    BY <1>1, <2>2 DEF CsvRows
<1>3. ValidRows(csv) = [b \in Bibs |-> IF good(b) = {} THEN "none" ELSE csv[first(b)].kind]
  BY DEF ValidRows
<1> HIDE DEF good, first
<1> QED
  BY <1>2, <1>3 DEF Entries

(* Every variable keeps its type. *)
LEMMA TimingTyped ==
  ASSUME TimingTypeOK, FinishInv, [TimingNext]_timingVars
  PROVE  TimingTypeOK'
<1> USE DEF TimingTypeOK
<1>0. MaxTime \in Nat \ {0}
  BY TimingAssumption
<1>1. CASE TimePasses
  BY <1>0, <1>1 DEF TimePasses
<1>2. ASSUME NEW r \in RaceIds, NEW b \in Bibs, Cross(r, b) PROVE TimingTypeOK'
  <2>1. time \in 0 .. MaxTime
    BY <1>0
  <2>2. crossed' \in [RaceIds -> [Bibs -> 0 .. MaxTime]]
    BY <1>2, <2>1 DEF Cross
  <2> QED
    BY <1>2, <2>2 DEF Cross
<1>3. ASSUME NEW r \in RaceIds, NEW b \in Bibs, Publish(r, b) PROVE TimingTypeOK'
  BY <1>3 DEF Publish
<1>4. ASSUME NEW r \in RaceIds, BindTimingProvider(r) PROVE TimingTypeOK'
  <2>1. binding' \in Binding
    BY <1>4 DEF BindTimingProvider, Binding
  <2> QED
    BY <1>4, <2>1 DEF BindTimingProvider
<1>5. CASE StartSync \/ PullRoster \/ RosterDone
  <2>1. sync' \in Sync
    BY <1>5 DEF StartSync, PullRoster, RosterDone, Sync, Binding
  <2> QED
    BY <1>5, <2>1 DEF StartSync, PullRoster, RosterDone
<1>6. CASE PullFinishEvents
  <2> DEFINE todo == {b \in Bibs : <<sync.race, b>> \in published /\ crossed[sync.race][b] >= sync.since}
  <2>1. todo \in SUBSET Bibs /\ sync' = [sync EXCEPT !.pc = "results", !.todo = todo]
    BY <1>6 DEF PullFinishEvents
  <2> HIDE DEF todo
  <2>2. sync' \in Sync
    BY <2>1 DEF Sync
  <2> QED
    BY <1>6, <2>2 DEF PullFinishEvents
<1>7. CASE Stamp
  <2>1. binding' \in Binding
    <3>1. time \in 0 .. MaxTime
      BY <1>0
    <3> QED
      BY <1>7, <3>1 DEF Stamp, Binding
  <2> QED
    BY <1>7, <2>1, IdleTyped DEF Stamp
<1>8. CASE RecordError
  BY <1>8, IdleTyped DEF RecordError
<1>9. ASSUME NEW b \in Bibs, UpsertParticipant(b) PROVE TimingTypeOK'
  <2>1. people' \in Entries
    BY <1>9 DEF UpsertParticipant, Entries
  <2>2. [sync.entries EXCEPT ![b] = "none"] \in Entries
    BY DEF Sync, Entries
  <2>3. sync' = [sync EXCEPT !.entries = [sync.entries EXCEPT ![b] = "none"]]
    BY <1>9 DEF UpsertParticipant, Sync
  <2>4. sync' \in Sync
    BY <2>2, <2>3 DEF Sync
  <2> QED
    BY <1>9, <2>1, <2>4 DEF UpsertParticipant
<1>10. ASSUME NEW b \in Bibs, UpsertFinish(b) PROVE TimingTypeOK'
  <2>1. crossed[sync.race][b] \in 1 .. MaxTime /\ sync.race \in RaceIds
    <3>1. crossed[sync.race][b] > 0
      BY <1>10 DEF UpsertFinish, FinishInv
    <3>2. sync.race \in RaceIds
      BY DEF Sync
    <3>3. crossed[sync.race][b] \in 0 .. MaxTime
      BY <3>2
    <3> QED
      BY <1>0, <3>1, <3>2, <3>3
  <2>2. finishes' \in [Bibs -> Finish]
    BY <1>10, <2>1 DEF UpsertFinish, Finish
  <2>3. sync' \in Sync
    BY <1>10 DEF UpsertFinish, Sync
  <2> QED
    BY <1>10, <2>2, <2>3 DEF UpsertFinish
<1>11. ASSUME NEW csv \in Csvs, PreviewRoster(csv) PROVE TimingTypeOK'
  BY <1>11, ValidRowsTyped DEF PreviewRoster, RosterRow
<1>12. ASSUME NEW k \in Clerks, CommitRoster(k) \/ MarkImported(k) \/ CommitDies(k) PROVE TimingTypeOK'
  <2>1. commits' \in [Clerks -> Commit]
    BY <1>12 DEF CommitRoster, MarkImported, CommitDies, Commit, Listed
  <2>2. roster' \in RosterRow
    BY <1>12 DEF CommitRoster, MarkImported, CommitDies, RosterRow
  <2> QED
    BY <1>12, <2>1, <2>2 DEF CommitRoster, MarkImported, CommitDies
<1>13. ASSUME NEW k \in Clerks, NEW b \in Bibs, InsertParticipant(k, b) PROVE TimingTypeOK'
  <2>1. [commits[k] EXCEPT !.todo = commits[k].todo \ {b}] \in Commit
    BY DEF Commit
  <2>2. commits' = [commits EXCEPT ![k] = [commits[k] EXCEPT !.todo = commits[k].todo \ {b}]]
    BY <1>13 DEF InsertParticipant
  <2>3. people' \in Entries
    <3>1. roster.rows \in Entries
      BY DEF RosterRow
    <3> QED
      BY <1>13, <3>1 DEF InsertParticipant, Entries
  <2> QED
    BY <1>13, <2>1, <2>2, <2>3 DEF InsertParticipant
<1>14. CASE UNCHANGED timingVars
  BY <1>14 DEF timingVars
<1> QED
  BY <1>1, <1>2, <1>3, <1>4, <1>5, <1>6, <1>7, <1>8, <1>9, <1>10, <1>11, <1>12, <1>13, <1>14
  DEF TimingNext, ProviderNext, RunTimingSync, RosterNext

(* Crossings, and what a rebind does. *)
LEMMA ProviderKeeps ==
  ASSUME TimingTypeOK, FinishInv, FinishesStored,
         ProviderNext \/ \E r \in RaceIds : BindTimingProvider(r)
  PROVE  FinishInv' /\ FinishesStored'
<1>0. /\ binding.race \in RaceIds /\ sync.race \in RaceIds /\ binding.since \in Nat /\ sync.since \in Nat
      /\ \A r \in RaceIds, b \in Bibs : crossed[r][b] \in Nat
      /\ published \subseteq RaceIds \X Bibs /\ time \in Nat \ {0}
  BY TimingAssumption DEF TimingTypeOK, Binding, Sync
<1>1. CASE TimePasses
  BY <1>1 DEF TimePasses, FinishInv, FinishesStored, FinishOwed, FinishKept
<1>2. ASSUME NEW r \in RaceIds, NEW c \in Bibs, Cross(r, c) PROVE FinishInv' /\ FinishesStored'
  <2>1. \A p \in published : crossed'[p[1]][p[2]] = crossed[p[1]][p[2]]
    BY <1>0, <1>2 DEF Cross, TimingTypeOK, FinishInv
  <2>2. \A s \in RaceIds, b \in Bibs : <<s, b>> \in published => crossed'[s][b] = crossed[s][b]
    BY <2>1
  <2> QED
    BY <1>0, <1>2, <2>1, <2>2 DEF Cross, FinishInv, FinishesStored, FinishOwed, FinishKept
<1>3. ASSUME NEW r \in RaceIds, NEW c \in Bibs, Publish(r, c) PROVE FinishInv' /\ FinishesStored'
  <2>1. /\ published' = published \cup {<<r, c>>} /\ crossed[r][c] > 0
        /\ excused' = IF Skippable(r, c) THEN excused \cup {<<r, c>>} ELSE excused
        /\ UNCHANGED <<time, crossed, binding, sync, finishes>>
    BY <1>3 DEF Publish
  <2>2. \A b \in Bibs : FinishOwed(b)' => FinishOwed(b) \/ (r = binding.race /\ b = c /\ ~Skippable(r, c))
    BY <2>1 DEF FinishOwed
  <2>3. ~Skippable(r, c) => /\ crossed[r][c] >= binding.since
                            /\ sync.pc = "idle" \/ (sync.race = r /\ sync.pc # "results")
    BY <1>0 DEF Skippable
  <2>4. FinishInv'
    <3>1. \A p \in published' : crossed'[p[1]][p[2]] > 0
      BY <2>1 DEF FinishInv
    <3>2. sync'.pc = "results" => \A b \in sync'.todo : <<sync'.race, b>> \in published'
      BY <2>1 DEF FinishInv
    <3>3. sync'.pc # "idle" /\ sync'.race # binding'.race => \A b \in Bibs : ~FinishOwed(b)'
      BY <2>1, <2>2, <2>3 DEF FinishInv
    <3>4. sync'.pc = "results" /\ sync'.race = binding'.race =>
           \A b \in Bibs : FinishOwed(b)' =>
             b \in sync'.todo \/ FinishKept(b)' \/ crossed'[binding'.race][b] < binding'.since
      BY <2>1, <2>2, <2>3 DEF FinishInv, FinishKept
    <3> QED
      BY <2>1, <3>1, <3>2, <3>3, <3>4 DEF FinishInv
  <2>5. FinishesStored'
    <3> SUFFICES ASSUME NEW b \in Bibs, FinishOwed(b)', crossed[binding.race][b] < binding.since
                 PROVE  FinishKept(b)
      BY <2>1 DEF FinishesStored, FinishOwed, FinishKept
    <3>1. FinishOwed(b)
      BY <1>0, <2>2, <2>3
    <3> QED
      BY <3>1 DEF FinishesStored, FinishOwed, FinishKept
  <2> QED
    BY <2>4, <2>5
<1>4. ASSUME NEW r \in RaceIds, BindTimingProvider(r) PROVE FinishInv' /\ FinishesStored'
  <2>1. /\ binding'.race = r /\ binding'.since = binding.since
        /\ UNCHANGED <<time, crossed, published, sync, finishes>>
    BY <1>4 DEF BindTimingProvider, TimingTypeOK, Binding
  <2>2. CASE r = binding.race
    <3>1. excused' = excused
      BY <1>4, <2>2 DEF BindTimingProvider
    <3> QED
      BY <2>1, <2>2, <3>1 DEF FinishInv, FinishesStored, FinishOwed, FinishKept
  <2>3. CASE r # binding.race
    <3>1. excused' = excused \cup {c \in published : c[1] = r /\ (sync.pc # "idle" \/ Skippable(r, c[2]))}
      BY <1>4, <2>3 DEF BindTimingProvider
    <3>2. \A b \in Bibs : FinishOwed(b)' => sync.pc = "idle" /\ ~(crossed[r][b] < binding.since)
      <4> SUFFICES ASSUME NEW b \in Bibs, FinishOwed(b)' PROVE sync.pc = "idle" /\ ~Skippable(r, b)
        BY DEF Skippable
      <4>1. <<r, b>> \in published /\ <<r, b>> \notin excused'
        BY <2>1 DEF FinishOwed
      <4> QED
        BY <3>1, <4>1
    <3> QED
      BY <2>1, <3>2 DEF FinishInv, FinishesStored, FinishOwed, FinishKept
  <2> QED
    BY <2>2, <2>3
<1> QED
  BY <1>1, <1>2, <1>3, <1>4 DEF ProviderNext

(* The sweep, statement by statement. *)
LEMMA SweepKeeps ==
  ASSUME TimingTypeOK, FinishInv, FinishesStored, RunTimingSync
  PROVE  FinishInv' /\ FinishesStored'
<1>0. /\ binding.race \in RaceIds /\ sync.race \in RaceIds /\ binding.since \in Nat /\ sync.since \in Nat
      /\ \A r \in RaceIds, b \in Bibs : crossed[r][b] \in Nat
      /\ published \subseteq RaceIds \X Bibs /\ time \in Nat \ {0}
      /\ sync \in Sync /\ binding \in Binding
  BY TimingAssumption DEF TimingTypeOK, Binding, Sync
<1>1. CASE StartSync \/ PullRoster \/ RosterDone \/ \E b \in Bibs : UpsertParticipant(b)
  <2>1. /\ UNCHANGED <<time, crossed, published, binding, finishes, excused>>
        /\ sync'.pc # "idle" /\ sync'.pc # "results" /\ sync'.since = binding.since
        /\ \/ sync'.race = binding.race
           \/ sync'.race = sync.race /\ sync.pc # "idle"
    <3>1. CASE StartSync
      BY <1>0, <3>1 DEF StartSync, Sync
    <3>2. CASE PullRoster \/ RosterDone
      BY <1>0, <3>2 DEF PullRoster, RosterDone, Sync, FinishInv
    <3>3. ASSUME NEW b \in Bibs, UpsertParticipant(b)
          PROVE  /\ UNCHANGED <<time, crossed, published, binding, finishes, excused>>
                 /\ sync'.pc = sync.pc /\ sync'.since = sync.since /\ sync'.race = sync.race /\ sync.pc = "people"
      <4>1. sync' = [sync EXCEPT !.entries[b] = "none"]
        BY <3>3 DEF UpsertParticipant
      <4> QED
        BY <1>0, <3>3, <4>1 DEF UpsertParticipant, Sync
    <3> QED
      BY <1>1, <3>1, <3>2, <3>3 DEF FinishInv
  <2> QED
    BY <2>1 DEF FinishInv, FinishesStored, FinishOwed, FinishKept
<1>2. CASE PullFinishEvents
  <2> DEFINE todo == {b \in Bibs : <<sync.race, b>> \in published /\ crossed[sync.race][b] >= sync.since}
  <2>1. /\ UNCHANGED <<time, crossed, published, binding, finishes, excused>>
        /\ sync' = [sync EXCEPT !.pc = "results", !.todo = todo] /\ sync.pc = "finishes"
    BY <1>2 DEF PullFinishEvents
  <2> HIDE DEF todo
  <2>2. sync'.pc = "results" /\ sync'.todo = todo /\ sync'.race = sync.race /\ sync'.since = sync.since
    BY <1>0, <2>1 DEF Sync
  <2>3. sync.since = binding.since
    BY <2>1 DEF FinishInv
  <2>4. \A b \in Bibs : sync.race = binding.race /\ FinishOwed(b) =>
          b \in todo \/ crossed[binding.race][b] < binding.since
    BY <1>0, <2>3 DEF todo, FinishOwed
  <2>5. \A b \in todo : b \in Bibs /\ <<sync.race, b>> \in published
    BY DEF todo
  <2> QED
    BY <2>1, <2>2, <2>3, <2>4, <2>5 DEF FinishInv, FinishesStored, FinishOwed, FinishKept
<1>3. ASSUME NEW c \in Bibs, UpsertFinish(c) PROVE FinishInv' /\ FinishesStored'
  <2>1. /\ UNCHANGED <<time, crossed, published, binding, excused>> /\ sync.pc = "results" /\ c \in sync.todo
        /\ finishes'[c] = <<sync.race, crossed[sync.race][c]>>
        /\ \A b \in Bibs \ {c} : finishes'[b] = finishes[b]
    BY <1>3 DEF UpsertFinish, TimingTypeOK
  <2>2. /\ sync'.pc = "results" /\ sync'.race = sync.race /\ sync'.since = sync.since
        /\ sync'.todo = sync.todo \ {c}
    BY <1>0, <1>3, <2>1 DEF UpsertFinish, Sync
  <2>3. CASE sync.race = binding.race
    <3>1. FinishKept(c)' /\ \A b \in Bibs \ {c} : (FinishKept(b)' <=> FinishKept(b))
      BY <2>1, <2>3 DEF FinishKept
    <3>2. \A b \in Bibs : FinishOwed(b)' <=> FinishOwed(b)
      BY <2>1 DEF FinishOwed
    <3>3. FinishesStored'
      BY <2>1, <3>1, <3>2 DEF FinishesStored, FinishOwed, FinishKept
    <3> QED
      BY <2>1, <2>2, <2>3, <3>1, <3>2, <3>3 DEF FinishInv
  <2>4. CASE sync.race # binding.race
    <3>1. \A b \in Bibs : ~FinishOwed(b)
      BY <2>1, <2>4 DEF FinishInv
    <3> QED
      BY <2>1, <2>2, <2>4, <3>1 DEF FinishInv, FinishesStored, FinishOwed
  <2> QED
    BY <2>3, <2>4
<1>4. CASE Stamp
  <2>1. /\ UNCHANGED <<time, crossed, published, finishes, excused>>
        /\ sync.pc = "results" /\ sync.todo = {} /\ sync'.pc = "idle"
        /\ binding'.race = binding.race /\ binding'.since = time
    BY <1>0, <1>4, IdleTyped DEF Stamp, Binding
  <2>2. \A b \in Bibs : FinishOwed(b) => FinishKept(b)
    <3>1. CASE sync.race # binding.race
      BY <2>1, <3>1 DEF FinishInv
    <3>2. CASE sync.race = binding.race
      BY <2>1, <3>2 DEF FinishInv, FinishesStored, FinishOwed, FinishKept
    <3> QED
      BY <3>1, <3>2
  <2> QED
    BY <2>1, <2>2 DEF FinishInv, FinishesStored, FinishOwed, FinishKept
<1>5. CASE RecordError
  BY <1>5, IdleTyped DEF RecordError, FinishInv, FinishesStored, FinishOwed, FinishKept
<1> QED
  BY <1>1, <1>2, <1>3, <1>4, <1>5 DEF RunTimingSync

(* The participants. *)
LEMMA RosterKeeps ==
  ASSUME TimingTypeOK, RosterInv, RosterStored, [TimingNext]_timingVars
  PROVE  RosterInv' /\ RosterStored' /\ EmailsStay
<1>0. people \in Entries /\ commits \in [Clerks -> Commit] /\ roster \in RosterRow
  BY DEF TimingTypeOK
<1>1. CASE UNCHANGED <<people, commits, roster>>
  BY <1>1 DEF RosterInv, RosterStored, EmailsStay
<1>2. ASSUME NEW c \in Bibs, UpsertParticipant(c) PROVE RosterInv' /\ RosterStored' /\ EmailsStay
  <2>1. \A b \in Bibs : /\ people[b] # "none" => people'[b] # "none"
                        /\ people[b] = "email" => people'[b] = "email"
    BY <1>0, <1>2 DEF UpsertParticipant, Entries, Listed
  <2>2. UNCHANGED <<commits, roster>>
    BY <1>2 DEF UpsertParticipant
  <2> QED
    BY <2>1, <2>2 DEF RosterInv, RosterStored, EmailsStay, Listed
<1>3. ASSUME NEW csv \in Csvs, PreviewRoster(csv) PROVE RosterInv' /\ RosterStored' /\ EmailsStay
  BY <1>0, <1>3 DEF PreviewRoster, RosterInv, RosterStored, EmailsStay
<1>4. ASSUME NEW k \in Clerks, CommitRoster(k) PROVE RosterInv' /\ RosterStored' /\ EmailsStay
  BY <1>0, <1>4 DEF CommitRoster, RosterInv, RosterStored, EmailsStay
<1>5. ASSUME NEW k \in Clerks, MarkImported(k) PROVE RosterInv' /\ RosterStored' /\ EmailsStay
  <2>1. /\ commits[k].todo = {} /\ commits[k].pc = "insert" /\ people' = people
        /\ roster' = [roster EXCEPT !.status = "imported"]
        /\ commits' = [commits EXCEPT ![k].pc = "idle"]
    BY <1>5 DEF MarkImported
  <2>2. roster'.rows = roster.rows /\ roster'.status = "imported"
    BY <1>0, <2>1 DEF RosterRow
  <2>3. commits'[k].pc = "idle" /\ \A j \in Clerks \ {k} : commits'[j] = commits[j]
    BY <1>0, <2>1 DEF Commit
  <2> QED
    BY <2>1, <2>2, <2>3 DEF RosterInv, RosterStored, EmailsStay, Listed
<1>6. ASSUME NEW k \in Clerks, CommitDies(k) PROVE RosterInv' /\ RosterStored' /\ EmailsStay
  BY <1>0, <1>6 DEF CommitDies, RosterInv, RosterStored, EmailsStay
<1>7. ASSUME NEW k \in Clerks, NEW c \in Bibs, InsertParticipant(k, c)
      PROVE  RosterInv' /\ RosterStored' /\ EmailsStay
  <2>1. /\ c \in commits[k].todo /\ commits[k].pc = "insert" /\ roster' = roster
        /\ people' = [people EXCEPT ![c] = IF @ = "none" THEN roster.rows[c] ELSE @]
        /\ commits' = [commits EXCEPT ![k].todo = @ \ {c}]
    BY <1>7 DEF InsertParticipant
  <2>2. roster.rows[c] # "none"
    BY <2>1 DEF RosterInv, Listed
  <2>3. /\ people'[c] # "none"
        /\ \A b \in Bibs : /\ people[b] # "none" => people'[b] # "none"
                           /\ people[b] = "email" => people'[b] = "email"
    BY <1>0, <2>1, <2>2 DEF Entries
  <2>4. /\ commits'[k].todo = commits[k].todo \ {c}
        /\ \A j \in Clerks \ {k} : commits'[j] = commits[j]
    BY <1>0, <2>1 DEF Commit
  <2>5. \A b \in Listed(roster.rows) : b \in Bibs
    BY DEF Listed
  <2>6. RosterInv'
    <3>1. ASSUME NEW j \in Clerks, commits'[j].pc = "insert"
          PROVE  /\ roster'.status # "none" /\ commits'[j].todo \subseteq Listed(roster'.rows)
                 /\ \A b \in Listed(roster'.rows) \ commits'[j].todo : people'[b] # "none"
      <4>1. CASE j = k
        BY <2>1, <2>3, <2>4, <2>5, <4>1 DEF RosterInv
      <4>2. CASE j # k
        BY <2>1, <2>3, <2>4, <2>5, <3>1, <4>2 DEF RosterInv
      <4> QED
        BY <4>1, <4>2
    <3> QED
      BY <3>1 DEF RosterInv
  <2> QED
    BY <2>1, <2>3, <2>5, <2>6 DEF RosterStored, EmailsStay
<1>8. \/ UNCHANGED <<people, commits, roster>> \/ (\E c \in Bibs : UpsertParticipant(c)) \/ RosterNext
  BY DEF TimingNext, ProviderNext, RunTimingSync, TimePasses, Cross, Publish, StartSync, PullRoster, RosterDone,
         PullFinishEvents, Stamp, RecordError, UpsertFinish, BindTimingProvider, timingVars
<1> QED
  BY <1>1, <1>2, <1>3, <1>4, <1>5, <1>6, <1>7, <1>8 DEF RosterNext

LEMMA TimingInvInit == TimingInit => TimingInv
<1> SUFFICES ASSUME TimingInit PROVE TimingInv
  OBVIOUS
<1>1. TimingTypeOK
  BY AnyRaceTyped, IdleTyped, TimingAssumption
  DEF TimingInit, TimingTypeOK, Binding, RosterRow, Commit, Finish, NoFinish
<1> QED
  BY <1>1, IdleTyped DEF TimingInit, TimingInv, FinishInv, FinishesStored, RosterInv, RosterStored

(* TimingInv holds in every reachable state: what the sweep has still to     *)
(* write, and what a commit has inserted.                                    *)
THEOREM TimingInductive == TimingSpec => []TimingInv
<1>1. TimingInv /\ [TimingNext]_timingVars => TimingInv'
  <2> SUFFICES ASSUME TimingInv, [TimingNext]_timingVars PROVE TimingInv'
    OBVIOUS
  <2> USE DEF TimingInv
  <2>1. TimingTypeOK' /\ RosterInv' /\ RosterStored'
    BY TimingTyped, RosterKeeps
  <2>2. ASSUME UNCHANGED <<crossed, published, binding, sync, finishes, excused>>
        PROVE  FinishInv' /\ FinishesStored'
    <3>1. FinishInv'
      BY <2>2 DEF FinishInv, FinishOwed, FinishKept
    <3>2. FinishesStored'
      BY <2>2 DEF FinishesStored
    <3> QED
      BY <3>1, <3>2
  <2>3. RosterNext => UNCHANGED <<crossed, published, binding, sync, finishes, excused>>
    BY DEF RosterNext, PreviewRoster, CommitRoster, MarkImported, CommitDies, InsertParticipant
  <2>4. FinishInv' /\ FinishesStored'
    BY <2>2, <2>3, ProviderKeeps, SweepKeeps DEF TimingNext, timingVars
  <2> QED
    BY <2>1, <2>4
<1> QED
  BY <1>1, TimingInvInit, PTL DEF TimingSpec

(* However sweeps, rebinds, roster commits, errors and deaths interleave,    *)
(* the incremental pull skips no crossing that it need not, a committed      *)
(* roster is all there, and no email is lost (timing-sync.ts,                *)
(* roster-import.ts).                                                        *)
THEOREM SyncLosesNothingEver == TimingSpec => SyncLosesNothing
<1>1. TimingInv => FinishesStored /\ RosterStored
  BY DEF TimingInv
<1>2. TimingInv /\ [TimingNext]_timingVars => [EmailsStay]_timingVars
  BY RosterKeeps DEF TimingInv
<1> QED
  BY <1>1, <1>2, TimingInductive, PTL DEF TimingSpec, SyncLosesNothing

------------------------------------------------------------------------------
(* Pages *)

(* What is shown comes before what is still to come, or, in the queue, has *)
(* no later millisecond than the cursor or more flags than a page's end.   *)
Ahead ==
  IF pageCursor = NoCursor THEN shown = {} ELSE
  \E e \in ends :
    /\ pageCursor = CursorAt(e)
    /\ \A i \in shown :
         IF list = "queue" THEN Stored(item[i].created) <= pageCursor.at \/ Resumed(i)
         ELSE i = e \/ NewestFirst(i, e)

(* What a row that stayed shows is shown, or the row is to come, or shares  *)
(* the millisecond of a page's end, or was passed by one with more flags.   *)
Accounted == \A i \in stayed :
  \/ item[i].shows \in {item[j].shows : j \in shown}
  \/ SharesMs(i) \/ Passed(i) \/ (~ended /\ AfterCursor(i))

RepeatedSpared ==
  \A p \in repeated : TaggedTwice(p) \/ (list = "queue" /\ SharesMs(p)) \/ Resumed(p)

RowsThere ==
  /\ \A i \in shown : item[i].there
  /\ ends \subseteq shown /\ (list # "bib" => repeated \subseteq shown)
  /\ stayed \subseteq InList

PagesInv == PagesTypeOK /\ RowsThere /\ (~ended => Ahead) /\ Accounted /\ RepeatedSpared

(* Of finitely many things, one has none after it.                         *)
LEMMA LastExists ==
  ASSUME NEW S, IsFiniteSet(S), S # {}, NEW R,
         \A x \in S : <<x, x>> \notin R,
         \A x, y, z \in S : <<x, y>> \in R /\ <<y, z>> \in R => <<x, z>> \in R
  PROVE  \E x \in S : \A y \in S : <<x, y>> \notin R
<1> DEFINE B == {T \in SUBSET S : T # {} /\ ~\E x \in T : \A y \in T : <<x, y>> \notin R}
<1> SUFFICES ASSUME B # {} PROVE FALSE
  OBVIOUS
<1>1. PICK T \in B : \A U \in B : ~(U \subseteq T /\ U # T)
  <2>1. B \in SUBSET SUBSET S
    OBVIOUS
  <2> HIDE DEF B
  <2> QED
    BY <2>1, Smallest
<1>2. PICK y \in T : TRUE
  OBVIOUS
<1>3. T \ {y} = {} \/ \E x \in T \ {y} : \A z \in T \ {y} : <<x, z>> \notin R
  <2>1. T \ {y} \subseteq T /\ T \ {y} # T
    BY <1>2
  <2>2. T \ {y} \in SUBSET S
    BY <1>1
  <2> HIDE DEF B
  <2>3. T \ {y} \notin B
    BY <1>1, <2>1
  <2> QED
    BY <2>2, <2>3 DEF B
<1>4. CASE T \ {y} = {}
  BY <1>4, <1>2
<1>5. ASSUME NEW x \in T \ {y}, \A z \in T \ {y} : <<x, z>> \notin R PROVE FALSE
  <2>1. CASE <<x, y>> \notin R
    BY <2>1, <1>5
  <2>2. CASE <<x, y>> \in R
    <3>1. \A z \in T \ {y} : <<y, z>> \notin R
      BY <2>2, <1>5, <1>2
    <3> QED
      BY <3>1, <1>2
  <2> QED
    BY <2>1, <2>2
<1> QED
  BY <1>3, <1>4, <1>5

(* Whole milliseconds: those of an earlier time are fewer, and none more   *)
(* than fit.                                                               *)
LEMMA WholeTicks ==
  ASSUME NEW T \in Nat \ {0}, NEW a \in Nat, NEW b \in Nat
  PROVE  /\ (a \div T) * T \in Nat /\ (a \div T) * T <= a
         /\ a <= b => (a \div T) * T <= (b \div T) * T
         /\ (a \div T) * T <= b => (a \div T) * T <= (b \div T) * T
<1> DEFINE p == a \div T
           q == b \div T
<1>1. p \in Nat /\ q \in Nat /\ T * p <= a /\ b < T * q + T /\ a < T * p + T /\ T * q <= b
  <2>1. T * (a \div T) <= a /\ T * (b \div T) <= b
    OBVIOUS
  <2>2. a < T * (a \div T) + T /\ b < T * (b \div T) + T
    OBVIOUS
  <2> QED
    BY <2>1, <2>2
<1> HIDE DEF p, q
<1>2. \A m, n \in Nat : m <= n => T * m <= T * n
  OBVIOUS
<1>3. \A m \in Nat : T * m \in Nat /\ m * T = T * m /\ T * (m + 1) = T * m + T
  OBVIOUS
<1>4. T * p <= b => p <= q
  <2> SUFFICES ASSUME T * p <= b, ~(p <= q) PROVE FALSE
    OBVIOUS
  <2>1. q + 1 \in Nat /\ q + 1 <= p
    BY <1>1
  <2>2. T * (q + 1) <= T * p
    BY <1>1, <1>2, <2>1
  <2> QED
    BY <2>2, <1>1, <1>3
<1>5. a <= b => T * p <= b
  BY <1>1, <1>3
<1> QED
  BY <1>1, <1>2, <1>3, <1>4, <1>5 DEF p, q

LEMMA StoredFacts ==
  ASSUME NEW a \in Nat, NEW b \in Nat
  PROVE  /\ Stored(a) \in Nat /\ Stored(a) <= a
         /\ a <= b => Stored(a) <= Stored(b)
         /\ Stored(a) <= b => Stored(a) <= Stored(b)
         /\ list = "bib" => Stored(a) = a
<1>1. TicksPerMs \in Nat \ {0}
  BY PagesAssumption
<1>2. CASE list = "bib"
  BY <1>2 DEF Stored
<1>3. CASE list # "bib"
  <2>1. Stored(a) = (a \div TicksPerMs) * TicksPerMs /\ Stored(b) = (b \div TicksPerMs) * TicksPerMs
    BY <1>3 DEF Stored
  <2> QED
    BY <2>1, <1>1, <1>3, WholeTicks
<1> QED
  BY <1>2, <1>3

LEMMA RowFields ==
  ASSUME PagesTypeOK, NEW i \in Rows
  PROVE  /\ i \in Nat \ {0} /\ item[i].shows \in Nat /\ item[i].flags \in Nat
         /\ item[i].created \in 0 .. MaxTick /\ item[i].created \in Nat /\ MaxTick \in Nat
<1>1. item[i] \in Items
  BY DEF PagesTypeOK
<1>2. /\ item[i].created \in 0 .. MaxTick
      /\ item[i].shows \in Rows \cup {0} /\ item[i].flags \in 0 .. MaxFlags
  BY <1>1 DEF Items
<1>3. Rows \subseteq Nat \ {0} /\ MaxTick \in Nat /\ MaxFlags \in Nat
  BY PagesAssumption
<1>4. item[i].shows \in Nat
  <2>1. CASE item[i].shows = 0
    BY <2>1
  <2>2. CASE item[i].shows \in Rows
    BY <2>2, <1>3
  <2> QED
    BY <1>2, <2>1, <2>2
<1>5. item[i].created \in Nat /\ item[i].flags \in Nat
  BY <1>2, <1>3
<1> QED
  BY <1>2, <1>3, <1>4, <1>5

(* Both orders are orders.                                                 *)
LEMMA ComesOrder ==
  ASSUME PagesTypeOK
  PROVE  /\ \A i \in Rows : ~Comes(i, i)
         /\ \A i, j \in Rows : Comes(i, j) => ~Comes(j, i)
         /\ \A i, j \in Rows : i = j \/ Comes(i, j) \/ Comes(j, i)
         /\ \A i, j, k \in Rows : Comes(i, j) /\ Comes(j, k) => Comes(i, k)
<1>1. \A i \in Rows : /\ i \in Nat /\ item[i].created \in Nat
                       /\ item[i].shows \in Nat /\ item[i].flags \in Nat
  BY RowFields
<1>2. CASE list = "queue"
  BY <1>1, <1>2 DEF Comes, FlaggedFirst
<1>3. CASE list # "queue"
  BY <1>1, <1>3 DEF Comes, NewestFirst
<1> QED
  BY <1>2, <1>3

(* A page is the front of what was found, and while there is more it has a *)
(* last row.                                                               *)
LEMMA PageSplits ==
  ASSUME PagesTypeOK, NEW found \in SUBSET Rows, NEW limit \in Limits
  PROVE  /\ FirstOf(found, limit) \subseteq found
         /\ \A i \in FirstOf(found, limit), j \in found \ FirstOf(found, limit) : Comes(i, j)
         /\ found # FirstOf(found, limit) =>
              \E i \in FirstOf(found, limit) :
                /\ NextCursor(found, FirstOf(found, limit)) = CursorAt(i)
                /\ \A j \in FirstOf(found, limit) : i = j \/ Comes(j, i)
<1> DEFINE page == FirstOf(found, limit)
           before(i) == {j \in found : Comes(j, i)}
<1>1. IsFiniteSet(found) /\ limit \in Nat \ {0}
  BY FS_Subset, PagesAssumption
<1>2. \A i \in Rows : before(i) \subseteq found /\ IsFiniteSet(before(i)) /\ Cardinality(before(i)) \in Nat
  BY <1>1, FS_Subset, FS_CardinalityType
<1>3. ASSUME NEW i \in page, NEW j \in found \ page PROVE Comes(i, j)
  <2>1. i \in found /\ Cardinality(before(i)) < limit /\ ~(Cardinality(before(j)) < limit)
    BY <1>3 DEF FirstOf
  <2>2. ASSUME Comes(j, i) PROVE FALSE
    <3>1. before(j) \subseteq before(i)
      BY <2>1, <2>2, ComesOrder
    <3>2. Cardinality(before(j)) <= Cardinality(before(i))
      BY <3>1, <2>1, <1>2, FS_Subset
    <3> QED
      BY <3>2, <2>1, <1>1, <1>2
  <2> QED
    BY <2>1, <2>2, ComesOrder
<1>4. ASSUME found # page
      PROVE  \E i \in page : NextCursor(found, page) = CursorAt(i) /\ \A j \in page : i = j \/ Comes(j, i)
  <2>1. page # {}
    <3> DEFINE R == {p \in found \X found : Comes(p[2], p[1])}
    <3>1. \A i, j \in found : <<i, j>> \in R <=> Comes(j, i)
      OBVIOUS
    <3>2. found # {}
      BY <1>4 DEF FirstOf
    <3> HIDE DEF R
    <3>3. PICK i \in found : \A j \in found : <<i, j>> \notin R
      <4>1. \A x \in found : <<x, x>> \notin R
        BY <3>1, ComesOrder
      <4>2. \A x, y, z \in found : <<x, y>> \in R /\ <<y, z>> \in R => <<x, z>> \in R
        BY <3>1, ComesOrder
      <4> QED
        BY <4>1, <4>2, <3>2, <1>1, LastExists
    <3>4. before(i) = {}
      BY <3>1, <3>3
    <3>5. Cardinality(before(i)) = 0
      BY <3>4, FS_EmptySet
    <3> QED
      BY <3>5, <1>1 DEF FirstOf
  <2> DEFINE R == {p \in page \X page : Comes(p[1], p[2])}
  <2>2. \A i, j \in page : <<i, j>> \in R <=> Comes(i, j)
    OBVIOUS
  <2>3. page \subseteq found /\ IsFiniteSet(page)
    BY <1>1, FS_Subset DEF FirstOf
  <2> HIDE DEF page, R
  <2>4. \E i \in page : \A j \in page : <<i, j>> \notin R
    <3>1. \A x \in page : <<x, x>> \notin R
      BY <2>2, <2>3, ComesOrder
    <3>2. \A x, y, z \in page : <<x, y>> \in R /\ <<y, z>> \in R => <<x, z>> \in R
      BY <2>2, <2>3, ComesOrder
    <3> QED
      BY <3>1, <3>2, <2>1, <2>3, LastExists
  <2>5. \E i \in page : \A j \in page : ~Comes(i, j)
    BY <2>4, <2>2
  <2>6. PICK i \in page : i = (CHOOSE k \in page : \A j \in page : ~Comes(k, j)) /\ \A j \in page : ~Comes(i, j)
    BY <2>5
  <2>7. NextCursor(found, page) = CursorAt(i)
    BY <2>6, <1>4 DEF NextCursor
  <2> QED
    BY <2>6, <2>7, <2>3, ComesOrder
<1> QED
  BY <1>3, <1>4 DEF FirstOf

LEMMA InitPages == PagesInit => PagesInv
<1> SUFFICES ASSUME PagesInit PROVE PagesInv
  OBVIOUS
<1>1. PagesTypeOK
  <2>1. item \in [Rows -> Items]
    <3> DEFINE Made == [there : {TRUE}, created : 0 .. MaxTick, matches : BOOLEAN,
                        shows : Rows, flags : MayFlag]
    <3>1. Absent \in Items
      BY PagesAssumption DEF Absent, Items
    <3>2. Made \subseteq Items
      <4>1. MayFlag \subseteq 0 .. MaxFlags
        BY PagesAssumption DEF MayFlag
      <4> QED
        BY <4>1 DEF Items
    <3>3. item \in [Rows -> {Absent} \cup Made]
      BY DEF PagesInit
    <3> HIDE DEF Made
    <3> QED
      BY <3>1, <3>2, <3>3
  <2>2. 0 \in 0 .. MaxTick
    BY PagesAssumption
  <2> QED
    BY <2>1, <2>2, PagesAssumption DEF PagesInit, PagesTypeOK, NoCursor, InList
<1>2. \A i \in Rows : AfterCursor(i)
  BY DEF PagesInit, AfterCursor
<1> QED
  BY <1>1, <1>2 DEF PagesInit, PagesInv, RowsThere, Ahead, Accounted, RepeatedSpared, InList

(* The row that ends a page has its time in whole milliseconds.            *)
LEMMA CursorTicks ==
  ASSUME PagesTypeOK, NEW i \in Rows
  PROVE  /\ item[i].created \in 0 .. MaxTick
         /\ Stored(item[i].created) \in 0 .. MaxTick
<1>1. item[i].created \in 0 .. MaxTick /\ MaxTick \in Nat
  BY RowFields
<1>2. Stored(item[i].created) \in Nat /\ Stored(item[i].created) <= item[i].created
  BY <1>1, StoredFacts
<1> QED
  BY <1>1, <1>2

LEMMA RowTicks ==
  ASSUME PagesTypeOK, NEW i \in Rows
  PROVE  /\ i \in Nat \ {0} /\ item[i].created \in Nat /\ Stored(item[i].created) \in Nat
         /\ item[i].shows \in Nat /\ item[i].flags \in Nat
         /\ Stored(item[i].created) <= item[i].created
<1>1. item[i].shows \in Nat /\ item[i].flags \in Nat /\ i \in Nat \ {0}
  BY RowFields
<1> QED
  BY <1>1, CursorTicks, StoredFacts, PagesAssumption

(* What a row shows is a row, and but for tags the row itself.             *)
LEMMA ShownRow ==
  ASSUME PagesTypeOK, NEW i \in Rows, item[i].there
  PROVE  item[i].shows \in Rows /\ (list # "bib" => item[i].shows = i)
BY DEF PagesTypeOK, MayShow

LEMMA ListPageInv == ASSUME PagesInv, NEW limit \in Limits, ListPage(limit) PROVE PagesInv'
<1> DEFINE found == {i \in InList : AfterCursor(i)}
           page == FirstOf(found, limit)
           again == {i \in page : i \in shown
                       \/ \E j \in (shown \cup page) \ {i} : item[j].shows = item[i].shows}
<1>1. /\ PagesTypeOK /\ RowsThere /\ Ahead /\ Accounted /\ RepeatedSpared /\ ~ended
      /\ list' = list /\ item' = item /\ stayed' = stayed
      /\ pageCursor' = NextCursor(found, page) /\ ended' = (found = page)
      /\ shown' = shown \cup page /\ repeated' = repeated \cup {item[i].shows : i \in again}
      /\ ends' = IF found = page THEN ends
                 ELSE ends \cup {i \in page : \A j \in page : ~Comes(i, j)}
  BY DEF PagesInv, ListPage
<1>2. /\ found \in SUBSET Rows /\ page \subseteq found
      /\ \A i \in found : item[i].there /\ AfterCursor(i)
      /\ shown \subseteq Rows /\ ends \subseteq shown
      /\ \A i \in page, j \in found \ page : Comes(i, j)
      /\ found # page => \E i \in page : NextCursor(found, page) = CursorAt(i)
                                          /\ \A j \in page : i = j \/ Comes(j, i)
  <2>1. found \in SUBSET Rows /\ \A i \in found : item[i].there /\ AfterCursor(i)
    BY DEF InList
  <2>2. shown \subseteq Rows /\ ends \subseteq shown
    BY <1>1 DEF PagesTypeOK, RowsThere
  <2> HIDE DEF found
  <2> QED
    BY <1>1, <2>1, <2>2, PageSplits
<1>3. \A i \in again : /\ i \in page
                       /\ i \in shown \/ \E j \in (shown \cup page) \ {i} : item[j].shows = item[i].shows
  OBVIOUS
<1> HIDE DEF found, page, again
<1>4. /\ \A i : Stored(item[i].created)' = Stored(item[i].created)
      /\ \A i : CursorAt(i)' = CursorAt(i)
      /\ \A i, j : NewestFirst(i, j)' = NewestFirst(i, j)
  BY <1>1 DEF Stored, CursorAt, NewestFirst
<1>5. \A i : /\ SharesMs(i) => SharesMs(i)'
             /\ Passed(i) => Passed(i)'
             /\ Resumed(i) => Resumed(i)'
             /\ TaggedTwice(i) => TaggedTwice(i)'
  <2>1. ends \subseteq ends'
    BY <1>1
  <2> QED
    BY <2>1, <1>1, <1>4 DEF SharesMs, Passed, Resumed, TaggedTwice, TagsOf
<1>6. ASSUME found # page
      PROVE  \E e \in page : /\ pageCursor' = CursorAt(e) /\ e \in ends' /\ e \in Rows /\ item[e].there
                             /\ pageCursor'.row = item[e].shows
                             /\ pageCursor'.at = Stored(item[e].created)
                             /\ \A j \in page : e = j \/ Comes(j, e)
  <2>1. PICK e \in page : NextCursor(found, page) = CursorAt(e) /\ \A j \in page : e = j \/ Comes(j, e)
    BY <1>2, <1>6
  <2>2. \A j \in page : ~Comes(e, j)
    BY <2>1, <1>1, <1>2, ComesOrder
  <2> QED
    BY <2>1, <2>2, <1>1, <1>2, <1>6 DEF CursorAt
<1>7. \A i \in found : /\ item[i].shows \in Rows /\ (list # "bib" => item[i].shows = i)
  BY <1>1, <1>2, ShownRow
<1>8. PagesTypeOK'
  <2>1. pageCursor'.row \in Rows \cup {0} /\ pageCursor'.at \in 0 .. MaxTick
    <3>1. CASE found = page
      BY <3>1, <1>1, PagesAssumption DEF NextCursor, NoCursor
    <3>2. CASE found # page
      BY <3>2, <1>6, <1>7, <1>2, <1>1, CursorTicks
    <3> QED
      BY <3>1, <3>2
  <2>2. again \subseteq found
    BY <1>2, <1>3
  <2>3. shown' \cup repeated' \cup ends' \cup stayed' \subseteq Rows
    BY <1>1, <1>2, <1>7, <2>2 DEF PagesTypeOK
  <2>4. ended' \in BOOLEAN
    BY <1>1
  <2>5. \A i : MayShow(i)' = MayShow(i)
    BY <1>1 DEF MayShow
  <2> QED
    BY <2>1, <2>3, <2>4, <2>5, <1>1 DEF PagesTypeOK
<1>9. RowsThere'
  <2>1. ends' \subseteq shown' /\ \A i \in shown' : item'[i].there
    BY <1>1, <1>2 DEF RowsThere
  <2>2. list # "bib" => repeated' \subseteq shown'
    BY <1>1, <1>2, <1>3, <1>7 DEF RowsThere
  <2>3. stayed' \subseteq InList'
    BY <1>1 DEF RowsThere, InList, Flagged
  <2> QED
    BY <2>1, <2>2, <2>3, <1>1 DEF RowsThere
<1>10. ASSUME pageCursor # NoCursor, NEW i \in shown, NEW j \in found
       PROVE  /\ list = "queue" =>
                   /\ Resumed(i) \/ Stored(item[i].created) <= Stored(item[j].created)
                   /\ i = j => SharesMs(i) \/ Resumed(i)
              /\ list # "queue" => NewestFirst(i, j)
  <2>1. PICK e \in ends : /\ pageCursor = CursorAt(e)
                          /\ IF list = "queue" THEN Stored(item[i].created) <= pageCursor.at \/ Resumed(i)
                             ELSE i = e \/ NewestFirst(i, e)
    BY <1>10, <1>1 DEF Ahead
  <2>2. /\ e \in Rows /\ i \in Rows /\ j \in Rows
        /\ pageCursor.row = item[e].shows /\ pageCursor.at = Stored(item[e].created)
    BY <2>1, <1>2 DEF CursorAt
  <2>3. /\ e \in Nat /\ item[e].created \in Nat /\ Stored(item[e].created) \in Nat /\ item[e].shows \in Nat
        /\ j \in Nat /\ item[j].created \in Nat /\ Stored(item[j].created) \in Nat /\ item[j].shows \in Nat
        /\ i \in Nat /\ item[i].created \in Nat /\ Stored(item[i].created) \in Nat /\ item[i].shows \in Nat
        /\ Stored(item[e].created) <= item[e].created
    BY <2>2, <1>1, RowTicks
  <2>4. AfterCursor(j)
    BY <1>2
  <2>5. CASE list = "queue"
    <3>1. item[j].created > Stored(item[e].created)
      BY <2>4, <2>5, <1>10, <2>2 DEF AfterCursor, QueueAfter
    <3>2. Stored(item[e].created) <= Stored(item[j].created)
      BY <3>1, <2>3, StoredFacts
    <3>3. CASE Resumed(i)
      BY <3>3, <2>5
    <3>4. CASE Stored(item[i].created) <= Stored(item[e].created)
      <4>1. i = j => Stored(item[e].created) = Stored(item[i].created)
        BY <3>2, <3>4, <2>3
      <4>2. i = j => SharesMs(i)
        BY <4>1, <2>1, <2>5 DEF SharesMs
      <4> QED
        BY <4>2, <3>2, <3>4, <2>3, <2>5
    <3> QED
      BY <3>3, <3>4, <2>1, <2>2, <2>5
  <2>6. CASE list # "queue"
    <3>1. NewestFirst(e, j)
      <4>1. CASE list = "payouts"
        <5>1. item[e].shows = e
          BY <4>1, <1>1, <1>2, <2>1, <2>2, ShownRow DEF RowsThere
        <5> QED
          BY <5>1, <4>1, <2>4, <2>2, <1>10 DEF AfterCursor, PayoutsAfter
      <4>2. CASE list \in {"keyset", "bib"}
        <5>1. \/ item[j].created < Stored(item[e].created)
              \/ item[j].created = Stored(item[e].created) /\ item[j].shows < item[e].shows
          BY <4>2, <2>4, <1>10, <2>2 DEF AfterCursor, OlderThanCursor, BibAfter
        <5> QED
          BY <5>1, <2>3 DEF NewestFirst
      <4>3. CASE list = "audit"
        <5>1. item[j].created < Stored(item[e].created)
          BY <4>3, <2>4, <1>10, <2>2 DEF AfterCursor, AuditAfter
        <5> QED
          BY <5>1, <2>3 DEF NewestFirst
      <4> QED
        BY <4>1, <4>2, <4>3, <2>6, <1>1 DEF PagesTypeOK, AllLists
    <3> QED
      BY <3>1, <2>1, <2>3, <2>6 DEF NewestFirst
  <2> QED
    BY <2>5, <2>6
<1>11. (~ended => Ahead)'
  <2> SUFFICES ASSUME found # page PROVE Ahead'
    BY <1>1
  <2>1. PICK e \in page : /\ pageCursor' = CursorAt(e) /\ e \in ends' /\ e \in Rows /\ item[e].there
                          /\ pageCursor'.row = item[e].shows
                          /\ pageCursor'.at = Stored(item[e].created)
                          /\ \A j \in page : e = j \/ Comes(j, e)
    BY <1>6
  <2>2. e \in found /\ item[e].created \in Nat /\ Stored(item[e].created) \in Nat /\ item[e].flags \in Nat
    BY <2>1, <1>1, <1>2, RowTicks
  <2>3. \A j \in shown' : IF list = "queue"
                          THEN Stored(item[j].created) <= Stored(item[e].created) \/ Resumed(j)'
                          ELSE j = e \/ NewestFirst(j, e)
    <3> TAKE j \in shown'
    <3>1. CASE j \in shown
      <4>1. pageCursor # NoCursor
        BY <3>1, <1>1 DEF Ahead
      <4> QED
        BY <4>1, <3>1, <2>2, <1>5, <1>10
    <3>2. CASE j \in page
      <4>1. j \in Rows /\ item[j].created \in Nat /\ item[j].flags \in Nat
        BY <3>2, <1>2, <1>1, RowTicks
      <4>2. CASE list = "queue"
        <5>1. \/ item[j].flags > item[e].flags
              \/ item[j].created <= item[e].created
          BY <3>2, <2>1, <2>2, <4>2, <4>1 DEF Comes, FlaggedFirst
        <5>2. CASE item[j].created <= item[e].created
          BY <5>2, <4>1, <2>2, <4>2, StoredFacts
        <5>3. CASE item[j].flags > item[e].flags /\ ~(item[j].created <= item[e].created)
          <6>1. item[e].flags < item[j].flags /\ item[e].created <= item[j].created
            BY <5>3, <4>1, <2>2
          <6> QED
            BY <6>1, <4>2, <2>1, <1>1 DEF Resumed
        <5> QED
          BY <5>1, <5>2, <5>3
      <4>3. CASE list # "queue"
        BY <4>3, <3>2, <2>1 DEF Comes
      <4> QED
        BY <4>2, <4>3
    <3> QED
      BY <3>1, <3>2, <1>1
  <2>4. pageCursor' # NoCursor
    BY <2>1, <2>2, <1>7, PagesAssumption DEF NoCursor
  <2> QED
    BY <2>1, <2>3, <2>4, <1>1, <1>4 DEF Ahead, NoCursor
<1>12. Accounted'
  <2> SUFFICES ASSUME NEW i \in stayed
               PROVE  (\/ item[i].shows \in {item[j].shows : j \in shown}
                       \/ SharesMs(i) \/ Passed(i) \/ (~ended /\ AfterCursor(i)))'
    BY <1>1 DEF Accounted
  <2>1. CASE item[i].shows \in {item[j].shows : j \in shown}
    BY <2>1, <1>1
  <2>2. CASE SharesMs(i) \/ Passed(i)
    BY <2>2, <1>5
  <2>3. CASE AfterCursor(i)
    <3>1. i \in found
      BY <2>3, <1>1 DEF RowsThere, found
    <3>2. CASE i \in page
      BY <3>2, <1>1
    <3>3. CASE i \notin page
      <4>1. found # page
        BY <3>1, <3>3
      <4>2. PICK e \in page : /\ e \in ends' /\ e \in Rows
                              /\ pageCursor'.row = item[e].shows
                              /\ pageCursor'.at = Stored(item[e].created)
        BY <4>1, <1>6
      <4>3. Comes(e, i) /\ i \in Rows /\ ~ended'
        BY <3>1, <3>3, <4>1, <1>1, <1>2
      <4>4. /\ e \in Nat \ {0} /\ item[e].created \in Nat /\ Stored(item[e].created) \in Nat
            /\ item[e].shows \in Nat /\ item[e].flags \in Nat
            /\ i \in Nat /\ item[i].created \in Nat /\ Stored(item[i].created) \in Nat
            /\ item[i].shows \in Nat /\ item[i].flags \in Nat
            /\ Stored(item[e].created) <= item[e].created
        BY <4>2, <4>3, <1>1, RowTicks
      <4>5. ASSUME Stored(item[i].created) = Stored(item[e].created), list \notin {"payouts", "bib"}
            PROVE  SharesMs(i)'
        BY <4>2, <4>5, <1>1, <1>4 DEF SharesMs
      <4>6. CASE list = "queue"
        <5>1. \/ item[e].flags > item[i].flags
              \/ item[e].created <= item[i].created
          BY <4>3, <4>4, <4>6 DEF Comes, FlaggedFirst
        <5>2. CASE item[i].created > Stored(item[e].created)
          BY <5>2, <4>2, <4>3, <4>6, <1>1 DEF AfterCursor, QueueAfter
        <5>3. CASE item[e].flags > item[i].flags /\ ~(item[i].created > Stored(item[e].created))
          <6>1. item[e].created >= item[i].created
            BY <5>3, <4>4
          <6> QED
            BY <6>1, <5>3, <4>2, <4>6, <1>1 DEF Passed
        <5>4. CASE item[e].created <= item[i].created /\ ~(item[i].created > Stored(item[e].created))
          <6>1. item[i].created = item[e].created
            BY <5>4, <4>4
          <6> QED
            BY <6>1, <4>5, <4>6
        <5> QED
          BY <5>1, <5>2, <5>3, <5>4
      <4>7. CASE list = "payouts"
        <5>1. item[e].shows = e
          BY <4>7, <4>2, <1>2, <1>7
        <5>2. NewestFirst(e, i)'
          BY <4>7, <4>3, <1>4 DEF Comes
        <5> QED
          BY <5>1, <5>2, <4>2, <4>3, <4>7, <1>1 DEF AfterCursor, PayoutsAfter
      <4>8. CASE list = "bib"
        <5>1. Stored(item[e].created) = item[e].created
          BY <4>8, <4>4, StoredFacts
        <5>2. NewestFirst(e, i)
          BY <4>8, <4>3 DEF Comes
        <5>3. CASE item[i].shows = item[e].shows
          BY <5>3, <4>2, <1>1
        <5>4. CASE item[i].shows # item[e].shows
          <6>1. \/ item[i].created < item[e].created
                \/ item[i].created = item[e].created /\ item[i].shows < item[e].shows
            BY <5>2, <5>4, <4>4 DEF NewestFirst
          <6> QED
            BY <6>1, <5>1, <4>2, <4>3, <4>8, <1>1 DEF AfterCursor, BibAfter, OlderThanCursor
        <5> QED
          BY <5>3, <5>4
      <4>9. CASE list \in {"keyset", "audit"}
        <5>1. NewestFirst(e, i) /\ item[i].created <= item[e].created
          BY <4>9, <4>3, <4>4 DEF Comes, NewestFirst
        <5>2. CASE item[i].created < Stored(item[e].created)
          BY <5>2, <4>9, <4>2, <4>3, <1>1 DEF AfterCursor, AuditAfter, OlderThanCursor
        <5>3. CASE ~(item[i].created < Stored(item[e].created))
          <6>1. Stored(item[e].created) <= Stored(item[i].created)
            BY <5>3, <4>4, StoredFacts
          <6>2. Stored(item[i].created) <= Stored(item[e].created)
            BY <5>1, <4>4, StoredFacts
          <6>3. Stored(item[i].created) = Stored(item[e].created)
            BY <6>1, <6>2, <4>4
          <6> QED
            BY <6>3, <4>5, <4>9
        <5> QED
          BY <5>2, <5>3
      <4> QED
        BY <4>6, <4>7, <4>8, <4>9, <1>1 DEF PagesTypeOK, AllLists
    <3> QED
      BY <3>2, <3>3
  <2> QED
    BY <2>1, <2>2, <2>3, <1>1 DEF Accounted
<1>13. RepeatedSpared'
  <2>1. ASSUME NEW i \in again
        PROVE  LET p == item[i].shows
               IN  TaggedTwice(p) \/ (list = "queue" /\ SharesMs(p)) \/ Resumed(p)
    <3>1. i \in page /\ i \in found /\ i \in Rows /\ item[i].there
      BY <1>2, <1>3, <2>1
    <3>2. CASE i \in shown
      <4>1. pageCursor # NoCursor
        BY <3>2, <1>1 DEF Ahead
      <4>2. ~NewestFirst(i, i)
        BY <3>1, <1>1, RowTicks DEF NewestFirst
      <4>3. list = "queue" /\ (SharesMs(i) \/ Resumed(i))
        BY <4>1, <4>2, <3>1, <3>2, <1>10
      <4> QED
        BY <4>3, <3>1, <1>7
    <3>3. CASE i \notin shown
      <4>1. PICK j \in (shown \cup page) \ {i} : item[j].shows = item[i].shows
        BY <3>3, <2>1, <1>3
      <4>2. j \in Rows /\ item[j].there
        BY <4>1, <1>1, <1>2 DEF RowsThere
      <4>3. list = "bib"
        BY <4>1, <4>2, <3>1, <1>1, ShownRow
      <4> QED
        BY <4>1, <4>2, <4>3, <3>1 DEF TaggedTwice, TagsOf
    <3> QED
      BY <3>2, <3>3
  <2>2. \A p \in repeated' : TaggedTwice(p) \/ (list = "queue" /\ SharesMs(p)) \/ Resumed(p)
    BY <2>1, <1>1 DEF RepeatedSpared
  <2> QED
    BY <2>2, <1>1, <1>5 DEF RepeatedSpared
<1> QED
  BY <1>8, <1>9, <1>11, <1>12, <1>13 DEF PagesInv

(* What a change leaves of a row that is there.                            *)
Kept(i) ==
  /\ item'[i].there /\ item'[i].created = item[i].created
  /\ item'[i].shows = item[i].shows /\ item'[i].flags = item[i].flags

(* A row changes or comes: what is there keeps its time, photo and flags.  *)
LEMMA ChangedInv ==
  ASSUME PagesInv, Changed, item' \in [Rows -> Items],
         \A i \in Rows : item[i].there => Kept(i),
         \A i \in Rows : item'[i].there => item'[i].shows \in MayShow(i)
  PROVE  PagesInv'
<1>1. /\ PagesTypeOK /\ RowsThere /\ (~ended => Ahead) /\ Accounted /\ RepeatedSpared
      /\ list' = list /\ pageCursor' = pageCursor /\ ended' = ended /\ shown' = shown
      /\ repeated' = repeated /\ ends' = ends /\ stayed' = stayed \cap InList'
  BY DEF PagesInv, Changed
<1>2. /\ shown \subseteq Rows /\ repeated \subseteq Rows /\ stayed \subseteq Rows /\ ends \subseteq shown
      /\ list # "bib" => repeated \subseteq shown
      /\ \A i \in shown \cup stayed : item[i].there /\ Kept(i)
  <2>1. shown \subseteq Rows /\ repeated \subseteq Rows /\ stayed \subseteq Rows
    BY <1>1 DEF PagesTypeOK
  <2>2. \A i \in shown \cup stayed : item[i].there
    BY <1>1 DEF RowsThere, InList
  <2> QED
    BY <1>1, <2>1, <2>2 DEF RowsThere
<1>3. /\ \A i \in shown \cup stayed : item'[i].created = item[i].created /\ item'[i].shows = item[i].shows
                                      /\ item'[i].flags = item[i].flags
      /\ \A i \in shown \cup stayed : Stored(item[i].created)' = Stored(item[i].created)
  BY <1>1, <1>2 DEF Kept, Stored
<1>4. \A i \in shown \cup stayed : /\ SharesMs(i)' = SharesMs(i) /\ Passed(i)' = Passed(i)
                                   /\ Resumed(i)' = Resumed(i)
  BY <1>1, <1>2, <1>3 DEF SharesMs, Passed, Resumed
<1>5. PagesTypeOK'
  <2>1. \A i : MayShow(i)' = MayShow(i)
    BY <1>1 DEF MayShow
  <2>2. stayed' \subseteq Rows
    BY <1>1, <1>2
  <2> QED
    BY <1>1, <2>1, <2>2 DEF PagesTypeOK
<1>6. RowsThere'
  BY <1>1, <1>2 DEF RowsThere, Kept
<1>7. (~ended => Ahead)'
  <2> SUFFICES ASSUME ~ended, pageCursor # NoCursor PROVE Ahead'
    BY <1>1 DEF Ahead, NoCursor
  <2>1. PICK e \in ends : /\ pageCursor = CursorAt(e)
                          /\ \A i \in shown :
                               IF list = "queue" THEN Stored(item[i].created) <= pageCursor.at \/ Resumed(i)
                               ELSE i = e \/ NewestFirst(i, e)
    BY <1>1 DEF Ahead
  <2>2. \A i \in shown : NewestFirst(i, e)' = NewestFirst(i, e)
    BY <1>1, <1>2, <1>3 DEF NewestFirst
  <2>3. CursorAt(e)' = CursorAt(e)
    BY <1>2, <1>3 DEF CursorAt
  <2>4. \A i \in shown : IF list = "queue" THEN (Stored(item[i].created) <= pageCursor.at \/ Resumed(i))'
                         ELSE i = e \/ NewestFirst(i, e)'
    BY <1>1, <1>3, <1>4, <2>1, <2>2
  <2> QED
    BY <1>1, <2>1, <2>3, <2>4 DEF Ahead, NoCursor
<1>8. ~ended => \A i \in stayed : AfterCursor(i) => AfterCursor(i)'
  <2> SUFFICES ASSUME ~ended, NEW i \in stayed, AfterCursor(i) PROVE AfterCursor(i)'
    OBVIOUS
  <2>1. CASE pageCursor = NoCursor
    BY <2>1, <1>1 DEF AfterCursor, NoCursor
  <2>2. CASE pageCursor # NoCursor
    <3>1. PICK e \in ends : pageCursor = CursorAt(e)
      BY <2>2, <1>1 DEF Ahead
    <3>2. item'[i].created = item[i].created /\ item'[i].shows = item[i].shows
      BY <1>3
    <3>3. CASE list = "payouts"
      <4>1. pageCursor.row = e /\ e \in shown
        BY <3>1, <3>3, <1>1, <1>2, ShownRow DEF CursorAt
      <4> QED
        BY <4>1, <3>2, <3>3, <1>1, <1>3, <2>2 DEF AfterCursor, PayoutsAfter, NewestFirst, NoCursor
    <3>4. CASE list # "payouts"
      BY <3>2, <3>4, <1>1, <2>2
      DEF AfterCursor, OlderThanCursor, AuditAfter, QueueAfter, BibAfter, NoCursor
    <3> QED
      BY <3>3, <3>4
  <2> QED
    BY <2>1, <2>2
<1>9. Accounted'
  <2> SUFFICES ASSUME NEW i \in stayed
               PROVE  (\/ item[i].shows \in {item[j].shows : j \in shown}
                       \/ SharesMs(i) \/ Passed(i) \/ (~ended /\ AfterCursor(i)))'
    BY <1>1 DEF Accounted
  <2>1. \/ item[i].shows \in {item[j].shows : j \in shown}
        \/ SharesMs(i) \/ Passed(i) \/ (~ended /\ AfterCursor(i))
    BY <1>1 DEF Accounted
  <2>2. item[i].shows \in {item[j].shows : j \in shown}
          => (item[i].shows \in {item[j].shows : j \in shown})'
    BY <1>1, <1>3
  <2> QED
    BY <2>1, <2>2, <1>1, <1>4, <1>8
<1>10. RepeatedSpared'
  <2> SUFFICES ASSUME NEW p \in repeated
               PROVE  (TaggedTwice(p) \/ (list = "queue" /\ SharesMs(p)) \/ Resumed(p))'
    BY <1>1 DEF RepeatedSpared
  <2>1. TaggedTwice(p) => TaggedTwice(p)'
    BY <1>1 DEF TaggedTwice, TagsOf, Kept
  <2>2. list = "queue" \/ Resumed(p) => p \in shown
    BY <1>2 DEF Resumed
  <2> QED
    BY <2>1, <2>2, <1>1, <1>4 DEF RepeatedSpared
<1> QED
  BY <1>5, <1>6, <1>7, <1>9, <1>10 DEF PagesInv

LEMMA NextPages == PagesInv /\ [PagesNext]_pageVars => PagesInv'
<1> SUFFICES ASSUME PagesInv, [PagesNext]_pageVars PROVE PagesInv'
  OBVIOUS
<1>1. item \in [Rows -> Items]
  BY DEF PagesInv, PagesTypeOK
<1>2. ASSUME NEW limit \in Limits, ListPage(limit) PROVE PagesInv'
  BY <1>2, ListPageInv
<1>3. ASSUME NEW i \in Rows, Insert(i) PROVE PagesInv'
  <2>1. PICK t \in 0 .. MaxTick, p \in MayShow(i), matches \in BOOLEAN :
          item' = [item EXCEPT ![i] = [there |-> TRUE, created |-> t, shows |-> p, flags |-> 0,
                                       matches |-> matches]]
    BY <1>3 DEF Insert
  <2> DEFINE new == [there |-> TRUE, created |-> t, shows |-> p, flags |-> 0, matches |-> matches]
  <2>2. new \in Items
    BY <1>3, PagesAssumption DEF Items, MayShow
  <2>3. ~item[i].there /\ new.shows = p
    BY <1>3 DEF Insert
  <2>4. item' = [item EXCEPT ![i] = new]
    BY <2>1
  <2> HIDE DEF new
  <2>5. item' \in [Rows -> Items]
    BY <2>2, <2>4, <1>1
  <2>6. \A j \in Rows : item[j].there => Kept(j)
    BY <2>3, <2>4, <1>1 DEF Kept
  <2>7. \A j \in Rows : item'[j].there => item'[j].shows \in MayShow(j)
    BY <2>3, <2>4, <1>1 DEF PagesInv, PagesTypeOK
  <2> QED
    BY <2>5, <2>6, <2>7, <1>3, ChangedInv DEF Insert
<1>4. ASSUME NEW i \in Rows, ChangeStatus(i) PROVE PagesInv'
  <2>1. item' = [j \in Rows |-> IF j \in TagsOf(item[i].shows)
                                THEN [item[j] EXCEPT !.matches = ~@] ELSE item[j]]
    BY <1>4 DEF ChangeStatus
  <2>2. \A j \in Rows : /\ item'[j] \in Items /\ item'[j].there = item[j].there
                         /\ item'[j].created = item[j].created /\ item'[j].shows = item[j].shows
                         /\ item'[j].flags = item[j].flags
    BY <2>1, <1>1 DEF Items
  <2>3. item' \in [Rows -> Items]
    BY <2>1, <2>2
  <2>4. \A j \in Rows : item[j].there => Kept(j)
    BY <2>2 DEF Kept
  <2>5. \A j \in Rows : item'[j].there => item'[j].shows \in MayShow(j)
    BY <2>2 DEF PagesInv, PagesTypeOK
  <2> QED
    BY <2>3, <2>4, <2>5, <1>4, ChangedInv DEF ChangeStatus
<1>5. CASE UNCHANGED pageVars
  <2>1. Changed
    BY <1>5 DEF pageVars, Changed, PagesInv, RowsThere, InList, Flagged
  <2>2. item' \in [Rows -> Items] /\ \A i \in Rows : item[i].there => Kept(i)
    BY <1>1, <1>5 DEF pageVars, Kept
  <2>3. \A i \in Rows : item'[i].there => item'[i].shows \in MayShow(i)
    BY <1>5 DEF pageVars, PagesInv, PagesTypeOK
  <2> QED
    BY <2>1, <2>2, <2>3, ChangedInv
<1> QED
  BY <1>2, <1>3, <1>4, <1>5 DEF PagesNext

(* Of every walk through a list: what was shown comes before the cursor,   *)
(* and what stayed is shown, to come, of the millisecond of a page's last  *)
(* row or, in the queue, passed by one with more flags, whatever rows come *)
(* and change meanwhile (lib/cursor.ts and the lists made with it).        *)
THEOREM PagesInductive == PagesSpec => []PagesInv
<1> QED
  BY InitPages, NextPages, PTL DEF PagesSpec

(* Every row and cursor is one the lists can have.                         *)
THEOREM PagesTypeCorrect == PagesSpec => []PagesTypeOK
<1>1. PagesInv => PagesTypeOK
  BY DEF PagesInv
<1> QED
  BY <1>1, PagesInductive, PTL

(* Turning the pages shows every row that stays, and once, but for rows    *)
(* that share their millisecond with the last of a page, photos of the     *)
(* queue that differ from it in flags, and photos tagged twice             *)
(* (listEvents, listProducts, listPhotographerPhotos, listPayouts,         *)
(* searchByBib, getModerationQueue, GET /v1/admin/audit-log).              *)
THEOREM PagesWholeAlways == PagesSpec => []PagesWhole
<1>1. PagesInv => PagesWhole
  BY DEF PagesInv, PagesWhole, Accounted, RepeatedSpared
<1> QED
  BY <1>1, PagesInductive, PTL

=============================================================================
