------------------------------ MODULE MCOffice ------------------------------
(* The accounts, the events, their timing, the catalogue, the payees, a walk  *)
(* through a list and an order of files share no state: a behaviour is of one *)
(* of them, and the others stay as they began.                                *)
EXTENDS Access, Events, Timing, Catalog, Connect, Pages, Fulfillment, TLC

CONSTANTS olga, paul
VARIABLE part

TwoRoles == (olga :> "admin" @@ paul :> "photographer")
\* The configuration names the requests of the three alike.
Alike == Permutations(Desks) \cup Permutations(PhotoIds)

\* Bound: writes of one kind overtake each other in a behaviour.
OneKindOfRace == Cardinality(raced) <= 1

\* Bound: an event with an SFTP account has no members.
SftpApart ==
  \A e \in EventIds : sftp[e].status # "none" => \A u \in Users : member[e][u].role = "none"

\* Bound: a roster is imported before anybody has crossed a line.
RosterApart == roster.status # "none" => \A r \in RaceIds, b \in Bibs : crossed[r][b] = 0

OfficeInit ==
  /\ part \in {"access", "events", "timing", "catalog", "connect", "pages", "order"}
  /\ AccessInit /\ EventsInit /\ TimingInit /\ ConnectInit
  /\ CatalogInit /\ (part # "catalog" => ready = {})
  /\ PagesInit /\ (part # "pages" => list = "audit" /\ item = [i \in Rows |-> Absent])
  /\ FulfilInit

OfficeNext ==
  /\ part' = part
  /\ \/ part = "access" /\ AccessNext
     \/ part # "access" /\ UNCHANGED accessVars
  /\ \/ part = "events" /\ EventsNext
     \/ part # "events" /\ UNCHANGED eventVars
  /\ \/ part = "timing" /\ TimingNext
     \/ part # "timing" /\ UNCHANGED timingVars
  /\ \/ part = "catalog" /\ CatalogNext
     \/ part # "catalog" /\ UNCHANGED catalogVars
  /\ \/ part = "connect" /\ ConnectNext
     \/ part # "connect" /\ UNCHANGED connectVars
  /\ \/ part = "pages" /\ PagesNext
     \/ part # "pages" /\ UNCHANGED pageVars
  /\ \/ part = "order" /\ FulfilNext
     \/ part # "order" /\ UNCHANGED fulfilVars

OfficeSpec ==
  /\ OfficeInit
  /\ [][OfficeNext]_<<accessVars, eventVars, timingVars, catalogVars, connectVars, pageVars, fulfilVars,
                  part>>
=============================================================================
