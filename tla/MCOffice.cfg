SPECIFICATION OfficeSpec
CONSTANTS
  Emails = {e1}
  Visits = {r1, r2}
  MaxLinks = 1
  MaxSessions = 3
  EventIds = {event1}
  Slugs = {slug1}
  olga = olga
  paul = paul
  Users = {olga, paul}
  RoleOf <- TwoRoles
  OrgAdmins = {olga}
  OrgMembers = {olga}
  GivenRoles = {"organizer", "photographer"}
  Splits = {60}
  Desks = {r1, r2}
  MaxKeys = 2
  PhotoIds = {p1, p2}
  Bibs = {b1}
  RaceIds = {race1, race2}
  Clerks = {k1}
  MaxTime = 3
  Tiers = {t1, t2}
  Tagged = {p1, p2}
  Editors = {r1, r2}
  MaxProducts = 2
  MaxBundles = 1
  Starts = {r1, r2}
  Countries = {c1, c2}
  MaxReports = 2
  Lists = {"keyset", "audit", "payouts", "queue", "bib"}
  Rows = {1, 2, 3}
  MaxTick = 3
  TicksPerMs = 2
  Severity = 1
  MaxFlags = 1
  Limits = {1, 2}
  Contents = {"digital"}
  Jobs = {j1, j2}
  Photos = {f1}
  JobAttempts = 2
  MaxSubmits = 1
  MaxFaults = 3
  MaxCopies = 1
INVARIANTS
  SessionsEarned
  HoldsUnraced
  SoldWhole
  
  LinksKept
PROPERTIES SyncLosesNothing OnePayee
CONSTRAINTS OneKindOfRace SftpApart RosterApart
SYMMETRY Alike
CHECK_DEADLOCK FALSE
