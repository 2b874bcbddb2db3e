SPECIFICATION Spec
CONSTANTS
  race = race
  Events = {race}
  FaceEvents = {race}
  Photos = {p1}
  EventOf <- OneEvent
  Consents = {c1}
  NoConsent = NoConsent
  Mails = {NoMail}
  NoMail = NoMail
  Searches = {s1, s2}
  Erasures = {r1}
  Quota = 1
  MaxIndexings = 2
  MaxDeaths = 1
INVARIANTS
  QuotaHeld
PROPERTY RetentionHonoured
CHECK_DEADLOCK FALSE
