SPECIFICATION Spec
CONSTANTS
  race = race
  Events = {race}
  FaceEvents = {race}
  Photos = {p1}
  EventOf <- OneEvent
  Consents = {c1, c2}
  NoConsent = NoConsent
  Mails = {m1}
  NoMail = NoMail
  Searches = {s1}
  Erasures = {r1, r2}
  Quota = 1
  MaxIndexings = 1
  MaxDeaths = 1
INVARIANTS
  LastRevocationPurges
  ErasedStaysErased
SYMMETRY Swaps
CHECK_DEADLOCK FALSE
