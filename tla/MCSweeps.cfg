SPECIFICATION SweepsSpec
CONSTANTS
  Channels = {"webhook", "notify", "import", "order"}
  Subs = {s1}
  Events = {e1, e2}
  MaxAttempts = 2
  Threshold = 2
  Participants = {ann}
  Phones = {ann}
  SmsSenders = {TRUE, FALSE}
  Passes = {cron}
  Windows = 2
  MaxDeaths = 1
  Hashes = {h1, h2, h3}
  Unusable = {h3}
  FilesPerTick = 1
  MaxFileAttempts = 2
  MaxErrors = 2
  MaxMishaps = 1
  Contents = {"print"}
  Jobs = {j1, j2}
  Photos = {p1}
  JobAttempts = 2
  MaxSubmits = 3
  MaxFaults = 3
  MaxCopies = 2
INVARIANTS
  RepeatedOnlyByDeath
  DisabledForCause
  ImportExact
  PrintMatchesLab
PROPERTIES
  ImplementsOutbox
  ImportEnds
  PrintEnds
CHECK_DEADLOCK FALSE
