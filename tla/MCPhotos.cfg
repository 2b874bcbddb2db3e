SPECIFICATION PhotosSpec
CONSTANTS
  Clients = {c1, c2}
  Admins = {a1, a2}
  Deployments <- OneMore
  Kinds <- OneKind
  MaxAttempts = 2
  MaxFaults = 1
  MaxOps = 2
SYMMETRY Equal
INVARIANT UploadKept
INVARIANT ModeratedStaysOut
INVARIANT FulfilledMeansPurged
CHECK_DEADLOCK FALSE
