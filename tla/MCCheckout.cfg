SPECIFICATION Spec
CONSTANTS
  photo = photo
  bundle = bundle
  Lines = {photo, bundle}
  Bundles = {bundle}
  Price <- Prices
  Discounts = {0, 10}
  Edits = {e1}
  MaxCalls = 2
  MaxRows = 2
  MaxQuantity = 2
  MaxFaults = 1
INVARIANTS
  OneIntentPerCart
  ChargedAsOrdered
  ConvertedResumable
CHECK_DEADLOCK FALSE
