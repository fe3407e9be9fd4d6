\* Two workers that collect and upsert, one upsert at a time.
CONSTANTS
  Workers = {w1, w2}
  Instruments = {1, 2}
  Fields = {shares}
  Values = {old, new}
  old = old
  new = new
  None = None
  Listings <- AFewListings
  Page = 3
  MaxTime = 5
  MaxUpserts = 1
  CanDie = TRUE
SPECIFICATION Spec
SYMMETRY Symmetry
INVARIANTS ProfileIsResolution NewestPackAgrees
CHECK_DEADLOCK FALSE
