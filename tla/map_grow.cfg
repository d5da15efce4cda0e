\* Sets, Deletes and a Grow of different keys, one beside another.
CONSTANTS
  Threads = {t1, t2}
  HashOf <- MCHash
  HashSpace = 8
  MaxElems = 3
  MaxGrown = 2
  MaxMetas = 4
  Modes = {"all"}
SPECIFICATION HmSpec
INVARIANT SetIsFound
CHECK_DEADLOCK FALSE
