\* A session store with snapshots, and restarts.
CONSTANTS
  Uses = {"store"}
  MaxWrites = 4
  MaxDays = 1
  MaxFails = 1
  MaxStarts = 3
SPECIFICATION MfSpec
PROPERTY RestartFindsSnapshot
CHECK_DEADLOCK FALSE
