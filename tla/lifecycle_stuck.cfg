\* A lost status update: the webhook then asks the user to wait for ever.
CONSTANTS
  Absent = Absent
  MaxEdits = 1
  MaxCrashes = 0
  MaxErrors = 1

SPECIFICATION FairSpec

PROPERTY WaitingEnds

CHECK_DEADLOCK FALSE
