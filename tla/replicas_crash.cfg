\* A crash while the principal is stopped.
CONSTANTS
  p1 = p1
  p2 = p2
  p3 = p3
  PVC = {p1, p2}
  Docs <- TwoDocs
  PodId = {1}
  OtherPod = OtherPod
  None = None
  MaxUpdates = 2
  MaxCrashes = 1
  MaxDisruptions = 0
  MaxLost = 0
  MaxDeletes = 0
  MaxFaults = 1
  Patient = TRUE

SPECIFICATION Spec

INVARIANT NoSecondDirectory

CHECK_DEADLOCK FALSE
