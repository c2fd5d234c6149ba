\* A replica is removed.
CONSTANTS
  p1 = p1
  p2 = p2
  p3 = p3
  PVC = {p1, p2}
  Docs <- GrowDocs
  PodId = {1}
  OtherPod = OtherPod
  None = None
  MaxUpdates = 2
  MaxCrashes = 0
  MaxDisruptions = 0
  MaxLost = 0
  MaxDeletes = 0
  MaxFaults = 0
  Patient = TRUE

SPECIFICATION Spec

INVARIANT NoStaleAgreement

CHECK_DEADLOCK FALSE
