\* The document is deleted and made again at once.
CONSTANTS
  p1 = p1
  p2 = p2
  p3 = p3
  PVC = {p1, p2}
  Docs <- GrowDocs
  PodId = {1}
  OtherPod = OtherPod
  None = None
  MaxUpdates = 2
  MaxCrashes = 0
  MaxDisruptions = 0
  MaxLost = 0
  MaxDeletes = 1
  MaxFaults = 1
  Patient = FALSE

SPECIFICATION Spec

INVARIANT ServedAgain

CHECK_DEADLOCK FALSE
