\* The same operator in a cluster where it crashes, where pods are evicted or
\* fail, where errors go unnoticed, and where a document is deleted: any two of
\* these.  What a crash or a lost call left behind is collected with the rest.
CONSTANTS
  p1 = p1
  p2 = p2
  p3 = p3
  PVC = {p1, p2}
  Docs <- FrontDocs
  PodId = {1, 2}
  OtherPod = OtherPod
  None = None
  MaxUpdates = 2
  MaxCrashes = 2
  MaxDisruptions = 1
  MaxLost = 1
  MaxDeletes = 1
  MaxFaults = 2
  Patient = TRUE

SPECIFICATION FairSpec

INVARIANTS
  Frozen
  RemovalIsSafe
  ProxyIsCurrent

PROPERTIES
  ImplementsGate
  Terminates

\* Users may stop asking.
CHECK_DEADLOCK FALSE
