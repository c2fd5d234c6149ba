\* A cluster in which calls fail, waits time out and jobs expire, but nothing
\* crashes, is evicted, or fails without notice.  A document may be deleted and,
\* when what belonged to it has gone, made again.
CONSTANTS
  p1 = p1
  p2 = p2
  p3 = p3
  PVC = {p1, p2, p3}
  Docs <- ThreeDocs
  PodId = {1}
  OtherPod = OtherPod
  None = None
  MaxUpdates = 4
  MaxCrashes = 0
  MaxDisruptions = 0
  MaxLost = 0
  MaxDeletes = 1
  MaxFaults = 1
  Patient = TRUE

SPECIFICATION Spec

INVARIANTS
  TypeOK
  RemovalIsSafe
  SeedIsolation
  AllServed
  OneDirectory
  FullMesh

PROPERTY ImplementsGate

\* Users may stop asking.
CHECK_DEADLOCK FALSE
