\* No crash and no failure is needed: an edit of the replicas, then one of
\* something else while the rollout of the first is under way.
CONSTANTS
  Replicas = {r1, r2}
  Settings = {s1}
  Port = {389}
  Rest = {x1}
  PodId = {1, 2}
  None = None
  MaxEdits = 2
  MaxCrashes = 0

SPECIFICATION FairSpec

INVARIANT ProxyFollows

CHECK_DEADLOCK FALSE
