\* Edits of the document and of the base configuration, crashes, and a rollout
\* that goes its own pace.
CONSTANTS
  Replicas = {r1, r2}
  Settings = {s1, s2}
  Port = {389, 636}
  Rest = {x1}
  PodId = {1, 2}
  None = None
  MaxEdits = 2
  MaxCrashes = 1

SPECIFICATION FairSpec

INVARIANTS
  TypeOK
  ObjectsAgree
  RestartLoads
  Served

PROPERTY RestartCompletes

\* Users may stop asking.
CHECK_DEADLOCK FALSE
