\* A replica is removed.
CONSTANTS
  User = {u1}
  Name <- Isvd
  Claim <- Claims
  Pods = {"a", "b"}
  Fact <- Facts
  Refs <- PodRefs
  Content <- TwoReplicas
  Present <- Facts
  None = None
  MaxRequests = 2
  MaxChanges = 0
  MaxCrashes = 0

SPECIFICATION Spec

INVARIANT PrimaryStays

CHECK_DEADLOCK FALSE
