\* Two users, whose requests overlap with each other, with the operator and
\* with changes of the cluster.
CONSTANTS
  User = {u1, u2}
  Name <- Isvd
  Claim <- Claims
  Pods = {"a", "b"}
  Fact <- Facts
  Refs <- PodRefs
  Content <- Contents
  Present <- NoSecond
  None = None
  MaxRequests = 4
  MaxChanges = 1
  MaxCrashes = 1

SPECIFICATION Spec

SYMMETRY Users

INVARIANTS
  TypeOK
  ClaimsDistinct
  References

PROPERTIES
  ImplementsGate
  PodsStay

\* Users may stop asking.
CHECK_DEADLOCK FALSE
