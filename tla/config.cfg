\* Two edits of the document or of the ConfigMap, or crashes, with secrets that
\* come and go, and panics.
CONSTANTS
  s1 = s1
  Replica = {r1, r2}
  Secret = {s1}
  Config <- Configs
  None = None
  LdapPort = 3
  LdapsPort = 5
  Half = 16
  MaxPort = 7
  MaxEdits = 2

SPECIFICATION FairSpec

INVARIANTS
  TypeOK
  PortAgrees
  
  Reached

PROPERTY Recovers

\* Users may stop asking.
CHECK_DEADLOCK FALSE
