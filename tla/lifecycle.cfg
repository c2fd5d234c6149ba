\* The protocol with crashes and with API errors that are only logged.
CONSTANTS
  Absent = Absent
  MaxEdits = 4
  MaxCrashes = 2
  MaxErrors = 1

SPECIFICATION FairSpec

INVARIANTS
  TypeOK
  FrozenWhileWorked

PROPERTIES
  ImplementsGate
  EveryEditAnswered
  InProgressClears

\* Users may stop asking.
CHECK_DEADLOCK FALSE
