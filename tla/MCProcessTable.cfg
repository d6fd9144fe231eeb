SPECIFICATION FairSpec
CONSTANTS
  MAX_PROCESSES = 3
  MaxPid = 5
  MaxNest = 3
  ExitCodes <- MCExitCodes
INVARIANTS
  TypeOK
  RunsInOwnContext
  PidsUnambiguous
  SuspendedFrameIntact
  CurrentSlotNeverFree
  IdleOnlyWhenNothingRuns
PROPERTIES
  EveryTickComesCloser
  ImplementsLifecycle
  ReadyEventuallyRuns
