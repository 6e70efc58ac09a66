CONSTANTS
  Job = {j1, j2}
  Plain = {menu}
  Once = {doCon}
  Throwing = {menu}
  FinishAll = finishAll
  SigHup = sigHup
  None = none
  Budget = 4
SPECIFICATION Spec
INVARIANTS TypeOK JobsAwaitedUnlessKept SignalAwaited
PROPERTY EveryJobRunsIfReleased
