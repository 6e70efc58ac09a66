CONSTANTS
  Job = {j1}
  Plain = {}
  Once = {doCon}
  Throwing = {}
  FinishAll = finishAll
  SigHup = sigHup
  None = none
  Budget = 3
SPECIFICATION Spec
PROPERTY EveryJobRuns
