SPECIFICATION Spec
CONSTANTS
  api = api
  worker = worker
  j1 = j1
  j2 = j2
  Jobs = {j1, j2}
  Delayed = {j2}
  Unknown = {j2}
  Redis = TRUE
  Processes = {api, worker}
  Overlap = 1
  Limit = 2
  None = None
INVARIANTS
  ExecutedOnce
  OutcomeIsTrue
PROPERTIES
  EveryJobEnds
