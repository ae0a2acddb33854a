SPECIFICATION Spec
CONSTANTS
  api = api
  worker = worker
  awarded = awarded
  Deliveries = {"d1", "d2", "d3"}
  Events = {awarded}
  Fanout <- ThreeEndpoints
  Processes = {api, worker}
  Overlap = 1
  Concurrency = 2
  BatchSize = 3
  MaxAttempts = 2
  None = "none"
INVARIANTS
  OneSender
  PostsBounded
  OutcomeIsTrue
  BilledOnce
PROPERTIES
  EndsOnce
  EveryDeliveryEnds
