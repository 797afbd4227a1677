SPECIFICATION Spec
SYMMETRY WorkerSymmetry
CONSTANTS
  LegPages <- TwoThenOne
  Workers = {w1, w2}
  Candidates = 1
  BreakerFailures = 2
  FaultKinds = {"unavailable", "invalid"}
  MaxFaults = 3
  MaxEvictions = 1
  MayCancel = TRUE
INVARIANTS CancelStopsCalls HealthyLegCarriesPage FirstCauseKept UploadedOnce
