SPECIFICATION Spec
CONSTANTS
  Runs = {r1, r2, r3}
  Events = {e1, e2}
  MaxFaults = 2
SYMMETRY MCSymmetry
INVARIANTS CompletedRunIsEffective FailureHasCause EventsSurviveMigration RefusedOnlyAfterFailure IInv
CHECK_DEADLOCK FALSE
