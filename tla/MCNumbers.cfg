SPECIFICATION Spec
CONSTANTS
  Width = 6
  Second = 4
  MaxAttempts = 7
INVARIANTS BackoffBounded BackoffGrows RangeGuarded NumberKept DurationKept
CHECK_DEADLOCK FALSE
