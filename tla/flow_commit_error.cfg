SPECIFICATION Spec
CONSTANTS
  Orders = {o1}
  Faults = {"mongo"}
  MaxSends = 1
  MaxBills = 2
CHECK_DEADLOCK FALSE
INVARIANT CommitErrorsArePropagated
