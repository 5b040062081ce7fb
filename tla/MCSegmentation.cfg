SPECIFICATION Spec
CONSTANT Lengths <- BoundaryLengths
CHECK_DEADLOCK FALSE
INVARIANTS WholeFile Carried FailsOnlyAt
