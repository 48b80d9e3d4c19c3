CONSTANTS
  MaxRepeats = 3
SPECIFICATION Spec
INVARIANTS RefusedMeansUntouched SuccessMeansDone AnnotationHolds
CHECK_DEADLOCK FALSE
