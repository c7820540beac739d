SPECIFICATION Spec
CONSTANT MaxFailed = 3
PROPERTY WithdrawnAfterContinuousFailures
CHECK_DEADLOCK FALSE
