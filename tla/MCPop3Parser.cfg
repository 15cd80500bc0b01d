SPECIFICATION Spec
CONSTANT Lines <- MCLines
INVARIANT
    CommandReadAsSent
CHECK_DEADLOCK FALSE
