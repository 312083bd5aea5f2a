SPECIFICATION Spec
INVARIANT EnvelopeMatchesSpec
CHECK_DEADLOCK FALSE
