SPECIFICATION Spec
INVARIANT EnvelopeForEveryPlaintext
CHECK_DEADLOCK FALSE
