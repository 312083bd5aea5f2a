\* One request to /host/application-measurement; a request ends when
\* errorHandler returns, so a final state is not a deadlock.
SPECIFICATION Spec
CHECK_DEADLOCK FALSE
INVARIANT ResponseWrittenWhole
