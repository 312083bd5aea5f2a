\* One request to /host/application-measurement, for every permission
\* outcome and every way getApplicationMeasurement returns.  A request
\* ends when errorHandler returns, so a final state is not a deadlock.
SPECIFICATION Spec
CHECK_DEADLOCK FALSE
INVARIANT ReplyStatusIsIntended
