SPECIFICATION Spec
INVARIANT ProofNonceRecovered
CHECK_DEADLOCK FALSE
