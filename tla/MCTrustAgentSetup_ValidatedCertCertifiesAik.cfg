CONSTANTS
    s1 = s1
    s2 = s2
    a1 = a1
    a2 = a2
    a3 = a3
    Empty = empty
    NoAik = noAik
    NoCert = noCert
    OwnerSecrets <- MCOwnerSecrets
    AikSecrets <- MCAikSecrets
    MaxAik = 3
    MayFail = TRUE

SPECIFICATION Spec


INVARIANT ValidatedCertCertifiesAik
