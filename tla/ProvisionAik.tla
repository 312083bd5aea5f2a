---------------------------- MODULE ProvisionAik ----------------------------
(***************************************************************************)
(* The provision-aik setup task (src/tasks/provision_aik.go).  Run():      *)
(*   createAik               generate the AIK secret if the configuration  *)
(*                           has none, then TPM CreateAik                  *)
(*   populateIdentityRequest GetAikBytes, GetAikName                       *)
(*   getEndorsementKeyBytes  NvRead of the EK certificate                  *)
(*   getEncryptedBytes(ek)   refuses a length that is not a multiple of 16 *)
(*   x509.ParseCertificate   on error cert is nil and cert.PublicKey       *)
(*                           panics                                        *)
(*   ProcessIdentityRequest  (privacyca library) builds the proof request  *)
(*   activateCredential      TPM ActivateCredential, decrypt the nonce     *)
(*   getEncryptedBytes(nonce) and return nil.                              *)
(* Run writes nothing to disk: the AIK certificate is neither requested    *)
(* from HVS nor saved.  Validate() only checks that aik.cer exists.        *)
(* Every TPM call opens and closes its own context and nothing runs        *)
(* concurrently with the task, so Run is one step with one disjunct per    *)
(* way out of it.                                                          *)
(***************************************************************************)
EXTENDS TpmProvider

CONSTANTS NoCert    \* no file at constants.AikCert

VARIABLES
    tpmOwner,       \* the TPM owner password
    tpmAik,         \* the AIK at TPM_HANDLE_AIK, or NoAik
    aikKeys,        \* number of AIK key pairs created so far
    ekCert,         \* the EK certificate in NV: [aligned, parses]
    ownerSecret,    \* task.ownerSecretKey
    aikSecret,      \* *task.aikSecretKey, the configuration's AIK secret
    usedAikSecrets, \* AIK secrets generated or loaded so far
    certFile,       \* aik.cer: the AIK key it certifies, or NoCert
    paState,        \* "idle", "run", "validate", "validated", "run_failed",
                    \* "panicked", "validate_failed"
    paError         \* why Run failed: "none", "aik_exists", "other"

paVars == <<tpmOwner, tpmAik, aikKeys, ekCert, ownerSecret, aikSecret,
            usedAikSecrets, certFile, paState, paError>>

\* The EK certificate is DER of arbitrary length; aligned means its length
\* is a multiple of aes.BlockSize, parses that x509.ParseCertificate accepts
\* it.
EkCerts == [aligned : BOOLEAN, parses : BOOLEAN]

PaStates == {"idle", "run", "validate", "validated", "run_failed",
             "panicked", "validate_failed"}

TypeOK ==
    /\ tpmOwner \in OwnerAuths
    /\ tpmAik \in Aik \cup {NoAik}
    /\ aikKeys \in 0..MaxAik
    /\ ekCert \in EkCerts
    /\ ownerSecret \in OwnerAuths
    /\ aikSecret \in AikSecrets \cup {Empty}
    /\ usedAikSecrets \subseteq AikSecrets
    /\ certFile \in (1..MaxAik) \cup {NoCert}
    /\ paState \in PaStates
    /\ paError \in {"none", "aik_exists", "other"}

\* createAik: the secret CreateAik is called with.  An empty configuration
\* value is replaced by crypt.GetHexRandomString(20), a fresh secret.
AikSecretFor(secret) ==
    IF secret = Empty THEN AikSecrets \ usedAikSecrets ELSE {secret}

\* createAik: CreateAik(ownerSecret, aikSecret) succeeds.
AikCreated(secret) ==
    /\ CreateAikAllowed(tpmOwner, tpmAik, ownerSecret, secret)
    /\ tpmAik' = CreatedAik(tpmAik, secret, aikKeys)
    /\ aikKeys' = IF tpmAik = NoAik THEN aikKeys + 1 ELSE aikKeys

\* populateIdentityRequest (GetAikBytes, GetAikName) and
\* getEndorsementKeyBytes (NvRead of the EK certificate) read the TPM and
\* change nothing; they fail only on a run-time error.  What they read is
\* data the model abstracts (ekCert).
PopulateIdentityRequestFails == \E e \in RuntimeFailure : e
GetEndorsementKeyBytesFails == \E e \in RuntimeFailure : e

\* Run(): every exit path.  The steps after createAik change no TPM state;
\* they differ only in whether Run returns nil, an error, or panics.
Run ==
    /\ paState = "run"
    /\ \E secret \in AikSecretFor(aikSecret) :
        /\ aikSecret' = secret
        /\ usedAikSecrets' = usedAikSecrets \cup {secret}
        /\ \/ \* NewTpmProvider or CreateAik fails: a device error, or the
              \* owner secret does not authorise
              /\ MayFail \/ ~IsOwnedWithAuth(tpmOwner, ownerSecret)
              /\ paState' = "run_failed"
              /\ paError' = "other"
              /\ UNCHANGED <<tpmAik, aikKeys>>
           \/ \* CreateAik refuses: the AIK exists under another secret
              /\ IsOwnedWithAuth(tpmOwner, ownerSecret)
              /\ ~CreateAikAllowed(tpmOwner, tpmAik, ownerSecret, secret)
              /\ paState' = "run_failed"
              /\ paError' = "aik_exists"
              /\ UNCHANGED <<tpmAik, aikKeys>>
           \/ \* GetAikBytes, GetAikName, NvRead, reading the Privacy-CA,
              \* ProcessIdentityRequest or ActivateCredential fails
              /\ AikCreated(secret)
              /\ \/ PopulateIdentityRequestFails
                 \/ GetEndorsementKeyBytesFails
                 \/ \E e \in RuntimeFailure : e
              /\ paState' = "run_failed"
              /\ paError' = "other"
           \/ \* getEncryptedBytes(ekCertBytes) refuses the EK length
              /\ AikCreated(secret)
              /\ ~ekCert.aligned
              /\ paState' = "run_failed"
              /\ paError' = "other"
           \/ \* the EK is encrypted but does not parse: nil dereference
              /\ AikCreated(secret)
              /\ ekCert.aligned
              /\ ~ekCert.parses
              /\ paState' = "panicked"
              /\ paError' = "other"
           \/ \* ActivateCredential with the secret just used succeeds,
              \* the nonce is re-encrypted and dropped, Run returns nil
              /\ AikCreated(secret)
              /\ ekCert.aligned
              /\ ekCert.parses
              /\ CanActivateCredential(tpmOwner, tpmAik', ownerSecret, secret)
              /\ paState' = "validate"
              /\ paError' = "none"
    /\ UNCHANGED <<tpmOwner, ekCert, ownerSecret, certFile>>

\* Validate(): os.Stat(constants.AikCert) must not report "not exist".
Validate ==
    /\ paState = "validate"
    /\ paState' = IF certFile # NoCert THEN "validated" ELSE "validate_failed"
    /\ UNCHANGED <<tpmOwner, tpmAik, aikKeys, ekCert, ownerSecret, aikSecret,
                   usedAikSecrets, certFile, paError>>
=============================================================================
