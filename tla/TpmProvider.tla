--------------------------- MODULE TpmProvider ---------------------------
(***************************************************************************)
(* The contract of the TPM provider (intel/isecl/lib/tpmprovider) that the *)
(* trust agent's setup tasks call.  The provider is not part of this       *)
(* repository, so these operators follow the contract of spec.md 4.1:      *)
(* owner authorisation is a comparison of secrets, TakeOwnership only      *)
(* works from the empty owner password, and CreateAik is idempotent only   *)
(* for the secret the existing AIK was created with.                       *)
(*                                                                         *)
(* Secrets are model values; Empty stands for the empty string "".         *)
(***************************************************************************)
EXTENDS Naturals

CONSTANTS
    OwnerSecrets,   \* non-empty owner secrets an operator may supply
    AikSecrets,     \* AIK secrets crypt.GetHexRandomString(20) may return
    Empty,          \* the empty string ""
    NoAik,          \* no AIK at TPM_HANDLE_AIK
    MaxAik,         \* bound on the number of AIKs created in one behaviour
    MayFail         \* whether TPM and I/O calls may fail at run time

ASSUME /\ Empty \notin OwnerSecrets \cup AikSecrets
       /\ MaxAik \in Nat \ {0}
       /\ MayFail \in BOOLEAN

OwnerAuths == OwnerSecrets \cup {Empty}

\* An AIK persisted at TPM_HANDLE_AIK: the secret it was created with and
\* an identity for its key pair (a fresh one for every CreateAik that
\* generates a key).
Aik == [secret : AikSecrets, key : 1..MaxAik]

\* Outcomes a run-time failure (TPM device error, I/O error) may add to a
\* call's outcomes: none unless MayFail.
RuntimeFailure == IF MayFail THEN {TRUE} ELSE {}

\* IsOwnedWithAuth(secret): the owner password authenticates with secret.
IsOwnedWithAuth(owner, secret) == owner = secret

\* TakeOwnership(secret) changes the owner password, authorising with "".
CanTakeOwnership(owner) == owner = Empty

\* CreateAik(ownerSecret, aikSecret) succeeds when the owner secret
\* authorises and the AIK handle is free or holds an AIK of the same secret.
CreateAikAllowed(owner, aik, ownerSecret, aikSecret) ==
    /\ IsOwnedWithAuth(owner, ownerSecret)
    /\ IF aik = NoAik THEN TRUE ELSE aik.secret = aikSecret

\* Mutant of CreatedAik: the new key is numbered from the count before it.
CreatedAikOffByOne(aik, aikSecret, keys) ==
    IF aik = NoAik THEN [secret |-> aikSecret, key |-> keys] ELSE aik

\* The AIK at the handle after a successful CreateAik; keys counts the
\* AIKs created so far.
CreatedAik(aik, aikSecret, keys) ==
    IF aik = NoAik THEN [secret |-> aikSecret, key |-> keys + 1] ELSE aik

\* ActivateCredential(ownerSecret, aikSecret, ...) authorises with both.
CanActivateCredential(owner, aik, ownerSecret, aikSecret) ==
    /\ IsOwnedWithAuth(owner, ownerSecret)
    /\ aik # NoAik
    /\ aik.secret = aikSecret
=============================================================================
