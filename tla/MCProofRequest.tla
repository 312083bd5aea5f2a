--------------------------- MODULE MCProofRequest ---------------------------
(***************************************************************************)
(* One call of activateCredential (provision_aik.go) on the identity-proof *)
(* requests spec.md 4.2.3 and 4.2.4 define: the credential and secret the  *)
(* TPM accepts, each behind a size prefix equal to its length, and the     *)
(* sym_blob encodings of four nonces (empty, short, one block, over a      *)
(* block).  After the call the harness stops: deadlock is not checked.     *)
(***************************************************************************)
EXTENDS NiarlCodec

TpmCredential == <<1, 2, 3>>
TpmSecret == <<9, 8>>
SymKey == [i \in 1..AesBlockSize |-> (3 * i) % 256]
ProofIv == [i \in 1..AesBlockSize |-> 100 + i]

Nonces == {<<>>, <<5, 6, 7>>, [i \in 1..16 |-> i], [i \in 1..20 |-> 40 + i]}

Requests ==
    [credential : {SpecTcgField(TpmCredential)},
     secret : {SpecTcgField(TpmSecret)},
     symBlob : {SpecSymBlob(n, SymKey, ProofIv) : n \in Nonces}]

NotCalled == [outcome |-> "none", tpm |-> FALSE]

VARIABLES req, result

vars == <<req, result>>

Init ==
    /\ req \in Requests
    /\ result = NotCalled

Activate ==
    /\ result = NotCalled
    /\ result' = ActivateCredential(req, TpmCredential, TpmSecret, SymKey)
    /\ UNCHANGED req

Spec == Init /\ [][Activate]_vars

\* spec.md 4.2.3 and 8.4: activateCredential returns the nonce HVS
\* encrypted in a well-formed identity-proof request: the sym_blob's
\* subParamsLen is skipped and the PKCS#5 padding stripped.
ProofNonceRecovered ==
    \A n \in Nonces :
        req.symBlob = SpecSymBlob(n, SymKey, ProofIv) /\ result # NotCalled
            => result.outcome = "ok" /\ result.bytes = n

=============================================================================
