----------------------------- MODULE MCEnvelope -----------------------------
(***************************************************************************)
(* One call of getEncryptedBytes (provision_aik.go) on a bounded set of    *)
(* plaintexts: every length from 0 to MaxPlain (two full blocks and one    *)
(* byte past them), each with two contents, one of them bytes equal to a   *)
(* full pad block; two AES keys and two IVs as crypt.GetRandomBytes may    *)
(* return them.  The call is compared with the spec.md 4.2.1 envelope.     *)
(* After the call the harness stops: deadlock is not checked.              *)
(***************************************************************************)
EXTENDS NiarlCodec

MaxPlain == 33
PrivacyCaKey == 77

Plaintexts ==
    {[i \in 1..n |-> (7 * i) % 256] : n \in 0..MaxPlain}
      \cup {[i \in 1..n |-> AesBlockSize] : n \in 0..MaxPlain}
Keys == {[i \in 1..AesBlockSize |-> i], [i \in 1..AesBlockSize |-> 255 - i]}
Ivs == {[i \in 1..AesBlockSize |-> 0], [i \in 1..AesBlockSize |-> (16 * i) % 256]}

VARIABLES plain, key, iv, called, env

vars == <<plain, key, iv, called, env>>

Init ==
    /\ plain \in Plaintexts
    /\ key \in Keys
    /\ iv \in Ivs
    /\ called = FALSE
    /\ env = Err

Encrypt ==
    /\ ~called
    /\ called' = TRUE
    /\ env' = GetEncryptedBytes(PrivacyCaKey, plain, key, iv)
    /\ UNCHANGED <<plain, key, iv>>

Spec == Init /\ [][Encrypt]_vars

\* spec.md 4.2.1 and 8.2/8.3: every envelope getEncryptedBytes returns is
\* byte for byte the specified one: both lengths, the two TpmKeyParams at
\* their offsets, the IV, the wrapped AES key, and the plaintext padded
\* with a full PKCS#5 block even when it is already aligned.
EnvelopeMatchesSpec ==
    called /\ env.ok => env.bytes = SpecEnvelope(PrivacyCaKey, plain, key, iv)

\* spec.md 4.2.1: the envelope is defined for any plaintext P (the EK
\* certificate DER has arbitrary length); getEncryptedBytes refuses a
\* length that is not a multiple of aes.BlockSize.
EnvelopeForEveryPlaintext == called => env.ok
=============================================================================
