----------------------------- MODULE NiarlCodec -----------------------------
(***************************************************************************)
(* The byte formats provision-aik exchanges with the HVS Privacy-CA        *)
(* (src/tasks/provision_aik.go), as operators on byte sequences:           *)
(*   getEncryptedBytes   the outer envelope: PKCS#5 pad, AES-128-CBC, the  *)
(*                       AES key wrapped by getTpmSymetricKey under        *)
(*                       RSA-OAEP, behind a big-endian TpmKeyParams header *)
(*   activateCredential  the uint16 size-prefixed credential and secret,   *)
(*                       TPM ActivateCredential, and the sym_blob parse    *)
(*                       and AES-CBC decryption of the proof nonce         *)
(* beside reference encoders written from spec.md 4.2.                     *)
(*                                                                         *)
(* The ciphers are abstracted to what the formats depend on: AES-128 is a  *)
(* keyed permutation of 16-byte blocks (CBC chaining is kept exactly), and *)
(* RSA-OAEP under the Privacy-CA key maps any short message to a block of  *)
(* RsaModulusBytes bytes that the private key inverts.                     *)
(***************************************************************************)
EXTENDS Integers, Sequences, Bitwise

AesBlockSize == 16      \* aes.BlockSize
RsaModulusBytes == 256  \* a 2048-bit Privacy-CA key

Err == [ok |-> FALSE]
Ok(b) == [ok |-> TRUE, bytes |-> b]

MinOf(a, b) == IF a <= b THEN a ELSE b

\* binary.Write(buf, binary.BigEndian, uintN(v)): w bytes, most
\* significant first; a value wider than w bits keeps its low bits.
BigEndian(w, v) == [i \in 1..w |-> (v \div 256^(w - i)) % 256]
U16(v) == BigEndian(2, v)
U32(v) == BigEndian(4, v)

Front(s) == SubSeq(s, 1, Len(s) - 1)

\* The value of big-endian bytes, unsigned, and of four bytes as a
\* two's-complement int32 (binary.Read into an int32): a set top bit makes
\* it -1 minus the value of the complemented bytes.
RECURSIVE Unsigned(_)
Unsigned(b) == IF b = <<>> THEN 0 ELSE Unsigned(Front(b)) * 256 + b[Len(b)]
Int32Of(b) ==
    IF b[1] < 128 THEN Unsigned(b)
    ELSE -1 - Unsigned([i \in 1..4 |-> 255 - b[i]])

-----------------------------------------------------------------------------
(* Ciphers *)

AesEncryptBlock(k, b) == [i \in 1..AesBlockSize |-> (b[i] + k[i]) % 256]
AesDecryptBlock(k, b) == [i \in 1..AesBlockSize |-> (b[i] - k[i]) % 256]
XorBlock(a, b) == [i \in 1..AesBlockSize |-> a[i] ^^ b[i]]

FirstBlock(s) == SubSeq(s, 1, AesBlockSize)
AfterFirstBlock(s) == SubSeq(s, AesBlockSize + 1, Len(s))

\* cipher.NewCBCEncrypter(block, iv).CryptBlocks on a whole number of
\* blocks: each plaintext block is XORed with the previous ciphertext block.
RECURSIVE CbcEncrypt(_, _, _)
CbcEncrypt(k, iv, p) ==
    IF p = <<>> THEN <<>>
    ELSE LET c == AesEncryptBlock(k, XorBlock(iv, FirstBlock(p)))
         IN c \o CbcEncrypt(k, c, AfterFirstBlock(p))

RECURSIVE CbcDecrypt(_, _, _)
CbcDecrypt(k, iv, c) ==
    IF c = <<>> THEN <<>>
    ELSE XorBlock(iv, AesDecryptBlock(k, FirstBlock(c)))
           \o CbcDecrypt(k, FirstBlock(c), AfterFirstBlock(c))

\* rsa.EncryptOAEP under the Privacy-CA public key pub, and its inverse.
RsaOaepEncrypt(pub, m) ==
    [i \in 1..RsaModulusBytes |->
        ((IF i <= Len(m) THEN m[i] ELSE 0) + pub) % 256]

-----------------------------------------------------------------------------
(* getEncryptedBytes and getTpmSymetricKey *)

\* Mutant of Pkcs5Pad: no pad block when the input is already aligned.
Pkcs5PadOnlyWhenUnaligned(p) ==
    LET n == (AesBlockSize - (Len(p) % AesBlockSize)) % AesBlockSize
    IN p \o [i \in 1..n |-> n]

\* The 'hand padding': padding = BlockSize - len % BlockSize bytes, each
\* equal to padding.
Pkcs5Pad(p) ==
    LET n == AesBlockSize - (Len(p) % AesBlockSize)
    IN p \o [i \in 1..n |-> n]

\* getTpmSymetricKey: TpmSymmetricKey (algoId, encScheme, key length, key)
\* encrypted with RSA-OAEP under the Privacy-CA key.
GetTpmSymetricKey(pub, key) ==
    RsaOaepEncrypt(pub, U32(6) \o U16(255) \o U16(Len(key)) \o key)

\* The two TpmKeyParams written ahead of the blobs.
AsymKeyParams ==
    U32(1) \o U16(3) \o U16(1) \o U32(12) \o U32(2048) \o U32(2) \o U32(0)

SymKeyParams(iv) ==
    U32(6) \o U16(255) \o U16(1) \o U32(28) \o U32(128) \o U32(128)
      \o U32(Len(iv)) \o iv

\* getEncryptedBytes(unencrypted) with the random AES key and IV it draws.
GetEncryptedBytes(pub, p, key, iv) ==
    IF Len(p) % AesBlockSize # 0 THEN Err
    ELSE LET symmetricBytes == CbcEncrypt(key, iv, Pkcs5Pad(p))
             asymmetricBytes == GetTpmSymetricKey(pub, key)
         IN Ok(U32(Len(asymmetricBytes)) \o U32(Len(symmetricBytes))
                 \o AsymKeyParams \o SymKeyParams(iv)
                 \o asymmetricBytes \o symmetricBytes)
-----------------------------------------------------------------------------
(* activateCredential *)

\* binary.Read(buf, binary.BigEndian, &v) of a w-byte value at offset off
\* of b: io.ReadFull consumes what is left, up to w bytes, and v keeps its
\* zero value unless all w bytes were there.
ReadValue(b, off, w) ==
    IF Len(b) - off >= w THEN SubSeq(b, off + 1, off + w) ELSE BigEndian(w, 0)
Advance(b, off, w) == MinOf(off + w, Len(b))

\* buf.Next(n) at offset off: at most n of the bytes left.  A negative n
\* slices out of range, which panics.
NextBytes(b, off, n) == SubSeq(b, off + 1, MinOf(off + n, Len(b)))

\* The credential and the secret: a uint16 size, then buf.Next(size),
\* refused only when the size is 0 or exceeds the whole field.
ReadTcgField(f) ==
    LET size == Unsigned(ReadValue(f, 0, 2))
    IN IF size = 0 \/ size > Len(f) THEN Err
       ELSE Ok(NextBytes(f, Advance(f, 0, 2), size))

\* The sym_blob: int32 encryptedBlobLength, int32 algoId, int16 encSchem,
\* int16 sigSchem, then iv = buf.Next(16) and buf.Next(length - len(iv)),
\* decrypted with cipher.NewCBCDecrypter(block, iv).CryptBlocks.  The
\* outcome is "panic" where Next, NewCBCDecrypter or CryptBlocks panics.
DecryptSymBlob(key, blob) ==
    LET length == Int32Of(ReadValue(blob, 0, 4))
        atIv == Advance(blob, Advance(blob, Advance(blob, Advance(blob,
                    0, 4), 4), 2), 2)
        iv == NextBytes(blob, atIv, AesBlockSize)
        atBytes == Advance(blob, atIv, AesBlockSize)
        n == length - Len(iv)
        encryptedBytes == NextBytes(blob, atBytes, n)
    IN CASE n < 0 -> [ok |-> FALSE, panic |-> TRUE]
         [] Len(iv) # AesBlockSize -> [ok |-> FALSE, panic |-> TRUE]
         [] Len(encryptedBytes) % AesBlockSize # 0 ->
                [ok |-> FALSE, panic |-> TRUE]
         [] OTHER -> Ok(CbcDecrypt(key, iv, encryptedBytes))

\* activateCredential(identityProofRequest) against a TPM whose
\* ActivateCredential(credential, secret) yields symKey exactly for the
\* credential and secret HVS made for it (tpmCredential, tpmSecret).  The
\* result records whether the TPM was asked.
ActivateCredential(req, tpmCredential, tpmSecret, symKey) ==
    LET credential == ReadTcgField(req.credential)
        secret == ReadTcgField(req.secret)
    IN CASE ~credential.ok \/ ~secret.ok ->
                [outcome |-> "error", tpm |-> FALSE]
         [] credential.bytes # tpmCredential \/ secret.bytes # tpmSecret ->
                [outcome |-> "error", tpm |-> TRUE]
         [] OTHER ->
                LET d == DecryptSymBlob(symKey, req.symBlob)
                IN IF d.ok
                   THEN [outcome |-> "ok", tpm |-> TRUE, bytes |-> d.bytes]
                   ELSE [outcome |-> "panic", tpm |-> TRUE]

-----------------------------------------------------------------------------
(* The formats of spec.md 4.2, as tables of big-endian fields: a field    *)
(* [w |-> n, v |-> x] is the n-byte value x, [w |-> 0, v |-> s] the raw   *)
(* bytes s.                                                                *)

RECURSIVE Serialize(_)
Serialize(fields) ==
    IF fields = <<>> THEN <<>>
    ELSE LET f == Head(fields)
         IN (IF f.w = 0 THEN f.v ELSE BigEndian(f.w, f.v))
              \o Serialize(Tail(fields))

F(w, v) == [w |-> w, v |-> v]
Raw(s) == [w |-> 0, v |-> s]

\* 4.2.1 step 2: always pad, the pad byte equal to the pad length.
SpecPad(p) ==
    LET n == AesBlockSize - (Len(p) % AesBlockSize)
    IN p \o [i \in 1..n |-> n]

\* 4.2.1 and 4.2.2: the outer envelope of plaintext p.
SpecEnvelope(pub, p, key, iv) ==
    LET cSym == CbcEncrypt(key, iv, SpecPad(p))
        cAsym == RsaOaepEncrypt(pub,
                    Serialize(<<F(4, 6), F(2, 255), F(2, Len(key)), Raw(key)>>))
    IN Serialize(<<F(4, Len(cAsym)), F(4, Len(cSym)),
                   F(4, 1), F(2, 3), F(2, 1), F(4, 12),
                   F(4, 2048), F(4, 2), F(4, 0),
                   F(4, 6), F(2, 255), F(2, 1), F(4, 28),
                   F(4, 128), F(4, 128), F(4, 16), Raw(iv),
                   Raw(cAsym), Raw(cSym)>>)

\* 4.2.3: the sym_blob HVS sends with the proof request for nonce.
SpecSymBlob(nonce, key, iv) ==
    LET c == CbcEncrypt(key, iv, SpecPad(nonce))
    IN Serialize(<<F(4, AesBlockSize + Len(c)), F(4, 6), F(2, 1), F(2, 0),
                   F(4, 0), Raw(iv), Raw(c)>>)

\* 4.2.4: a size-prefixed field whose prefix is its payload's length.
SpecTcgField(payload) == Serialize(<<F(2, Len(payload)), Raw(payload)>>)
=============================================================================
