------------------------------ MODULE AesModes ------------------------------
(***************************************************************************)
(* The encryptors of util/encrypt/aes/aes.go: ECB and CBC with PKCS#7      *)
(* padding, and the stream modes CFB, OFB and CTR. The state is the last  *)
(* call and its result.                                                    *)
(*                                                                         *)
(* AES is an ideal block cipher: decrypting with the key that encrypted    *)
(* gives the bytes back; with another key, or on bytes that no encryptor   *)
(* produced, it gives arbitrary bytes, of which only the last one is read. *)
(* A ciphertext is [mode, key, len, body]: its length in bytes after       *)
(* base64 decoding (IV included) and the payload bytes its key decrypts    *)
(* it to.                                                                  *)
(* B is aes.BlockSize, 16 in Go.                                           *)
(***************************************************************************)
EXTENDS Integers, Sequences

CONSTANTS
    B,              \* block size in bytes
    Keys,           \* keys passed to NewECB / NewCBC / ...
    ValidKeys,      \* keys aes.NewCipher accepts (16, 24 or 32 bytes)
    PlainBytes,     \* byte values of plaintexts
    MaxPlain,       \* bound: bytes of a plaintext
    MaxForged,      \* bound: bytes of a ciphertext no encryptor produced
    ByteVals,       \* byte values an arbitrary decryption may yield
    Panic, Err      \* a call that panics; a call that returns an error

Modes == {"ECB", "CBC", "CFB", "OFB", "CTR"}
Plains == UNION {[1..n -> PlainBytes] : n \in 0..MaxPlain}

VARIABLES
    call,       \* [fn, mode, key, input]: the last Encrypt or Decrypt call
    result      \* its result: a ciphertext, a plaintext, Err or Panic

vars == <<call, result>>

-----------------------------------------------------------------------------
(* pKCS7Padding (aes.go:21-25): 1..B bytes, each holding the count.        *)
PaddingNoFullBlock(p) ==
    LET pad == (B - (Len(p) % B)) % B IN p \o [i \in 1..pad |-> pad]
PKCS7Padding(p) ==
    LET pad == B - (Len(p) % B) IN p \o [i \in 1..pad |-> pad]

(* pKCS7UnPadding (aes.go:27-31): drop as many bytes as the last byte      *)
(* says, without checking it; plaintext[length-1] of an empty slice and a  *)
(* negative slice bound both panic.                                        *)
PKCS7UnPadding(p) ==
    IF Len(p) = 0 \/ p[Len(p)] > Len(p) THEN Panic
    ELSE SubSeq(p, 1, Len(p) - p[Len(p)])

(* Encrypt of each mode, once NewCipher accepted the key. ECB.Encrypt      *)
(* (aes.go:48-62) writes the padded blocks; CBC.Encrypt (aes.go:93-111) a  *)
(* random IV, then the padded blocks; CFB, OFB and CTR.Encrypt             *)
(* (aes.go:150-167, 202-219, 254-271) an IV, then one byte per plaintext   *)
(* byte.                                                                    *)
ECBEncrypt(k, p) == [mode |-> "ECB", key |-> k, len |-> Len(PKCS7Padding(p)), body |-> PKCS7Padding(p)]
CBCEncrypt(k, p) == [mode |-> "CBC", key |-> k, len |-> B + Len(PKCS7Padding(p)), body |-> PKCS7Padding(p)]
StreamEncrypt(m, k, p) == [mode |-> m, key |-> k, len |-> B + Len(p), body |-> p]
CFBEncrypt(k, p) == StreamEncrypt("CFB", k, p)
OFBEncrypt(k, p) == StreamEncrypt("OFB", k, p)
CTREncrypt(k, p) == StreamEncrypt("CTR", k, p)

(* The Encrypt method of mode m; aes.NewCipher fails on a bad key.         *)
Encrypt(m, k, p) ==
    IF k \notin ValidKeys THEN Err
    ELSE CASE m = "ECB" -> ECBEncrypt(k, p)
           [] m = "CBC" -> CBCEncrypt(k, p)
           [] m = "CFB" -> CFBEncrypt(k, p)
           [] m = "OFB" -> OFBEncrypt(k, p)
           [] m = "CTR" -> CTREncrypt(k, p)

(* Arbitrary decrypted bytes of length n: only the last byte is read (by   *)
(* pKCS7UnPadding), so the others are 0.                                    *)
Garbage(n, last) == [i \in 1..(IF n < 0 THEN 0 ELSE n) |-> IF i = n THEN last ELSE 0]

(* The bytes that block.Decrypt, CryptBlocks or XORKeyStream write for the *)
(* payload of c under key k, with g the arbitrary outcome.                *)
Payload(c, k, g) == IF c.key = k THEN c.body ELSE g

(* Decrypt of each mode, after base64 decoding succeeded and NewCipher     *)
(* accepted k. ECB.Decrypt (aes.go:64-82) has no length check: a partial   *)
(* last block makes the slice plaintext[bs:be] run past the buffer.        *)
(* CBC.Decrypt (aes.go:113-139) rejects fewer than B bytes and a payload   *)
(* of partial blocks. CFB, OFB and CTR.Decrypt (aes.go:169-191, 221-243,   *)
(* 273-295) reject fewer than B bytes and return the payload unpadded.     *)
ECBDecrypt(k, c, g) == IF c.len % B # 0 THEN Panic ELSE PKCS7UnPadding(Payload(c, k, g))
CBCDecrypt(k, c, g) ==
    IF c.len < B \/ (c.len - B) % B # 0 THEN Err ELSE PKCS7UnPadding(Payload(c, k, g))
StreamDecrypt(k, c, g) == IF c.len < B THEN Err ELSE Payload(c, k, g)
CFBDecrypt(k, c, g) == StreamDecrypt(k, c, g)
OFBDecrypt(k, c, g) == StreamDecrypt(k, c, g)
CTRDecrypt(k, c, g) == StreamDecrypt(k, c, g)

DecryptBytes(m, k, c, g) ==
    CASE m = "ECB" -> ECBDecrypt(k, c, g)
      [] m = "CBC" -> CBCDecrypt(k, c, g)
      [] m = "CFB" -> CFBDecrypt(k, c, g)
      [] m = "OFB" -> OFBDecrypt(k, c, g)
      [] m = "CTR" -> CTRDecrypt(k, c, g)

PayloadLen(m, c) == IF m = "ECB" THEN c.len ELSE c.len - B

(* Ciphertexts a Decrypt of mode m may be handed: one an encryptor of that *)
(* mode produced, or bytes of any length that no encryptor produced.       *)
Genuine(m) == {Encrypt(m, k, p) : k \in ValidKeys, p \in Plains}
Forged(m) == [mode : {m}, key : {"forged"}, len : 0..MaxForged, body : {<< >>}]

Init == call = [fn |-> "none"] /\ result = Err

CallEncrypt(m, k, p) ==
    /\ call' = [fn |-> "encrypt", mode |-> m, key |-> k, input |-> p]
    /\ result' = Encrypt(m, k, p)

(* Decrypt: base64 decoding of a forged string may fail; a bad key fails   *)
(* NewCipher; otherwise the mode's decryption.                             *)
CallDecrypt(m, k, c) ==
    /\ call' = [fn |-> "decrypt", mode |-> m, key |-> k, input |-> c]
    /\ \/ result' = Err /\ (k \notin ValidKeys \/ c.key = "forged")
       \/ /\ k \in ValidKeys
          /\ \E last \in ByteVals :
                result' = DecryptBytes(m, k, c, Garbage(PayloadLen(m, c), last))

Next ==
    \/ \E m \in Modes, k \in Keys, p \in Plains : CallEncrypt(m, k, p)
    \/ \E m \in Modes, k \in Keys : \E c \in Genuine(m) \cup Forged(m) : CallDecrypt(m, k, c)

Spec == Init /\ [][Next]_vars

-----------------------------------------------------------------------------
Decryption == call.fn = "decrypt"
GenuineWithItsKey == Decryption /\ call.input.key = call.key

(* Decrypting what Encrypt produced, with the same key and mode, returns   *)
(* the plaintext, for every length (a full padding block when the length   *)
(* is a multiple of B).                                                     *)
DecryptInvertsEncrypt ==
    GenuineWithItsKey =>
        \E p \in Plains : call.input = Encrypt(call.mode, call.key, p) /\ result = p
=============================================================================
