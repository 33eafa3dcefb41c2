--------------------------------- MODULE Rsa ---------------------------------
(***************************************************************************)
(* The PEM helpers of util/encrypt/rsa/rsa.go and OpensslRsaSign, which    *)
(* goes through them. A key is a model value; an encoded key is its DER    *)
(* form [fmt, alg, key]: PKCS#1 (RSA private keys only), PKCS#8 (private   *)
(* keys of any algorithm) or PKIX (public keys of any algorithm). A PEM    *)
(* input is a block [label, der], or NoBlock when pem.Decode finds none.   *)
(* The state is the last call and its result.                             *)
(***************************************************************************)
EXTENDS Naturals

CONSTANTS
    RsaKeys,    \* RSA key pairs (a private key and its public half)
    EcKeys,     \* keys of another algorithm (ECDSA)
    Inputs,     \* strings signed
    NoBlock,    \* bytes in which pem.Decode finds no block
    Panic, Err  \* a call that panics; a call that returns an error

VARIABLES call, result

vars == <<call, result>>

Labels == {"RSA PRIVATE KEY", "PRIVATE KEY", "RSA PUBLIC KEY", "PUBLIC KEY"}
Ders ==
    [fmt : {"PKCS1"}, alg : {"RSA"}, key : RsaKeys]
    \cup [fmt : {"PKCS8", "PKIX"}, alg : {"RSA"}, key : RsaKeys]
    \cup [fmt : {"PKCS8", "PKIX"}, alg : {"EC"}, key : EcKeys]
Pems == {NoBlock} \cup [label : Labels, der : Ders]

-----------------------------------------------------------------------------
(* The x509 parsers: each accepts DER of its own format only.              *)
ParsePKCS1PrivateKey(der) == IF der.fmt = "PKCS1" THEN der.key ELSE Err
ParsePKCS8PrivateKey(der) == IF der.fmt = "PKCS8" THEN der ELSE Err
ParsePKIXPublicKey(der) == IF der.fmt = "PKIX" THEN der ELSE Err

(* PrivateKeyToPEM (rsa.go:88-95) and PublicKeyToPEM (rsa.go:98-108).      *)
PrivateKeyToPEM(k) == [label |-> "RSA PRIVATE KEY", der |-> [fmt |-> "PKCS1", alg |-> "RSA", key |-> k]]
PublicKeyToPEMStdLabel(k) == [label |-> "PUBLIC KEY", der |-> [fmt |-> "PKIX", alg |-> "RSA", key |-> k]]
PublicKeyToPEM(k) == [label |-> "RSA PUBLIC KEY", der |-> [fmt |-> "PKIX", alg |-> "RSA", key |-> k]]

(* The block check that the three parsers start with.                      *)
HasBlock(p, label) == p # NoBlock /\ p.label = label

(* PEMToPrivateKey (rsa.go:111-121).                                       *)
PEMToPrivateKey(p) ==
    IF ~HasBlock(p, "RSA PRIVATE KEY") THEN Err ELSE ParsePKCS1PrivateKey(p.der)

(* PEMToPrivatePKCS8Key (rsa.go:124-135): the PKCS#1 label, a PKCS#8 parse *)
(* and the unchecked type assertion of priv to an RSA private key, which   *)
(* panics on a key of another algorithm.                                   *)
PEMToPrivatePKCS8Key(p) ==
    IF ~HasBlock(p, "RSA PRIVATE KEY") THEN Err
    ELSE LET k == ParsePKCS8PrivateKey(p.der)
         IN IF k = Err THEN Err ELSE IF k.alg # "RSA" THEN Panic ELSE k.key

(* PEMToPublicKey (rsa.go:138-153): keys of another algorithm are an       *)
(* error ("not RSA public key").                                           *)
PEMToPublicKey(p) ==
    IF ~HasBlock(p, "RSA PUBLIC KEY") THEN Err
    ELSE LET k == ParsePKIXPublicKey(p.der)
         IN IF k = Err \/ k.alg # "RSA" THEN Err ELSE k.key

(* openssl.RSASign of github.com/forgoer/openssl decodes a PKCS#1 PEM and  *)
(* signs; a signature is the key and the input.                            *)
RSASign(input, pem) ==
    LET k == PEMToPrivateKey(pem) IN IF k = Err THEN Err ELSE [by |-> k, of |-> input]

(* OpensslRsaSign (rsa.go:156-167): "" (the empty sequence) on either     *)
(* error.                                                                  *)
OpensslRsaSign(p, input) ==
    LET k == PEMToPrivatePKCS8Key(p)
    IN IF k = Panic THEN Panic
       ELSE IF k = Err THEN << >>
       ELSE LET s == RSASign(input, PrivateKeyToPEM(k)) IN IF s = Err THEN << >> ELSE s

Init == call = [fn |-> "none"] /\ result = << >>

(* Writing key k as PEM and reading it back (WritePrivateKeyToFile,        *)
(* ReadPrivateKeyFromFile and their public counterparts, rsa.go:16-58,     *)
(* with the file's bytes passed through).                                  *)
CallPemRoundTrip(k) ==
    /\ call' = [fn |-> "pem", key |-> k]
    /\ result' = [priv |-> PEMToPrivateKey(PrivateKeyToPEM(k)),
                  pub |-> PEMToPublicKey(PublicKeyToPEM(k))]

CallSign(p, input) ==
    /\ call' = [fn |-> "sign", pem |-> p, input |-> input]
    /\ result' = OpensslRsaSign(p, input)

Next ==
    \/ \E k \in RsaKeys : CallPemRoundTrip(k)
    \/ \E p \in Pems, input \in Inputs : CallSign(p, input)

Spec == Init /\ [][Next]_vars

-----------------------------------------------------------------------------
(* A key pair written by PrivateKeyToPEM and PublicKeyToPEM reads back, by *)
(* PEMToPrivateKey and PEMToPublicKey, as the same key pair.               *)
PemRoundTrip ==
    call.fn = "pem" => result = [priv |-> call.key, pub |-> call.key]
=============================================================================
