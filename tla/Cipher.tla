------------------------------- MODULE Cipher -------------------------------
(***************************************************************************)
(* zerolease::crypto: what is sealed and what opens it.  A ciphertext      *)
(* stands for its plaintext, key and algorithm and opens under these       *)
(* alone; of a nonce only the length is kept, which differs between the    *)
(* two algorithms.                                                         *)
(***************************************************************************)
EXTENDS Naturals

CipherAlgorithms == {"Aes256Gcm", "XChaCha20Poly1305"}

\* encrypt_aes_gcm
AesGcm(plaintext, key) ==
    [ciphertext |-> [by |-> "Aes256Gcm", value |-> plaintext, key |-> key],
     nonce |-> 12]

\* encrypt_xchacha
XChaCha(plaintext, key) ==
    [ciphertext |-> [by |-> "XChaCha20Poly1305", value |-> plaintext, key |-> key],
     nonce |-> 24]

(* Cipher::encrypt with the default algorithm                              *)
Seal(algorithm, plaintext, key) ==
    LET output == IF algorithm = "Aes256Gcm" THEN AesGcm(plaintext, key)
                                             ELSE XChaCha(plaintext, key)
    IN  [ciphertext |-> output.ciphertext, nonce |-> output.nonce,
         algorithm |-> algorithm]

\* decrypt_aes_gcm, decrypt_xchacha: the plaintext, or {} for an error
OpenAesGcm(sealed, key) ==
    {v \in {sealed.ciphertext.value} :
        /\ sealed.nonce = 12
        /\ sealed.ciphertext.by = "Aes256Gcm" /\ sealed.ciphertext.key = key}

OpenXChaCha(sealed, key) ==
    {v \in {sealed.ciphertext.value} :
        /\ sealed.nonce = 24
        /\ sealed.ciphertext.by = "XChaCha20Poly1305" /\ sealed.ciphertext.key = key}

(* Cipher::decrypt: by the algorithm of what was sealed, not the default   *)
Decrypt(sealed, key) ==
    IF sealed.algorithm = "Aes256Gcm" THEN OpenAesGcm(sealed, key)
                                      ELSE OpenXChaCha(sealed, key)
=============================================================================
