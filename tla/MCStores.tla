------------------------------ MODULE MCStores ------------------------------
(***************************************************************************)
(* Two callers of each backend, two names, and secrets of a kind whose     *)
(* legacy text parses and of one whose legacy text does not.               *)
(***************************************************************************)
EXTENDS Stores, TLC

CONSTANTS c1, c2

MCAlgorithmOf == c1 :> "Aes256Gcm" @@ c2 :> "XChaCha20Poly1305"

Names == Permutations(Name)
=============================================================================
