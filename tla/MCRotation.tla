----------------------------- MODULE MCRotation -----------------------------
(***************************************************************************)
(* Instances of Rotation.  Names, plaintexts and keys are interchangeable, *)
(* and so are connections that make the same calls.                        *)
(***************************************************************************)
EXTENDS Rotation, TLC

Symmetry == Permutations(Name) \cup Permutations(Value) \cup Permutations(Key)
              \cup Permutations(Conn)
=============================================================================
