--------------------------- MODULE VaultRefinement ---------------------------
(***************************************************************************)
(* The vault implements LeaseContract: a lease is granted when its         *)
(* LeaseGranted record is written, over from the moment it is Dead, and    *)
(* the callers authorised are the calls between validate and the guard.    *)
(***************************************************************************)
EXTENDS VaultProperties

PhaseOf(id) ==
    IF <<"LeaseGranted", id>> \notin audit THEN "unborn"
    ELSE IF Dead(id) THEN "over" ELSE "granted"

Contract == INSTANCE LeaseContract WITH
    Caller  <- Conn,
    phase   <- [id \in LeaseId |-> PhaseOf(id)],
    pending <- [id \in LeaseId |-> Accessing(id)],
    served  <- guards

(* Refinement.  Every step of the vault, whatever calls it interleaves, is *)
(* a step of LeaseContract or invisible there: no lease is granted twice,  *)
(* comes back, or yields a secret to a call that was not let in while it   *)
(* ran.                                                                    *)
ContractHeld == Contract!Spec
=============================================================================
