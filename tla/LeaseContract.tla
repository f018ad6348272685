---------------------------- MODULE LeaseContract ----------------------------
(***************************************************************************)
(* What a lease is to those who hold one, with none of the machinery that  *)
(* serves it: it is granted once, secrets are handed out only to callers   *)
(* that were authorised while it ran, and once it is over it stays over.   *)
(*                                                                         *)
(* Vault implements this module (VaultRefinement); Provider is a client    *)
(* of it.                                                                  *)
(***************************************************************************)
EXTENDS Naturals

CONSTANTS LeaseId,   \* leases still to be granted
          Caller     \* those who request secrets

VARIABLES phase,     \* "unborn", "granted" or "over"
          pending,   \* callers authorised and not yet answered
          served     \* secrets handed out

vars == <<phase, pending, served>>

Init ==
    /\ phase = [id \in LeaseId |-> "unborn"]
    /\ pending = [id \in LeaseId |-> {}]
    /\ served = [id \in LeaseId |-> 0]

Grant(id) ==
    /\ phase[id] = "unborn"
    /\ phase' = [phase EXCEPT ![id] = "granted"]
    /\ UNCHANGED <<pending, served>>

(* The lease still runs when the caller is let in, ...                     *)
Authorize(id, c) ==
    /\ phase[id] = "granted"
    /\ pending' = [pending EXCEPT ![id] = @ \cup {c}]
    /\ UNCHANGED <<phase, served>>

(* ... not necessarily when it is answered, ...                            *)
Deliver(id, c) ==
    /\ c \in pending[id]
    /\ pending' = [pending EXCEPT ![id] = @ \ {c}]
    /\ served' = [served EXCEPT ![id] = @ + 1]
    /\ UNCHANGED phase

(* ... and the answer may be an error.                                     *)
Withdraw(id, c) ==
    /\ c \in pending[id]
    /\ pending' = [pending EXCEPT ![id] = @ \ {c}]
    /\ UNCHANGED <<phase, served>>

(* Revocation, expiry, deletion of the secret, collection: of any number   *)
(* of leases at once.                                                      *)
End(ids) ==
    /\ \A id \in ids : phase[id] = "granted"
    /\ phase' = [id \in LeaseId |-> IF id \in ids THEN "over" ELSE phase[id]]
    /\ UNCHANGED <<pending, served>>

(* The process ends: no lease survives it, no caller is answered.          *)
Crash ==
    /\ phase' = [id \in LeaseId |->
                   IF phase[id] = "granted" THEN "over" ELSE phase[id]]
    /\ pending' = [id \in LeaseId |-> {}]
    /\ UNCHANGED served

Next ==
    \/ \E id \in LeaseId :
         \/ Grant(id)
         \/ \E c \in Caller : Authorize(id, c) \/ Deliver(id, c) \/ Withdraw(id, c)
    \/ \E ids \in SUBSET LeaseId : End(ids)
    \/ Crash

Spec == Init /\ [][Next]_vars
=============================================================================
