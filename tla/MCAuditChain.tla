---------------------------- MODULE MCAuditChain ----------------------------
(* The life of one lease, a denial about the same secret, and two rows of  *)
(* an earlier schema.                                                      *)
EXTENDS AuditChain

CONSTANTS e1, e2, e3, e4, old1, old2

MCEventOf ==
    e1   :> [event |-> Event("LeaseGranted", "l", "s"), agent |-> "a"] @@
    e2   :> [event |-> Event("LeaseRenewed", "l", "s"), agent |-> "a"] @@
    e3   :> [event |-> Event("LeaseRevoked", "l", "s"), agent |-> "b"] @@
    e4   :> [event |-> Event("ToolBindingDenied", "l", "s"), agent |-> "a"] @@
    old1 :> [event |-> Event("SecretStored", "l", "s"), agent |-> "b"] @@
    old2 :> [event |-> Event("DekRotated", "l", "s"), agent |-> "b"]
=============================================================================
