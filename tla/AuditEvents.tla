----------------------------- MODULE AuditEvents -----------------------------
(***************************************************************************)
(* The audit events and the columns that a table keeps of them.  An event  *)
(* is [kind, lease, secret]: what its variant carries; the two are options *)
(* and empty where the variant has no such field.                          *)
(***************************************************************************)

EventKinds ==
    {"LeaseGranted", "SecretAccessed", "LeaseRevoked", "LeaseRenewed",
     "AccessDenied", "SecretStored", "SecretRotated", "SecretDeleted",
     "DekRotated", "PolicyReloaded", "SessionCreated", "SessionRevoked",
     "ToolBindingDenied"}

WithLease == {"LeaseGranted", "SecretAccessed", "LeaseRevoked", "LeaseRenewed"}

WithSecret == {"LeaseGranted", "SecretAccessed", "AccessDenied", "SecretStored",
               "SecretRotated", "SecretDeleted", "ToolBindingDenied"}

(* What a variant carries of a lease and a secret.                         *)
Event(kind, lease, secret) ==
    [kind |-> kind,
     lease |-> IF kind \in WithLease THEN {lease} ELSE {},
     secret |-> IF kind \in WithSecret THEN {secret} ELSE {}]

Carried(event) == [lease |-> event.lease, secret |-> event.secret]

\* faulty: renewals are not indexed
IndexedWithoutRenewal(event) ==
    CASE event.kind \in {"LeaseGranted", "SecretAccessed"} ->
           [secret |-> event.secret, lease |-> event.lease]
      [] event.kind = "LeaseRevoked" -> [secret |-> {}, lease |-> event.lease]
      [] event.kind \in {"AccessDenied", "SecretStored", "SecretRotated",
                         "SecretDeleted", "ToolBindingDenied"} ->
           [secret |-> event.secret, lease |-> {}]
      [] OTHER -> [secret |-> {}, lease |-> {}]

(* AuditEvent::indexed_fields, arm by arm                                  *)
IndexedFields(event) ==
    CASE event.kind \in {"LeaseGranted", "SecretAccessed"} ->
           [secret |-> event.secret, lease |-> event.lease]
      [] event.kind \in {"LeaseRevoked", "LeaseRenewed"} ->
           [secret |-> {}, lease |-> event.lease]
      [] event.kind \in {"AccessDenied", "SecretStored", "SecretRotated",
                         "SecretDeleted"} ->
           [secret |-> event.secret, lease |-> {}]
      [] event.kind \in {"DekRotated", "PolicyReloaded"} ->
           [secret |-> {}, lease |-> {}]
      [] event.kind \in {"SessionCreated", "SessionRevoked"} ->
           [secret |-> {}, lease |-> {}]
      [] event.kind = "ToolBindingDenied" ->
           [secret |-> event.secret, lease |-> {}]
=============================================================================
