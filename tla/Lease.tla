-------------------------------- MODULE Lease --------------------------------
(***************************************************************************)
(* zerolease::lease::Lease, the record the vault keeps, as functions of    *)
(* the record and of the instant the code reads from the clock.  Fields    *)
(* the vault never reads back (id, issued_at) are left out.                *)
(* A definition whose comment calls it faulty, here and in the other       *)
(* modules, is never used: it is a slip of the code that some property of  *)
(* this project would expose.                                              *)
(***************************************************************************)
EXTENDS Policy

NewLease(agent, secret_name, domains, terms, now) ==
    [agent           |-> agent,
     secret_name     |-> secret_name,
     allowed_domains |-> domains,
     expires_at      |-> now + terms.ttl,
     renewable       |-> terms.renewable,
     max_uses        |-> terms.max_uses,
     use_count       |-> 0,
     revoked         |-> FALSE,
     session_id      |-> {},
     renewal_count   |-> 0]

LeaseExpired(lease, now) == now > lease.expires_at

\* faulty
ExhaustedTooLate(lease) == \E max \in lease.max_uses : lease.use_count > max

\* the test record_use repeats after validate
Exhausted(lease) == \E max \in lease.max_uses : lease.use_count >= max

\* faulty
ValidateAnyHost(lease, host, now) ==
    ~lease.revoked /\ ~LeaseExpired(lease, now) /\ ~Exhausted(lease)

\* faulty
ValidateRevoked(lease, host, now) ==
    /\ ~LeaseExpired(lease, now)
    /\ ~Exhausted(lease)
    /\ \E d \in lease.allowed_domains : Matches(d, host)

Validate(lease, host, now) ==
    /\ ~lease.revoked
    /\ ~LeaseExpired(lease, now)
    /\ ~Exhausted(lease)
    /\ \E d \in lease.allowed_domains : Matches(d, host)

\* faulty
RecordUseDown(lease) == [lease EXCEPT !.use_count = @ - 1]

RecordUse(lease) == [lease EXCEPT !.use_count = @ + 1]

CanRenew(lease) == ~lease.revoked /\ lease.renewable

Renew(lease, extension, now) ==
    [lease EXCEPT !.expires_at = now + extension, !.renewal_count = @ + 1]

Revoke(lease) == [lease EXCEPT !.revoked = TRUE]

\* time_remaining().num_seconds() > 0, with `second` clock ticks to a
\* second: num_seconds truncates, so a lease in its last second has none
WholeSecondsLeft(lease, now, second) == lease.expires_at - now >= second
=============================================================================
