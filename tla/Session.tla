------------------------------- MODULE Session -------------------------------
(***************************************************************************)
(* zerolease::session::Session as functions of the record and the clock.   *)
(* user and channel are only reported, never tested, and are left out.     *)
(***************************************************************************)
EXTENDS DomainScope, Integers

NewSession(policy, now) ==
    [expires_at         |-> now + policy.max_session_duration,
     policy             |-> policy,
     active_lease_count |-> 0,
     revoked            |-> FALSE]

SessionExpired(session, now) == now > session.expires_at

IsActive(session, now) == ~session.revoked /\ ~SessionExpired(session, now)

BindingAllows(binding, secret_name, domain) ==
    /\ secret_name \in binding.allowed_secrets
    /\ \E d \in binding.allowed_domains : Matches(d, domain)

\* faulty: the domain is not looked at
CheckToolBindingAnyDomain(session, tool, secret_name, domain) ==
    \E b \in session.policy.tool_bindings :
        b.tool_name = tool /\ secret_name \in b.allowed_secrets

CheckToolBinding(session, tool, secret_name, domain) ==
    \E b \in session.policy.tool_bindings :
        b.tool_name = tool /\ BindingAllows(b, secret_name, domain)
=============================================================================
