-------------------------------- MODULE Policy --------------------------------
(***************************************************************************)
(* zerolease::policy: the deny-by-default, first-match-wins list of        *)
(* grants.  A name (agent or secret) is a sequence of the pieces prefixes  *)
(* are cut at: "dev-alice" is <<"dev-", "alice">>.  An Option<T> of the    *)
(* code is the set of its at most one element.                             *)
(***************************************************************************)
EXTENDS DomainScope, Integers

Option(T) == {s \in SUBSET T : \A x, y \in s : x = y}

LeaseTerms == [ttl : Int, renewable : BOOLEAN, max_uses : Option(Nat)]

\* AgentPattern::matches and SecretPattern::matches
NameMatches(pattern, name) ==
    \/ pattern.kind = "Any"
    \/ pattern.kind = "Exact" /\ name = pattern.name
    \/ /\ pattern.kind = "Prefix"
       /\ Len(pattern.name) <= Len(name)
       /\ SubSeq(name, 1, Len(pattern.name)) = pattern.name

GrantMatches(grant, agent, secret, domain) ==
    /\ NameMatches(grant.agent, agent)
    /\ NameMatches(grant.secret, secret)
    /\ \E d \in grant.allowed_domains : Matches(d, domain)

FirstMatch(config, agent, secret, domain) ==
    {i \in DOMAIN config.grants :
        /\ GrantMatches(config.grants[i], agent, secret, domain)
        /\ \A j \in 1..(i - 1) :
             ~GrantMatches(config.grants[j], agent, secret, domain)}

TermsOf(config, grant) ==
    IF grant.lease_terms = {} THEN {config.default_lease_terms}
                              ELSE grant.lease_terms

\* PolicyEngine::evaluate: the terms of the first matching grant, {} if denied
Evaluate(config, agent, secret, domain) ==
    UNION {TermsOf(config, config.grants[i]) :
             i \in FirstMatch(config, agent, secret, domain)}

\* Some grant lets the agent use the secret against the host
Permits(config, agent, secret, host) ==
    \E i \in DOMAIN config.grants :
        GrantMatches(config.grants[i], agent, secret, host)
=============================================================================
