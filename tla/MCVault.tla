------------------------------- MODULE MCVault -------------------------------
(***************************************************************************)
(* Small instances of Vault: one agent, one secret, a wildcard scope, a    *)
(* host under it that has a grant of its own (first match wins), a         *)
(* narrower wildcard and a host outside.                                   *)
(***************************************************************************)
EXTENDS VaultRefinement, TLC

agentCi  == <<"ci-", "1">>
jira     == <<"jira-", "pat">>
wildcard == <<"*", "corp">>
gitHost  == <<"git", "corp">>
narrow   == <<"*", "git", "corp">>
outside  == <<"example">>

MCAgents  == {agentCi}
MCSecrets == {jira}

MCDomains == {wildcard, gitHost, outside}   \* lease run
MCScopes  == {wildcard, narrow}             \* session runs
MCOneScope == {narrow}                      \* admin run

singleUse == [ttl |-> 1, renewable |-> FALSE, max_uses |-> {1}]

workflow(ttl) == [ttl |-> ttl, renewable |-> TRUE, max_uses |-> {}]

PolicyWith(terms) ==
    [default_lease_terms |-> terms,
     grants |-> <<[agent |-> [kind |-> "Exact", name |-> agentCi],
                   secret |-> [kind |-> "Any", name |-> <<>>],
                   allowed_domains |-> {gitHost},
                   lease_terms |-> {singleUse}],
                  [agent |-> [kind |-> "Prefix", name |-> <<"ci-">>],
                   secret |-> [kind |-> "Exact", name |-> jira],
                   allowed_domains |-> {wildcard},
                   lease_terms |-> {}]>>]

MCConfig     == PolicyWith(workflow(1))
MCLongConfig == PolicyWith(workflow(2))

\* the session is bound to less than the policy permits its agent
MCSessionPolicies ==
    {[max_session_duration |-> 1, max_concurrent_leases |-> 1,
      max_renewals_per_lease |-> 1,
      tool_bindings |-> {[tool_name |-> "jira", allowed_secrets |-> {jira},
                          allowed_domains |-> {narrow}]}]}

LeaseWorkload   == {"request_lease", "access_secret", "revoke_lease",
                    "renew_lease", "gc_leases"}
AdminWorkload   == LeaseWorkload \cup {"create_session", "revoke_session",
                                       "request_lease_scoped", "gc_sessions",
                                       "revoke_all_for_agent", "store_secret",
                                       "delete_secret", "restart"}
SessionWorkload == {"create_session", "revoke_session", "request_lease_scoped",
                    "revoke_all_for_agent", "renew_lease",
                    "gc_sessions", "gc_leases", "restart"}

Symmetry == Permutations(Conn) \cup Permutations(LeaseId) \cup Permutations(SessionId)
=============================================================================
