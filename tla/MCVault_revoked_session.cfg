SPECIFICATION Spec
CONSTANTS
    Conn = {c1, c2}
    LeaseId = {l1, l2}
    SessionId = {s1}
    Agent <- MCAgents
    Secret <- MCSecrets
    Domain <- MCScopes
    Tool = {"jira", "git"}
    Config <- MCConfig
    SessionPolicies <- MCSessionPolicies
    MaxLeasesPerAgent = 1
    MaxExtensionSecs = 1
    Extensions = {0, 1, 2}
    Second = 1
    MaxTime = 2
    MaxUseCount = 2
    MaxRenewalCount = 1
    Workload <- SessionWorkload
SYMMETRY Symmetry
INVARIANTS RevokedSessionHasNoLiveLease
