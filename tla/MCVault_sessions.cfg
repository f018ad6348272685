SPECIFICATION Spec
CONSTANTS
    Conn = {c1, c2}
    LeaseId = {l1, l2, l3}
    SessionId = {s1}
    Agent <- MCAgents
    Secret <- MCSecrets
    Domain <- MCScopes
    Tool = {"jira", "git"}
    Config <- MCLongConfig
    SessionPolicies <- MCSessionPolicies
    MaxLeasesPerAgent = 3
    MaxExtensionSecs = 1
    Extensions = {0, 1, 2}
    Second = 1
    MaxTime = 3
    MaxUseCount = 2
    MaxRenewalCount = 2
    Workload <- SessionWorkload
SYMMETRY Symmetry
INVARIANTS BindingConfinement SessionLimitOvershootBounded RenewalLimitHeld
