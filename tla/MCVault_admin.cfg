SPECIFICATION FairSpec
CONSTANTS
    Conn = {c1, c2}
    LeaseId = {l1}
    SessionId = {s1}
    Agent <- MCAgents
    Secret <- MCSecrets
    Domain <- MCOneScope
    Tool = {"jira", "git"}
    Config <- MCConfig
    SessionPolicies <- MCSessionPolicies
    MaxLeasesPerAgent = 1
    MaxExtensionSecs = 1
    Extensions = {0, 1, 2}
    Second = 1
    MaxTime = 1
    MaxUseCount = 1
    MaxRenewalCount = 1
    Workload <- AdminWorkload
INVARIANTS RevokedRecordsAreTrue
PROPERTIES CallsReturn ContractHeld
