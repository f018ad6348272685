SPECIFICATION Spec
CONSTANTS
    Conn = {c1, c2}
    LeaseId = {l1, l2}
    SessionId = {}
    Agent <- MCAgents
    Secret <- MCSecrets
    Domain <- MCDomains
    Tool = {"jira", "git"}
    Config <- MCConfig
    SessionPolicies <- MCSessionPolicies
    MaxLeasesPerAgent = 1
    MaxExtensionSecs = 1
    Extensions = {0, 1, 2}
    Second = 1
    MaxTime = 2
    MaxUseCount = 2
    MaxRenewalCount = 1
    Workload <- LeaseWorkload
SYMMETRY Symmetry
INVARIANTS TypeOK NothingUnaudited PolicyConfinement GuardsWithinUses HorizonBounded CapOvershootBounded
PROPERTIES DeadStaysDead
