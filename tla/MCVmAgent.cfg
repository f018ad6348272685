SPECIFICATION FairSpec
CONSTANTS
    MaxLeases = 3
    Manifests <- MCManifests
    Task = {t1}
    Ttl = {3}
    Second = 2
    MaxTunnel = 2
    MaxConnect = 1
INVARIANTS NoPartialFile RolledBackNeverServed FailureRevokes TunnelWithinLease
PROPERTIES TunnelsClose
