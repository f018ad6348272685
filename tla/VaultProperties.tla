--------------------------- MODULE VaultProperties ---------------------------
(***************************************************************************)
(* What the vault promises, stated over the state of Vault.                *)
(***************************************************************************)
EXTENDS Vault

Leases == [agent : Agent, secret_name : Secret, allowed_domains : SUBSET Domain,
           expires_at : Int, renewable : BOOLEAN, max_uses : Option(Nat),
           use_count : Nat, revoked : BOOLEAN, session_id : Option(SessionId),
           renewal_count : Nat]

Sessions == [expires_at : Int, policy : SessionPolicies,
             active_lease_count : Nat, revoked : BOOLEAN]

Requests == [agent : Agent, secret : Secret, domain : Domain,
             session : Option(SessionId)]

\* events that a handler records last, after its effect
LateEvents == ({"LeaseRevoked"} \X LeaseId) \cup ({"SessionCreated"} \X SessionId)

Events == ({"LeaseGranted", "SecretAccessed"} \X LeaseId) \cup LateEvents

Calls == [pc : {"idle"}]
    \cup [pc : {"check_cap", "check_exists", "grant"}, req : Requests]
    \cup [pc : {"insert"}, req : Requests, id : LeaseId, lease : Leases]
    \cup [pc : {"link", "count"}, req : Requests, id : LeaseId]
    \cup [pc : {"fetch", "deliver"}, id : LeaseId, host : Domain,
          agent : Agent, secret : Secret]
    \cup [pc : {"renew"}, id : LeaseId, ext : Int]
    \cup [pc : {"delete"}, secret : Secret]
    \cup [pc : {"sweep"}, session : SessionId]
    \cup [pc : {"audit"}, events : SUBSET LateEvents]
    \cup [pc : {"denied"}, events : {{}}]

(* Every component of the vault's state, and the locals every call carries *)
(* across an await, have the shape the code's types give them.             *)
TypeOK ==
    /\ now \in Nat
    /\ DOMAIN leases \subseteq LeaseId
    /\ \A id \in DOMAIN leases : leases[id] \in Leases
    /\ DOMAIN sessions \subseteq SessionId
    /\ \A s \in DOMAIN sessions : sessions[s] \in Sessions
    /\ store \subseteq Secret
    /\ audit \subseteq Events
    /\ calls \in [Conn -> Calls]
    /\ guards \in [LeaseId -> Nat]

-----------------------------------------------------------------------------
Live(id) == /\ id \in DOMAIN leases
            /\ ~leases[id].revoked
            /\ ~LeaseExpired(leases[id], now)

Renewing(id) == \E c \in Conn : calls[c].pc = "renew" /\ calls[c].id = id

Inserting(id) == \E c \in Conn : calls[c].pc = "insert" /\ calls[c].id = id

Accessing(id) == {c \in Conn : calls[c].pc \in {"fetch", "deliver"} /\ calls[c].id = id}

Quiet == \A c \in Conn : Idle(c)

-----------------------------------------------------------------------------
(* Audit.  No lease exists and no lease yields a secret without the        *)
(* matching record: request_lease records LeaseGranted before it inserts   *)
(* the lease, access_secret records SecretAccessed before it returns the   *)
(* guard, and a failed record aborts either.                               *)
NothingUnaudited ==
    /\ \A id \in DOMAIN leases : <<"LeaseGranted", id>> \in audit
    /\ \A id \in LeaseId : guards[id] > 0 =>
         {<<"LeaseGranted", id>>, <<"SecretAccessed", id>>} \subseteq audit

(* Audit.  A LeaseRevoked record is never a false alarm: from the moment   *)
(* it can be read, whichever handler wrote it and whatever ran since, the  *)
(* lease is revoked or gone.                                               *)
RevokedRecordsAreTrue ==
    \A id \in DOMAIN leases : <<"LeaseRevoked", id>> \in audit => leases[id].revoked

(* Confinement.  A secret on its way to a caller (access_secret past       *)
(* validate) is one that the policy lets the lease's agent use against     *)
(* that very host, although evaluate only ever saw the scope the lease was *)
(* requested for.                                                          *)
PolicyConfinement ==
    \A c \in Conn : calls[c].pc \in {"fetch", "deliver"} =>
        Permits(Config, calls[c].agent, calls[c].secret, calls[c].host)

(* Confinement.  A lease linked to a session reaches, for every host its   *)
(* scope matches, only secrets and hosts some tool binding of that session *)
(* allows, although check_tool_binding only saw the requested scope.       *)
BindingConfinement ==
    \A id \in DOMAIN leases : \A s \in leases[id].session_id \cap DOMAIN sessions :
        \A host \in Domain :
            (\E d \in leases[id].allowed_domains : Matches(d, host)) =>
                \E b \in sessions[s].policy.tool_bindings :
                    BindingAllows(b, leases[id].secret_name, host)

(* Use limit.  However many access_secret calls run at once on a lease,    *)
(* the guards returned and those still on their way are covered by         *)
(* recorded uses, and uses never exceed max_uses.                          *)
GuardsWithinUses ==
    \A id \in DOMAIN leases :
        /\ guards[id] + Cardinality(Accessing(id)) <= leases[id].use_count
        /\ \A max \in leases[id].max_uses : leases[id].use_count <= max

(* Lifetime.  A lease that was once in the map and has been revoked, has   *)
(* expired or was collected never comes back: no renewal, late link,       *)
(* insertion or sweep makes it usable again, and no use is recorded on it. *)
(* (While renew_lease holds leases.write over its own wait the lease may   *)
(* pass its expiry unobserved.)                                            *)
Dead(id) ==
    /\ <<"LeaseGranted", id>> \in audit /\ ~Inserting(id)
    /\ id \in DOMAIN leases =>
         leases[id].revoked \/ (LeaseExpired(leases[id], now) /\ ~Renewing(id))

DeadStaysDead ==
    [][\A id \in LeaseId : Dead(id) =>
          /\ Dead(id)'
          /\ id \in DOMAIN leases' => leases'[id].use_count = leases[id].use_count]_vars

(* Lifetime.  At no time does a lease reach further into the future than   *)
(* the longest ttl the policy hands out or MAX_EXTENSION_SECS from now.    *)
Ttls == {config.ttl : config \in {Config.default_lease_terms}
           \cup UNION {Config.grants[i].lease_terms : i \in DOMAIN Config.grants}}

HorizonBounded ==
    \A id \in DOMAIN leases :
        \/ leases[id].expires_at <= now + MaxExtensionSecs * Second
        \/ \E ttl \in Ttls : leases[id].expires_at <= now + ttl

(* Limits.  The lease cap is tested before and applied after two awaits,   *)
(* so calls racing past the test overshoot it, but by no more than one     *)
(* lease per other connection.                                             *)
Requesting(a) ==
    {c \in Conn : calls[c].pc \in {"check_exists", "grant", "insert"}
                    /\ calls[c].req.agent = a}

CapOvershootBounded ==
    \A a \in Agent :
        MaxLeasesPerAgent > 0 =>
          Cardinality(Unrevoked(a)) + Cardinality(Requesting(a))
            < MaxLeasesPerAgent + Cardinality(Conn)

(* Limits.  The leases linked to a session never outnumber its count by    *)
(* more than the calls about to increment it, and the count overshoots     *)
(* max_concurrent_leases by less than the number of connections.           *)
Children(s) == {id \in DOMAIN leases : leases[id].session_id = {s}}

Counting(s) == {c \in Conn : calls[c].pc = "count" /\ calls[c].req.session = {s}}

SessionLimitOvershootBounded ==
    \A s \in DOMAIN sessions :
        /\ Cardinality(Children(s)) <=
             sessions[s].active_lease_count + Cardinality(Counting(s))
        /\ sessions[s].policy.max_concurrent_leases > 0 =>
             sessions[s].active_lease_count
               < sessions[s].policy.max_concurrent_leases + Cardinality(Conn)

(* Limits.  While its session is in memory, no lease of the session has    *)
(* been renewed more often than max_renewals_per_lease, although the lease *)
(* is visible in the map before it is linked to the session.               *)
RenewalLimitHeld ==
    \A id \in DOMAIN leases : \A s \in leases[id].session_id \cap DOMAIN sessions :
        leases[id].renewal_count <= sessions[s].policy.max_renewals_per_lease

(* Progress.  Every call returns: no handler waits forever for a lock,     *)
(* although renew_lease keeps the lease map locked while it waits for the  *)
(* session map, revoke_session and request_lease_scoped take both maps in  *)
(* the other order, and a denied request_lease_scoped keeps the session    *)
(* map locked while it records.                                            *)
CallsReturn == \A c \in Conn : ~Idle(c) ~> Idle(c)

-----------------------------------------------------------------------------
(***************************************************************************)
(* Statements of the repository's comments and documents that the code     *)
(* does not live up to: TLC refutes both on the instance of                *)
(* MCVault_revoked_session.cfg.                                            *)
(***************************************************************************)

(* src/session.rs:22, "When a session is revoked, all child leases are     *)
(* revoked with it": once every call has returned, a revoked session has   *)
(* no live lease.                                                          *)
RevokedSessionHasNoLiveLease ==
    Quiet => \A s \in DOMAIN sessions : sessions[s].revoked =>
                \A id \in Children(s) : ~Live(id)

(* src/session.rs:34, "Number of currently active (non-revoked,            *)
(* non-expired) leases under this session": once every call has returned,  *)
(* active_lease_count is that number.  (No run has it as its property.)    *)
ActiveLeaseCountExact ==
    Quiet => \A s \in DOMAIN sessions :
                sessions[s].active_lease_count
                  = Cardinality({id \in Children(s) : Live(id)})
=============================================================================
