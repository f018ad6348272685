-------------------------------- MODULE Vault --------------------------------
(***************************************************************************)
(* zerolease::vault::Vault: leases, sessions and the presence of secrets,  *)
(* served to concurrent connections.                                       *)
(*                                                                         *)
(* A connection runs one call at a time (server.rs, handle_connection).    *)
(* Between two awaits a call is one step; calls[c].pc names the step it    *)
(* takes next and the record holds the locals it carries across the await. *)
(* A call that returns an error without changing anything is a stuttering  *)
(* step and is not written.  A fallible await (`?` on the store or the     *)
(* audit log) may also fail: BackendFails.                                 *)
(*                                                                         *)
(* A lock scope is one step, with two exceptions: renew_lease holds        *)
(* leases.write while it waits for sessions.read, and reads the clock on   *)
(* both sides of that wait; request_lease_scoped holds sessions.read while *)
(* it records that it denies a tool binding (Holding).  A call that waits  *)
(* for its first lock is still idle.                                       *)
(***************************************************************************)
EXTENDS Lease, Session, Functions, FiniteSets

CONSTANTS
    Conn,               \* connections
    LeaseId, SessionId, \* identifiers still to be drawn (UUIDs, tokens)
    Agent, Secret,      \* names that occur in requests
    Domain,             \* hosts and scopes that occur in requests
    Tool,               \* tool names that occur in requests
    Config,             \* the PolicyConfig; the vault never replaces it
    SessionPolicies,    \* policies create_session is called with
    MaxLeasesPerAgent,  \* max_leases_per_agent
    MaxExtensionSecs,   \* MAX_EXTENSION_SECS
    Extensions,         \* extension_secs values that occur in requests
    Second,             \* clock ticks in a second
    MaxTime,            \* bound: the clock stops here
    MaxUseCount,        \* bound: accesses tried through one lease
    MaxRenewalCount,    \* bound: renewals tried on one lease
    Workload            \* the operations clients invoke

ASSUME ConfigAssumption ==
    /\ Config.default_lease_terms \in LeaseTerms
    /\ \A i \in DOMAIN Config.grants :
         /\ Config.grants[i].lease_terms \in Option(LeaseTerms)
         /\ Config.grants[i].allowed_domains \subseteq Seq(STRING)
ASSUME DomainAssumption == Domain \subseteq Seq(STRING)
ASSUME SessionPolicyAssumption ==
    \A p \in SessionPolicies :
        /\ p.max_session_duration \in Int
        /\ p.max_concurrent_leases \in Nat
        /\ p.max_renewals_per_lease \in Nat
        /\ \A b \in p.tool_bindings : b.allowed_domains \subseteq Seq(STRING)
ASSUME NumberAssumption ==
    /\ Extensions \subseteq Int
    /\ MaxExtensionSecs \in Nat
    /\ Second \in Nat
    /\ MaxLeasesPerAgent \in Nat
    /\ {MaxTime, MaxUseCount, MaxRenewalCount} \subseteq Nat
ASSUME ConnAssumption == IsFiniteSet(Conn)

VARIABLES
    now,       \* Utc::now()
    leases,    \* HashMap<LeaseId, Lease>
    sessions,  \* HashMap<SessionToken, Session>; a token stands for its id
    store,     \* names of the secrets in the SecretStore
    audit,     \* the events recorded in the AuditLog, <<event, subject>>;
               \* of those that nothing here reads only the await is kept
    calls,     \* per connection, the call in flight
    guards     \* history: LeaseGuards returned per lease

vars == <<now, leases, sessions, store, audit, calls, guards>>

-----------------------------------------------------------------------------
EmptyMap == [k \in {} |-> {}]

Insert(map, key, value) ==
    [k \in DOMAIN map \cup {key} |-> IF k = key THEN value ELSE map[k]]

Idle(c) == calls[c].pc = "idle"

Return(c) == calls' = [calls EXCEPT ![c] = [pc |-> "idle"]]

Goto(c, call) == calls' = [calls EXCEPT ![c] = call]

\* the last await of a handler: record an event, then return Ok
GotoAudit(c, events) == Goto(c, [pc |-> "audit", events |-> events])

\* faulty: revoke_session keeps sessions.write over its second step
HoldingOverSweep(pc) ==
    CASE pc = "renew" -> {"leases.write"}
      [] pc = "denied" -> {"sessions.read"}
      [] pc = "sweep" -> {"sessions.write"}
      [] OTHER -> {}

\* the locks a call keeps while it waits
Holding(pc) ==
    CASE pc = "renew" -> {"leases.write"}
      [] pc = "denied" -> {"sessions.read"}
      [] OTHER -> {}

Held(lock) == \E c \in Conn : lock \in Holding(calls[c].pc)

\* leases.read() / leases.write() can be acquired
LeasesFree == ~Held("leases.write")

\* sessions.read() can be acquired
SessionsReadable == ~Held("sessions.write")

\* sessions.write() can be acquired
SessionsFree == ~Held("sessions.write") /\ ~Held("sessions.read")

\* the lease is drawn but request_lease has not returned it yet
Granting(id) ==
    \E c \in Conn : /\ calls[c].pc \in {"insert", "link", "count"}
                    /\ calls[c].id = id

FreshLeaseIds == {id \in LeaseId : <<"LeaseGranted", id>> \notin audit}

\* lease ids some caller has been given
KnownLeases == {id \in LeaseId : <<"LeaseGranted", id>> \in audit /\ ~Granting(id)}

Creating(s) == \E c \in Conn : /\ calls[c].pc = "audit"
                               /\ <<"SessionCreated", s>> \in calls[c].events

FreshSessionIds ==
    {s \in SessionId : /\ s \notin DOMAIN sessions
                       /\ <<"SessionCreated", s>> \notin audit
                       /\ ~Creating(s)}

\* tokens some caller has been given
KnownSessions == {s \in SessionId : <<"SessionCreated", s>> \in audit}

\* faulty: revoke() is called on clones of the leases
RevokeAllClones(ids) ==
    /\ leases' = [id \in DOMAIN leases |-> leases[id]]
    /\ audit' = audit \cup {<<"LeaseRevoked", id>> : id \in ids}

\* lease.revoke() on every lease in ids, with best-effort audit of each
RevokeAll(ids) ==
    /\ leases' = [id \in DOMAIN leases |->
                    IF id \in ids THEN Revoke(leases[id]) ELSE leases[id]]
    /\ \E recorded \in SUBSET ids :
         audit' = audit \cup {<<"LeaseRevoked", id>> : id \in recorded}

-----------------------------------------------------------------------------
(* request_lease and request_lease_scoped.                                 *)

\* 1. Policy check.  The policy is constant, so it needs no step of its own
BeginRequest(c, req) ==
    LET terms == Evaluate(Config, req.agent, req.secret, req.domain) IN
    \/ /\ terms # {}
       /\ Goto(c, [pc |-> "check_cap", req |-> req])
    \/ /\ terms = {}
       /\ GotoAudit(c, {})

RequestLease(c) ==
    /\ "request_lease" \in Workload
    /\ Idle(c)
    /\ \E a \in Agent, s \in Secret, d \in Domain :
         BeginRequest(c, [agent |-> a, secret |-> s, domain |-> d, session |-> {}])
    /\ UNCHANGED <<now, leases, sessions, store, audit, guards>>

\* faulty: > for >=
SessionLimitPassed(session) ==
    session.active_lease_count > session.policy.max_concurrent_leases

SessionLimitReached(session) ==
    session.active_lease_count >= session.policy.max_concurrent_leases

RequestLeaseScoped(c) ==
    /\ "request_lease_scoped" \in Workload
    /\ Idle(c)
    /\ SessionsReadable
    /\ \E sid \in KnownSessions \cap DOMAIN sessions,
          a \in Agent, s \in Secret, d \in Domain, tool \in Tool :
         /\ IsActive(sessions[sid], now)
         /\ \/ /\ ~CheckToolBinding(sessions[sid], tool, s, d)
               /\ Goto(c, [pc |-> "denied", events |-> {}])
            \/ /\ CheckToolBinding(sessions[sid], tool, s, d)
               /\ ~SessionLimitReached(sessions[sid])
               /\ BeginRequest(c, [agent |-> a, secret |-> s, domain |-> d,
                                   session |-> {sid}])
    /\ UNCHANGED <<now, leases, sessions, store, audit, guards>>

\* 2. Lease cap: counts leases that are not revoked, expired ones included
Unrevoked(a) == {id \in DOMAIN leases : leases[id].agent = a /\ ~leases[id].revoked}

\* faulty: > for >=
CapPassed(a) == Cardinality(Unrevoked(a)) > MaxLeasesPerAgent

CapReached(a) == Cardinality(Unrevoked(a)) >= MaxLeasesPerAgent

CheckCap(c) ==
    /\ calls[c].pc = "check_cap"
    /\ LeasesFree
    /\ IF CapReached(calls[c].req.agent)
       THEN Return(c)
       ELSE Goto(c, [pc |-> "check_exists", req |-> calls[c].req])
    /\ UNCHANGED <<now, leases, sessions, store, audit, guards>>

\* 3. store.get
CheckExists(c) ==
    /\ calls[c].pc = "check_exists"
    /\ IF calls[c].req.secret \in store
       THEN Goto(c, [pc |-> "grant", req |-> calls[c].req])
       ELSE Return(c)
    /\ UNCHANGED <<now, leases, sessions, store, audit, guards>>

\* Lease::new and 4. the audit record, which precedes the insertion
Grant(c) ==
    /\ calls[c].pc = "grant"
    /\ LET req == calls[c].req IN
       \E id \in FreshLeaseIds,
          terms \in Evaluate(Config, req.agent, req.secret, req.domain) :
         /\ audit' = audit \cup {<<"LeaseGranted", id>>}
         /\ Goto(c, [pc |-> "insert", req |-> req, id |-> id,
                     lease |-> NewLease(req.agent, req.secret, {req.domain},
                                        terms, now)])
    /\ UNCHANGED <<now, leases, sessions, store, guards>>

\* 5. Store the lease
InsertLease(c) ==
    /\ calls[c].pc = "insert"
    /\ LeasesFree
    /\ leases' = Insert(leases, calls[c].id, calls[c].lease)
    /\ IF calls[c].req.session = {}
       THEN Return(c)
       ELSE Goto(c, [pc |-> "link", req |-> calls[c].req, id |-> calls[c].id])
    /\ UNCHANGED <<now, sessions, store, audit, guards>>

\* request_lease_scoped, 5.: link the lease to the session ...
LinkLease(c) ==
    /\ calls[c].pc = "link"
    /\ LeasesFree
    /\ leases' = IF calls[c].id \in DOMAIN leases
                 THEN [leases EXCEPT ![calls[c].id].session_id = calls[c].req.session]
                 ELSE leases
    /\ Goto(c, [pc |-> "count", req |-> calls[c].req, id |-> calls[c].id])
    /\ UNCHANGED <<now, sessions, store, audit, guards>>

\* ... and increment the session's active count
CountLease(c) ==
    /\ calls[c].pc = "count"
    /\ SessionsFree
    /\ sessions' = [s \in DOMAIN sessions |->
                      IF s \in calls[c].req.session
                      THEN [sessions[s] EXCEPT !.active_lease_count = @ + 1]
                      ELSE sessions[s]]
    /\ Return(c)
    /\ UNCHANGED <<now, leases, store, audit, guards>>

-----------------------------------------------------------------------------
(* access_secret                                                           *)

\* 1. validate and record_use under leases.write
AccessSecret(c) ==
    /\ "access_secret" \in Workload
    /\ Idle(c)
    /\ LeasesFree
    /\ \E id \in KnownLeases \cap DOMAIN leases, host \in Domain :
         /\ leases[id].use_count < MaxUseCount
         /\ Validate(leases[id], host, now)
         /\ leases' = [leases EXCEPT ![id] = RecordUse(leases[id])]
         /\ Goto(c, [pc |-> "fetch", id |-> id, host |-> host,
                     agent |-> leases[id].agent, secret |-> leases[id].secret_name])
    /\ UNCHANGED <<now, sessions, store, audit, guards>>

\* 2. store.get and decrypt
Fetch(c) ==
    /\ calls[c].pc = "fetch"
    /\ IF calls[c].secret \in store
       THEN Goto(c, [calls[c] EXCEPT !.pc = "deliver"])
       ELSE Return(c)
    /\ UNCHANGED <<now, leases, sessions, store, audit, guards>>

\* faulty: best-effort audit
DeliverBestEffort(c) ==
    /\ calls[c].pc = "deliver"
    /\ audit' \in {audit, audit \cup {<<"SecretAccessed", calls[c].id>>}}
    /\ guards' = [guards EXCEPT ![calls[c].id] = @ + 1]
    /\ Return(c)
    /\ UNCHANGED <<now, leases, sessions, store>>

\* 4. the audit record, then the guard is returned
Deliver(c) ==
    /\ calls[c].pc = "deliver"
    /\ audit' = audit \cup {<<"SecretAccessed", calls[c].id>>}
    /\ guards' = [guards EXCEPT ![calls[c].id] = @ + 1]
    /\ Return(c)
    /\ UNCHANGED <<now, leases, sessions, store>>

-----------------------------------------------------------------------------
(* revoke_lease, revoke_all_for_agent, renew_lease, gc_leases              *)

RevokeLease(c) ==
    /\ "revoke_lease" \in Workload
    /\ Idle(c)
    /\ LeasesFree
    /\ \E id \in KnownLeases \cap DOMAIN leases :
         /\ leases' = [leases EXCEPT ![id] = Revoke(leases[id])]
         /\ GotoAudit(c, {<<"LeaseRevoked", id>>})
    /\ UNCHANGED <<now, sessions, store, audit, guards>>

RevokeAllForAgent(c) ==
    /\ "revoke_all_for_agent" \in Workload
    /\ Idle(c)
    /\ LeasesFree
    /\ \E a \in Agent : RevokeAll(Unrevoked(a))
    /\ UNCHANGED <<now, sessions, store, calls, guards>>

\* faulty: no upper bound
ExtensionPositive(ext) == ext > 0

ExtensionAllowed(ext) == ext > 0 /\ ext <= MaxExtensionSecs

\* faulty: expiry is left to Lease::renew, which does not test it
RenewableAnyTime(id) == leases[id].renewal_count < MaxRenewalCount

RenewableNow(id) ==
    /\ leases[id].renewal_count < MaxRenewalCount
    /\ ~LeaseExpired(leases[id], now)

\* up to the wait for sessions.read()
RenewLease(c) ==
    /\ "renew_lease" \in Workload
    /\ Idle(c)
    /\ LeasesFree
    /\ \E id \in KnownLeases \cap DOMAIN leases, ext \in Extensions :
         /\ RenewableNow(id)
         /\ ExtensionAllowed(ext)
         /\ Goto(c, [pc |-> "renew", id |-> id, ext |-> ext])
    /\ UNCHANGED <<now, leases, sessions, store, audit, guards>>

\* faulty: > for >=
RenewalLimitPassed(lease) ==
    \E s \in lease.session_id \cap DOMAIN sessions :
        lease.renewal_count > sessions[s].policy.max_renewals_per_lease

RenewalLimitReached(lease) ==
    \E s \in lease.session_id \cap DOMAIN sessions :
        lease.renewal_count >= sessions[s].policy.max_renewals_per_lease

\* a lease of a session waits for sessions.read(); session limit,
\* Lease::renew, locks released
FinishRenew(c) ==
    /\ calls[c].pc = "renew"
    /\ leases[calls[c].id].session_id # {} => SessionsReadable
    /\ LET id == calls[c].id IN
       IF RenewalLimitReached(leases[id]) \/ ~CanRenew(leases[id])
       THEN Return(c) /\ UNCHANGED leases
       ELSE /\ leases' = [leases EXCEPT ![id] =
                            Renew(leases[id], calls[c].ext * Second, now)]
            /\ GotoAudit(c, {})
    /\ UNCHANGED <<now, sessions, store, audit, guards>>

GcLeases ==
    /\ "gc_leases" \in Workload
    /\ LeasesFree
    /\ leases' = Restrict(leases, {id \in DOMAIN leases :
                    ~leases[id].revoked /\ WholeSecondsLeft(leases[id], now, Second)})
    /\ UNCHANGED <<now, sessions, store, audit, calls, guards>>

-----------------------------------------------------------------------------
(* store_secret and delete_secret                                          *)

\* put refuses a name that exists
StoreSecret(c) ==
    /\ "store_secret" \in Workload
    /\ Idle(c)
    /\ \E s \in Secret \ store :
         /\ store' = store \cup {s}
         /\ GotoAudit(c, {})
    /\ UNCHANGED <<now, leases, sessions, audit, guards>>

\* revoke the secret's leases under leases.write ...
DeleteSecret(c) ==
    /\ "delete_secret" \in Workload
    /\ Idle(c)
    /\ LeasesFree
    /\ \E s \in Secret :
         /\ RevokeAll({id \in DOMAIN leases :
                         leases[id].secret_name = s /\ ~leases[id].revoked})
         /\ Goto(c, [pc |-> "delete", secret |-> s])
    /\ UNCHANGED <<now, sessions, store, guards>>

\* ... then store.delete, with the lock released
DeleteFromStore(c) ==
    /\ calls[c].pc = "delete"
    /\ store' = store \ {calls[c].secret}
    /\ IF calls[c].secret \in store
       THEN GotoAudit(c, {})
       ELSE Return(c)
    /\ UNCHANGED <<now, leases, sessions, audit, guards>>

-----------------------------------------------------------------------------
(* create_session, revoke_session, gc_sessions                             *)

CreateSession(c) ==
    /\ "create_session" \in Workload
    /\ Idle(c)
    /\ SessionsFree
    /\ \E s \in FreshSessionIds, p \in SessionPolicies :
         /\ sessions' = Insert(sessions, s, NewSession(p, now))
         /\ GotoAudit(c, {<<"SessionCreated", s>>})
    /\ UNCHANGED <<now, leases, store, audit, guards>>

\* 1. mark the session revoked
RevokeSession(c) ==
    /\ "revoke_session" \in Workload
    /\ Idle(c)
    /\ SessionsFree
    /\ \E s \in KnownSessions \cap DOMAIN sessions :
         /\ sessions' = [sessions EXCEPT ![s].revoked = TRUE]
         /\ Goto(c, [pc |-> "sweep", session |-> s])
    /\ UNCHANGED <<now, leases, store, audit, guards>>

\* 2. revoke the child leases
SweepChildren(c) ==
    /\ calls[c].pc = "sweep"
    /\ LeasesFree
    /\ RevokeAll({id \in DOMAIN leases :
                    leases[id].session_id = {calls[c].session} /\ ~leases[id].revoked})
    /\ GotoAudit(c, {})
    /\ UNCHANGED <<now, sessions, store, guards>>

GcSessions ==
    /\ "gc_sessions" \in Workload
    /\ SessionsFree
    /\ sessions' = Restrict(sessions, {s \in DOMAIN sessions : IsActive(sessions[s], now)})
    /\ UNCHANGED <<now, leases, store, audit, calls, guards>>

-----------------------------------------------------------------------------
\* trace_and_record, or its best-effort form, as the last await of a handler
RecordAndReturn(c) ==
    /\ calls[c].pc \in {"audit", "denied"}
    /\ audit' = audit \cup calls[c].events
    /\ Return(c)
    /\ UNCHANGED <<now, leases, sessions, store, guards>>

\* a `?` on the store, the cipher or the audit log returns early
BackendFails(c) ==
    /\ calls[c].pc \in {"check_exists", "grant", "fetch", "deliver", "delete", "audit"}
    /\ Return(c)
    /\ UNCHANGED <<now, leases, sessions, store, audit, guards>>

Tick ==
    /\ now < MaxTime
    /\ now' = now + 1
    /\ UNCHANGED <<leases, sessions, store, audit, calls, guards>>

\* the process dies and a new vault is built over the same store and log
Restart ==
    /\ "restart" \in Workload
    /\ leases' = EmptyMap
    /\ sessions' = EmptyMap
    /\ calls' = [c \in Conn |-> [pc |-> "idle"]]
    /\ UNCHANGED <<now, store, audit, guards>>

-----------------------------------------------------------------------------
\* a client sends a request
Invoke(c) ==
    \/ RequestLease(c) \/ RequestLeaseScoped(c) \/ AccessSecret(c)
    \/ RevokeLease(c) \/ RevokeAllForAgent(c) \/ RenewLease(c)
    \/ StoreSecret(c) \/ DeleteSecret(c)
    \/ CreateSession(c) \/ RevokeSession(c)

\* the vault resumes a call at an await
Resume(c) ==
    \/ CheckCap(c) \/ CheckExists(c) \/ Grant(c)
    \/ InsertLease(c) \/ LinkLease(c) \/ CountLease(c)
    \/ Fetch(c) \/ Deliver(c) \/ FinishRenew(c)
    \/ DeleteFromStore(c) \/ SweepChildren(c)
    \/ RecordAndReturn(c) \/ BackendFails(c)

Init ==
    /\ now = 0
    /\ leases = EmptyMap
    /\ sessions = EmptyMap
    /\ store \in SUBSET Secret
    /\ audit = {}
    /\ calls = [c \in Conn |-> [pc |-> "idle"]]
    /\ guards = [id \in LeaseId |-> 0]

Next ==
    \/ \E c \in Conn : Invoke(c) \/ Resume(c)
    \/ GcLeases \/ GcSessions \/ Tick \/ Restart

Spec == Init /\ [][Next]_vars

\* tokio polls every ready task and its RwLock is FIFO, so a call that can
\* go on again and again does go on; clients and the clock owe nothing
FairSpec == Spec /\ \A c \in Conn : SF_vars(Resume(c))
=============================================================================
