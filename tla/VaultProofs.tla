----------------------------- MODULE VaultProofs -----------------------------
(***************************************************************************)
(* Proofs about Vault, for every value of the constants: confinement, the  *)
(* life of a lease, and that the vault implements LeaseContract.           *)
(***************************************************************************)
EXTENDS VaultRefinement, TLAPS

(* What a call in flight carries, by the step it takes next.               *)
LEMMA CallShape ==
    ASSUME NEW k \in Calls
    PROVE  /\ k.pc \in {"check_cap", "check_exists", "grant", "insert", "link", "count"}
                => k.req \in Requests
           /\ k.pc \in {"insert", "link", "count", "fetch", "deliver", "renew"}
                => k.id \in LeaseId
           /\ k.pc = "insert" => k.lease \in Leases
           /\ k.pc \in {"fetch", "deliver"} =>
                /\ k.host \in Domain /\ k.agent \in Agent /\ k.secret \in Secret
                /\ k = [pc |-> k.pc, id |-> k.id, host |-> k.host,
                        agent |-> k.agent, secret |-> k.secret]
           /\ k.pc = "renew" => k.ext \in Int
           /\ k.pc = "delete" => k.secret \in Secret
           /\ k.pc = "sweep" => k.session \in SessionId
           /\ k.pc \in {"audit", "denied"} => k.events \subseteq LateEvents
           /\ k.pc = "denied" => k.events = {}
BY Zenon DEF Calls

(* Who can lock the lease map meets no renewal under way.                  *)
LEMMA NoRenewal ==
    ASSUME LeasesFree
    PROVE  \A c \in Conn : calls[c].pc # "renew"
BY DEF LeasesFree, Held, Holding

(* A request past the policy check starts without a lease id.              *)
LEMMA BeginIsGoto ==
    ASSUME NEW c \in Conn, NEW req, BeginRequest(c, req)
    PROVE  \E k : Goto(c, k) /\ k.pc \in {"check_cap", "audit"}
                  /\ (k.pc = "audit" => k.events = {})
BY DEF BeginRequest, GotoAudit

(* The first step of a request, whoever makes it, takes hold of nothing.   *)
LEMMA RequestIsGoto ==
    ASSUME NEW c \in Conn, RequestLease(c) \/ RequestLeaseScoped(c)
    PROVE  \E k : Goto(c, k) /\ k.pc \in {"check_cap", "audit", "denied"}
                  /\ (k.pc = "audit" => k.events = {})
<1> DEFINE k == [pc |-> "denied", events |-> {}]
<1>1. Goto(c, k) \/ \E req : BeginRequest(c, req)
  BY Zenon DEF RequestLease, RequestLeaseScoped
<1>2. k.pc = "denied"
  OBVIOUS
<1> HIDE DEF k
<1> QED
  BY <1>1, <1>2, BeginIsGoto, Zenon

(* TypeOK: at every moment the lease and session maps, the log and the     *)
(* locals of every handler in flight have the types the code gives them.   *)
THEOREM TypeCorrect == Spec => []TypeOK
(* Everything evaluate can answer is a value of type LeaseTerms.           *)
<1>EvaluateTyped.
      ASSUME NEW a, NEW s, NEW d
      PROVE  Evaluate(Config, a, s, d) \subseteq LeaseTerms
  BY <1>EvaluateTyped, ConfigAssumption DEF Evaluate, TermsOf, FirstMatch, Option

(* Lease::new builds a lease, linked to no session.                        *)
<1>NewLeaseTyped.
      ASSUME NEW a \in Agent, NEW s \in Secret, NEW d \in Domain,
             NEW terms \in LeaseTerms, NEW t \in Int
      PROVE  NewLease(a, s, {d}, terms, t) \in Leases
  <2> USE <1>NewLeaseTyped
  <2>1. t + terms.ttl \in Int
    BY DEF LeaseTerms
  <2>2. {} \in Option(SessionId)
    BY Zenon DEF Option
  <2> QED
    BY <2>1, <2>2, Zenon DEF NewLease, Leases, LeaseTerms

(* Lease::record_use leaves a lease.                                       *)
<1>RecordUseTyped.
      ASSUME NEW l \in Leases
      PROVE  RecordUse(l) \in Leases
  BY <1>RecordUseTyped DEF Leases, RecordUse

(* Lease::revoke leaves a lease.                                           *)
<1>RevokeTyped.
      ASSUME NEW l \in Leases
      PROVE  Revoke(l) \in Leases
  BY <1>RevokeTyped, Zenon DEF Leases, Revoke

(* Lease::renew leaves a lease.                                            *)
<1>RenewTyped.
      ASSUME NEW l \in Leases, NEW t \in Int, NEW e \in Int
      PROVE  Renew(l, e, t) \in Leases
  <2> USE <1>RenewTyped
  <2>1. t + e \in Int /\ l.renewal_count + 1 \in Nat
    BY DEF Leases
  <2> QED
    BY <2>1, Zenon DEF Leases, Renew

(* The calls the actions put in flight.                                    *)
<1>CallsBuilt.
      /\ [pc |-> "idle"] \in Calls
      /\ \A r \in Requests : \A p \in {"check_cap", "check_exists", "grant"} :
           [pc |-> p, req |-> r] \in Calls
      /\ \A r \in Requests, i \in LeaseId, l \in Leases :
           [pc |-> "insert", req |-> r, id |-> i, lease |-> l] \in Calls
      /\ \A r \in Requests, i \in LeaseId : \A p \in {"link", "count"} :
           [pc |-> p, req |-> r, id |-> i] \in Calls
      /\ \A i \in LeaseId, h \in Domain, a \in Agent, s \in Secret :
           \A p \in {"fetch", "deliver"} :
             [pc |-> p, id |-> i, host |-> h, agent |-> a, secret |-> s] \in Calls
      /\ \A i \in LeaseId, e \in Int : [pc |-> "renew", id |-> i, ext |-> e] \in Calls
      /\ \A s \in Secret : [pc |-> "delete", secret |-> s] \in Calls
      /\ \A s \in SessionId : [pc |-> "sweep", session |-> s] \in Calls
      /\ \A e \in SUBSET LateEvents : [pc |-> "audit", events |-> e] \in Calls
      /\ [pc |-> "denied", events |-> {}] \in Calls
  BY DEF Calls

(* A step that replaces one connection's call keeps the calls typed.       *)
<1>GotoTyped.
      ASSUME TypeOK, NEW c \in Conn, NEW k \in Calls, Goto(c, k)
      PROVE  calls' \in [Conn -> Calls]
  BY <1>GotoTyped, Zenon DEF TypeOK, Goto

(* Returning keeps the calls typed.                                        *)
<1>ReturnTyped.
      ASSUME TypeOK, NEW c \in Conn, Return(c)
      PROVE  calls' \in [Conn -> Calls]
  BY <1>ReturnTyped, <1>CallsBuilt, Zenon DEF TypeOK, Return

(* Going to record events keeps the calls typed.                           *)
<1>GotoAuditTyped.
      ASSUME TypeOK, NEW c \in Conn, NEW e \in SUBSET LateEvents, GotoAudit(c, e)
      PROVE  calls' \in [Conn -> Calls]
  BY <1>GotoAuditTyped, <1>CallsBuilt, <1>GotoTyped, Zenon DEF GotoAudit

(* Revoking a set of leases with best-effort audit keeps map and log       *)
(* typed.                                                                  *)
<1>RevokeAllTyped.
      ASSUME TypeOK, NEW ids \in SUBSET DOMAIN leases, RevokeAll(ids)
      PROVE  /\ DOMAIN leases' \subseteq LeaseId
             /\ \A id \in DOMAIN leases' : leases'[id] \in Leases
             /\ audit' \subseteq Events
  <2> USE <1>RevokeAllTyped
  <2>1. DOMAIN leases' \subseteq LeaseId /\ \A id \in DOMAIN leases' : leases'[id] \in Leases
    BY <1>RevokeTyped, Zenon DEF RevokeAll, TypeOK
  <2>2. audit' \subseteq Events
    BY DEF RevokeAll, TypeOK, Events, LateEvents
  <2> QED
    BY <2>1, <2>2, Zenon

(* The steps of a request past the policy check start it well.             *)
<1>BeginRequestTyped.
      ASSUME TypeOK, NEW c \in Conn, NEW req \in Requests, BeginRequest(c, req)
      PROVE  calls' \in [Conn -> Calls]
  BY <1>BeginRequestTyped, <1>CallsBuilt, <1>GotoTyped, <1>GotoAuditTyped, Zenon DEF BeginRequest

(* Every step of Vault keeps its state well typed.                         *)
<1>TypeStep.
      ASSUME TypeOK, [Next]_vars
      PROVE  TypeOK'
  <2> USE <1>TypeStep
  <2> USE NumberAssumption
  <2>a. ASSUME NEW c \in Conn, RequestLease(c) PROVE TypeOK'
    <3>1. PICK a \in Agent, s \in Secret, d \in Domain :
            BeginRequest(c, [agent |-> a, secret |-> s, domain |-> d, session |-> {}])
      BY <2>a, Zenon DEF RequestLease
    <3>2. [agent |-> a, secret |-> s, domain |-> d, session |-> {}] \in Requests
      BY Zenon DEF Requests, Option
    <3> QED
      BY <2>a, <3>1, <3>2, <1>BeginRequestTyped, Zenon DEF RequestLease, TypeOK
  <2>b. ASSUME NEW c \in Conn, RequestLeaseScoped(c) PROVE TypeOK'
    <3>1. PICK sid \in KnownSessions \cap DOMAIN sessions,
               a \in Agent, s \in Secret, d \in Domain :
            \/ Goto(c, [pc |-> "denied", events |-> {}])
            \/ BeginRequest(c, [agent |-> a, secret |-> s, domain |-> d,
                                session |-> {sid}])
      BY <2>b, ZenonT(40) DEF RequestLeaseScoped
    <3>2. [agent |-> a, secret |-> s, domain |-> d, session |-> {sid}] \in Requests
      BY Zenon DEF Requests, Option, KnownSessions
    <3>3. calls' \in [Conn -> Calls]
      BY <3>1, <3>2, <1>BeginRequestTyped, <1>CallsBuilt, <1>GotoTyped, Zenon
    <3> QED
      BY <2>b, <3>3, Zenon DEF RequestLeaseScoped, TypeOK
  <2>c. ASSUME NEW c \in Conn, CheckCap(c) PROVE TypeOK'
    <3>1. calls[c].req \in Requests
      BY <2>c, CallShape, Zenon DEF CheckCap, TypeOK
    <3>2. calls' \in [Conn -> Calls]
      BY <2>c, <3>1, <1>CallsBuilt, <1>GotoTyped, <1>ReturnTyped, Zenon DEF CheckCap
    <3> QED
      BY <2>c, <3>2, Zenon DEF CheckCap, TypeOK
  <2>d. ASSUME NEW c \in Conn, CheckExists(c) PROVE TypeOK'
    <3>1. calls[c].req \in Requests
      BY <2>d, CallShape, Zenon DEF CheckExists, TypeOK
    <3>2. calls' \in [Conn -> Calls]
      BY <2>d, <3>1, <1>CallsBuilt, <1>GotoTyped, <1>ReturnTyped, Zenon DEF CheckExists
    <3> QED
      BY <2>d, <3>2, Zenon DEF CheckExists, TypeOK
  <2>e. ASSUME NEW c \in Conn, Grant(c) PROVE TypeOK'
    <3> DEFINE req == calls[c].req
    <3>1. req \in Requests
      BY <2>e, CallShape, Zenon DEF Grant, TypeOK
    <3>2. PICK id \in FreshLeaseIds,
               terms \in Evaluate(Config, req.agent, req.secret, req.domain) :
            /\ audit' = audit \cup {<<"LeaseGranted", id>>}
            /\ Goto(c, [pc |-> "insert", req |-> req, id |-> id,
                        lease |-> NewLease(req.agent, req.secret, {req.domain},
                                           terms, now)])
      BY <2>e, Zenon DEF Grant
    <3>3. NewLease(req.agent, req.secret, {req.domain}, terms, now) \in Leases
      <4>1. terms \in LeaseTerms
        BY <1>EvaluateTyped, Zenon
      <4>2. now \in Int
        BY DEF TypeOK
      <4> QED
        BY <3>1, <4>1, <4>2, <1>NewLeaseTyped, Zenon DEF Requests
    <3>4. id \in LeaseId
      BY Zenon DEF FreshLeaseIds
    <3>5. calls' \in [Conn -> Calls]
      BY <3>1, <3>2, <3>3, <3>4, <1>CallsBuilt, <1>GotoTyped, Zenon
    <3>6. audit' \subseteq Events
      BY <3>2, <3>4 DEF Events, TypeOK
    <3> QED
      BY <2>e, <3>5, <3>6, Zenon DEF Grant, TypeOK
  <2>f. ASSUME NEW c \in Conn, InsertLease(c) PROVE TypeOK'
    <3>1. calls[c].req \in Requests /\ calls[c].id \in LeaseId /\ calls[c].lease \in Leases
      BY <2>f, CallShape, Zenon DEF InsertLease, TypeOK
    <3>2. calls' \in [Conn -> Calls]
      BY <2>f, <3>1, <1>CallsBuilt, <1>GotoTyped, <1>ReturnTyped, Zenon DEF InsertLease
    <3>3. DOMAIN leases' \subseteq LeaseId /\ \A id \in DOMAIN leases' : leases'[id] \in Leases
      BY <2>f, <3>1, Zenon DEF InsertLease, Insert, TypeOK
    <3> QED
      BY <2>f, <3>2, <3>3, Zenon DEF InsertLease, TypeOK
  <2>g. ASSUME NEW c \in Conn, LinkLease(c) PROVE TypeOK'
    <3>1. calls[c].req \in Requests /\ calls[c].id \in LeaseId
      BY <2>g, CallShape, Zenon DEF LinkLease, TypeOK
    <3>2. calls' \in [Conn -> Calls]
      BY <2>g, <3>1, <1>CallsBuilt, <1>GotoTyped, Zenon DEF LinkLease
    <3>3. calls[c].req.session \in Option(SessionId)
      BY <3>1, Zenon DEF Requests
    <3>4. DOMAIN leases' \subseteq LeaseId /\ \A id \in DOMAIN leases' : leases'[id] \in Leases
      BY <2>g, <3>3 DEF LinkLease, TypeOK, Leases
    <3> QED
      BY <2>g, <3>2, <3>4, Zenon DEF LinkLease, TypeOK
  <2>h. ASSUME NEW c \in Conn, CountLease(c) PROVE TypeOK'
    <3>1. calls' \in [Conn -> Calls]
      BY <2>h, <1>ReturnTyped, Zenon DEF CountLease
    <3>2. DOMAIN sessions' \subseteq SessionId /\ \A s \in DOMAIN sessions' : sessions'[s] \in Sessions
      BY <2>h DEF CountLease, TypeOK, Sessions
    <3> QED
      BY <2>h, <3>1, <3>2, Zenon DEF CountLease, TypeOK
  <2>i. ASSUME NEW c \in Conn, AccessSecret(c) PROVE TypeOK'
    <3>1. PICK id \in KnownLeases \cap DOMAIN leases, host \in Domain :
            /\ leases' = [leases EXCEPT ![id] = RecordUse(leases[id])]
            /\ Goto(c, [pc |-> "fetch", id |-> id, host |-> host,
                        agent |-> leases[id].agent, secret |-> leases[id].secret_name])
      BY <2>i, Zenon DEF AccessSecret
    <3>2. leases[id] \in Leases /\ id \in LeaseId
      BY Zenon DEF TypeOK
    <3>3. calls' \in [Conn -> Calls]
      BY <3>1, <3>2, <1>CallsBuilt, <1>GotoTyped, Zenon DEF Leases
    <3>4. DOMAIN leases' \subseteq LeaseId /\ \A i \in DOMAIN leases' : leases'[i] \in Leases
      BY <3>1, <3>2, <1>RecordUseTyped, Zenon DEF TypeOK
    <3> QED
      BY <2>i, <3>3, <3>4, Zenon DEF AccessSecret, TypeOK
  <2>j. ASSUME NEW c \in Conn, Fetch(c) PROVE TypeOK'
    <3> DEFINE k == calls[c]
    <3>1. /\ k.id \in LeaseId /\ k.host \in Domain /\ k.agent \in Agent /\ k.secret \in Secret
          /\ k = [pc |-> k.pc, id |-> k.id, host |-> k.host,
                  agent |-> k.agent, secret |-> k.secret]
      BY <2>j, CallShape, Zenon DEF Fetch, TypeOK
    <3>2. [k EXCEPT !.pc = "deliver"] = [pc |-> "deliver", id |-> k.id, host |-> k.host,
                                         agent |-> k.agent, secret |-> k.secret]
      BY <3>1
    <3>3. calls' \in [Conn -> Calls]
      BY <2>j, <3>1, <3>2, <1>CallsBuilt, <1>GotoTyped, <1>ReturnTyped, Zenon DEF Fetch
    <3> QED
      BY <2>j, <3>3, Zenon DEF Fetch, TypeOK
  <2>k. ASSUME NEW c \in Conn, Deliver(c) PROVE TypeOK'
    <3>1. calls[c].id \in LeaseId
      BY <2>k, CallShape, Zenon DEF Deliver, TypeOK
    <3>2. calls' \in [Conn -> Calls]
      BY <2>k, <1>ReturnTyped, Zenon DEF Deliver
    <3>3. audit' \subseteq Events /\ guards' \in [LeaseId -> Nat]
      BY <2>k, <3>1 DEF Deliver, Events, TypeOK
    <3> QED
      BY <2>k, <3>2, <3>3, Zenon DEF Deliver, TypeOK
  <2>l. ASSUME NEW c \in Conn, RevokeLease(c) PROVE TypeOK'
    <3>1. PICK id \in KnownLeases \cap DOMAIN leases :
            /\ leases' = [leases EXCEPT ![id] = Revoke(leases[id])]
            /\ GotoAudit(c, {<<"LeaseRevoked", id>>})
      BY <2>l, Zenon DEF RevokeLease
    <3>2. leases[id] \in Leases /\ id \in LeaseId
      BY Zenon DEF TypeOK
    <3>3. {<<"LeaseRevoked", id>>} \in SUBSET LateEvents
      BY <3>2 DEF LateEvents
    <3>4. calls' \in [Conn -> Calls]
      BY <3>1, <3>3, <1>GotoAuditTyped, Zenon
    <3>5. DOMAIN leases' \subseteq LeaseId /\ \A i \in DOMAIN leases' : leases'[i] \in Leases
      BY <3>1, <3>2, <1>RevokeTyped, Zenon DEF TypeOK
    <3> QED
      BY <2>l, <3>4, <3>5, Zenon DEF RevokeLease, TypeOK
  <2>m. ASSUME NEW c \in Conn, RevokeAllForAgent(c) PROVE TypeOK'
    <3>1. PICK a \in Agent : RevokeAll(Unrevoked(a))
      BY <2>m, Zenon DEF RevokeAllForAgent
    <3>2. Unrevoked(a) \in SUBSET DOMAIN leases
      BY Zenon DEF Unrevoked
    <3> QED
      BY <2>m, <3>1, <3>2, <1>RevokeAllTyped, Zenon DEF RevokeAllForAgent, TypeOK
  <2>n. ASSUME NEW c \in Conn, RenewLease(c) PROVE TypeOK'
    <3>1. PICK id \in KnownLeases, ext \in Extensions :
            Goto(c, [pc |-> "renew", id |-> id, ext |-> ext])
      BY <2>n, Zenon DEF RenewLease
    <3>2. id \in LeaseId /\ ext \in Int
      BY Zenon DEF KnownLeases
    <3>3. calls' \in [Conn -> Calls]
      BY <3>1, <3>2, <1>CallsBuilt, <1>GotoTyped, Zenon
    <3> QED
      BY <2>n, <3>3, Zenon DEF RenewLease, TypeOK
  <2>o. ASSUME NEW c \in Conn, FinishRenew(c) PROVE TypeOK'
    <3> DEFINE id == calls[c].id
               e  == calls[c].ext * Second
    <3>1. e \in Int /\ now \in Int
      <4>1. calls[c].ext \in Int
        BY <2>o, CallShape, Zenon DEF FinishRenew, TypeOK
      <4> QED
        BY <4>1 DEF TypeOK
    <3>2. calls' \in [Conn -> Calls]
      BY <2>o, <1>ReturnTyped, <1>GotoAuditTyped, Zenon DEF FinishRenew
    <3>3. leases' = leases \/ leases' = [leases EXCEPT ![id] = Renew(leases[id], e, now)]
      BY <2>o, Zenon DEF FinishRenew
    <3>4. DOMAIN leases' \subseteq LeaseId /\ \A i \in DOMAIN leases' : leases'[i] \in Leases
      <4> HIDE DEF id, e
      <4>1. \A i \in DOMAIN leases : Renew(leases[i], e, now) \in Leases
        BY <3>1, <1>RenewTyped, Zenon DEF TypeOK
      <4> QED
        BY <3>3, <4>1, Zenon DEF TypeOK
    <3> QED
      BY <2>o, <3>2, <3>4, Zenon DEF FinishRenew, TypeOK
  <2>p. CASE GcLeases
    BY <2>p, Zenon DEF GcLeases, Restrict, TypeOK
  <2>q. ASSUME NEW c \in Conn, StoreSecret(c) PROVE TypeOK'
    <3>1. calls' \in [Conn -> Calls]
      BY <2>q, <1>GotoAuditTyped, Zenon DEF StoreSecret
    <3> QED
      BY <2>q, <3>1, Zenon DEF StoreSecret, TypeOK
  <2>r. ASSUME NEW c \in Conn, DeleteSecret(c) PROVE TypeOK'
    <3>1. PICK s \in Secret :
            /\ RevokeAll({id \in DOMAIN leases :
                            leases[id].secret_name = s /\ ~leases[id].revoked})
            /\ Goto(c, [pc |-> "delete", secret |-> s])
      BY <2>r, Zenon DEF DeleteSecret
    <3>2. calls' \in [Conn -> Calls]
      BY <3>1, <1>CallsBuilt, <1>GotoTyped, Zenon
    <3> QED
      BY <2>r, <3>1, <3>2, <1>RevokeAllTyped, Zenon DEF DeleteSecret, TypeOK
  <2>s. ASSUME NEW c \in Conn, DeleteFromStore(c) PROVE TypeOK'
    <3>1. calls' \in [Conn -> Calls]
      BY <2>s, <1>GotoAuditTyped, <1>ReturnTyped, Zenon DEF DeleteFromStore
    <3> QED
      BY <2>s, <3>1, Zenon DEF DeleteFromStore, TypeOK
  <2>t. ASSUME NEW c \in Conn, CreateSession(c) PROVE TypeOK'
    <3>1. PICK s \in FreshSessionIds, p \in SessionPolicies :
            /\ sessions' = Insert(sessions, s, NewSession(p, now))
            /\ GotoAudit(c, {<<"SessionCreated", s>>})
      BY <2>t, Zenon DEF CreateSession
    <3>2. s \in SessionId
      BY Zenon DEF FreshSessionIds
    <3>3. NewSession(p, now) \in Sessions
      BY SessionPolicyAssumption DEF NewSession, Sessions, TypeOK
    <3>4. {<<"SessionCreated", s>>} \in SUBSET LateEvents
      BY <3>2 DEF LateEvents
    <3>5. calls' \in [Conn -> Calls]
      BY <3>1, <3>4, <1>GotoAuditTyped, Zenon
    <3>6. DOMAIN sessions' \subseteq SessionId /\ \A i \in DOMAIN sessions' : sessions'[i] \in Sessions
      BY <3>1, <3>2, <3>3, Zenon DEF Insert, TypeOK
    <3> QED
      BY <2>t, <3>5, <3>6, Zenon DEF CreateSession, TypeOK
  <2>u. ASSUME NEW c \in Conn, RevokeSession(c) PROVE TypeOK'
    <3>1. PICK s \in DOMAIN sessions :
            /\ sessions' = [sessions EXCEPT ![s].revoked = TRUE]
            /\ Goto(c, [pc |-> "sweep", session |-> s])
      BY <2>u, Zenon DEF RevokeSession
    <3>2. calls' \in [Conn -> Calls]
      BY <3>1, <1>CallsBuilt, <1>GotoTyped, Zenon DEF TypeOK
    <3>3. DOMAIN sessions' \subseteq SessionId /\ \A i \in DOMAIN sessions' : sessions'[i] \in Sessions
      BY <3>1, ZenonT(40) DEF TypeOK, Sessions
    <3> QED
      BY <2>u, <3>2, <3>3, Zenon DEF RevokeSession, TypeOK
  <2>v. ASSUME NEW c \in Conn, SweepChildren(c) PROVE TypeOK'
    <3>1. calls' \in [Conn -> Calls]
      BY <2>v, <1>GotoAuditTyped, Zenon DEF SweepChildren
    <3> QED
      BY <2>v, <3>1, <1>RevokeAllTyped, Zenon DEF SweepChildren, TypeOK
  <2>w. CASE GcSessions
    BY <2>w, Zenon DEF GcSessions, Restrict, TypeOK
  <2>x. ASSUME NEW c \in Conn, RecordAndReturn(c) PROVE TypeOK'
    <3>1. calls' \in [Conn -> Calls]
      BY <2>x, <1>ReturnTyped, Zenon DEF RecordAndReturn
    <3>2. calls[c].events \subseteq Events
      BY <2>x, CallShape, Zenon DEF RecordAndReturn, TypeOK, Events
    <3> QED
      BY <2>x, <3>1, <3>2, Zenon DEF RecordAndReturn, TypeOK
  <2>y. ASSUME NEW c \in Conn, BackendFails(c) PROVE TypeOK'
    BY <2>y, <1>ReturnTyped, Zenon DEF BackendFails, TypeOK
  <2>z. CASE Tick \/ UNCHANGED vars
    BY <2>z, SMTT(40) DEF Tick, vars, TypeOK
  <2>zz. CASE Restart
    BY <2>zz, <1>CallsBuilt, Zenon DEF Restart, EmptyMap, TypeOK
  <2> QED
    BY <2>a, <2>b, <2>c, <2>d, <2>e, <2>f, <2>g, <2>h, <2>i, <2>j, <2>k, <2>l, <2>m,
       <2>n, <2>o, <2>p, <2>q, <2>r, <2>s, <2>t, <2>u, <2>v, <2>w, <2>x, <2>y, <2>z, <2>zz, Zenon
    DEF Next, Invoke, Resume

<1>1. Init => TypeOK
  <2> SUFFICES ASSUME Init PROVE TypeOK
    BY Zenon
  <2>1. now \in Nat /\ store \subseteq Secret /\ audit \subseteq Events
    BY Zenon DEF Init
  <2>2. DOMAIN leases = {} /\ DOMAIN sessions = {}
    BY Zenon DEF Init, EmptyMap
  <2>3. [pc |-> "idle"] \in Calls
    BY <1>CallsBuilt, Zenon
  <2>4. calls \in [Conn -> Calls]
    BY <2>3, Zenon DEF Init
  <2>5. guards \in [LeaseId -> Nat]
    BY Zenon DEF Init
  <2> QED
    BY <2>1, <2>2, <2>4, <2>5, Zenon DEF TypeOK
<1>2. TypeOK /\ [Next]_vars => TypeOK'
  BY <1>TypeStep, Zenon
<1> QED
  BY <1>1, <1>2, PTL DEF Spec

------------------------------------------------------------------------------
(* Confinement, for every policy, every set of names and any number of     *)
(* concurrent calls.  Matching of domain scopes is transitive, for names of*)
(* any length.                                                             *)

(* DomainScope::matches: a scope reached through a narrower scope is       *)
(* reached directly, so checking the requested scope as if it were a host  *)
(* vouches for every host that scope later matches.                        *)
THEOREM MatchesTransitive ==
    ASSUME NEW p \in Seq(STRING), NEW d \in Seq(STRING), NEW h \in Seq(STRING),
           Matches(p, d), Matches(d, h)
    PROVE  Matches(p, h)
<1>1. CASE p = d \/ d = h
  BY <1>1, Zenon
<1>2. CASE p # d /\ d # h
  <2>1. /\ Len(p) > 1 /\ p[1] = "*" /\ ProperSubdomain(p, d) /\ EndsWithTail(p, d)
        /\ Len(d) > 1 /\ d[1] = "*" /\ ProperSubdomain(d, h) /\ EndsWithTail(d, h)
    BY <1>2, Zenon DEF Matches
  <2>2. Len(p) \in Nat /\ Len(d) \in Nat /\ Len(h) \in Nat
    OBVIOUS
  <2>3. ProperSubdomain(p, h)
    <3>1. ~(Len(h) = Len(d) /\ h[1] = "")
      BY <2>1, Zenon DEF ProperSubdomain
    <3>2. Len(d) >= Len(p) /\ Len(h) >= Len(d)
      BY <2>1, Zenon DEF ProperSubdomain
    <3>3. Len(h) >= Len(p) /\ (Len(h) = Len(p) => Len(h) = Len(d))
      BY <2>2, <3>2
    <3> QED
      BY <3>1, <3>3, Zenon DEF ProperSubdomain
  <2>4. EndsWithTail(p, h)
    <3> SUFFICES ASSUME NEW i \in 2..Len(p)
                 PROVE  h[Len(h) - Len(p) + i] = p[i]
      BY Zenon DEF EndsWithTail
    <3> DEFINE j == Len(d) - Len(p) + i
    <3>1. j \in 2..Len(d) /\ Len(h) - Len(d) + j = Len(h) - Len(p) + i
      <4>1. Len(d) >= Len(p)
        BY <2>1, Zenon DEF ProperSubdomain
      <4> QED
        BY <2>2, <4>1
    <3>2. d[j] = p[i]
      BY <2>1, Zenon DEF EndsWithTail
    <3>3. h[Len(h) - Len(d) + j] = d[j]
      <4> HIDE DEF j
      <4> QED
        BY <2>1, <3>1, Zenon DEF EndsWithTail
    <3> QED
      BY <3>1, <3>2, <3>3, Zenon
  <2> QED
    BY <2>1, <2>3, <2>4, Zenon DEF Matches
<1> QED
  BY <1>1, <1>2, Zenon

\* whatever the lease's scope is, the policy permits that scope itself
Confined(lease) ==
    \A d \in lease.allowed_domains :
        Permits(Config, lease.agent, lease.secret_name, d)

(* PolicyConfinement speaks of calls past validate; what makes it hold is  *)
(* that every lease, in the map or about to enter it, is confined.         *)
ConfinementInv ==
    /\ \A id \in DOMAIN leases : Confined(leases[id])
    /\ \A c \in Conn : calls[c].pc = "insert" => Confined(calls[c].lease)
    /\ PolicyConfinement

(* PolicyConfinement: under every interleaving, a secret that access_secret *)
(* is about to return is one some grant permits its agent for that host.    *)
THEOREM Confinement == Spec => []PolicyConfinement
(* What evaluate grants, some grant of the policy permits.                 *)
<1>EvaluatePermits.
      ASSUME NEW a, NEW s, NEW d, Evaluate(Config, a, s, d) # {}
      PROVE  Permits(Config, a, s, d)
  BY <1>EvaluatePermits, Zenon DEF Evaluate, FirstMatch, Permits

(* A host that the scope of a confined lease matches is permitted: the     *)
(* policy saw only the scope, and matching is transitive.                  *)
<1>ConfinedReaches.
      ASSUME NEW l \in Leases, NEW host \in Domain, NEW t \in Int,
             Confined(l), Validate(l, host, t)
      PROVE  Permits(Config, l.agent, l.secret_name, host)
  <2> USE <1>ConfinedReaches
  <2>1. PICK d \in l.allowed_domains : Matches(d, host)
    BY Zenon DEF Validate
  <2>2. d \in Seq(STRING) /\ host \in Seq(STRING)
    BY DomainAssumption, Zenon DEF Leases
  <2>3. PICK i \in DOMAIN Config.grants :
          GrantMatches(Config.grants[i], l.agent, l.secret_name, d)
    BY Zenon DEF Confined, Permits
  <2>4. PICK p \in Config.grants[i].allowed_domains : Matches(p, d)
    BY <2>3, Zenon DEF GrantMatches
  <2>5. p \in Seq(STRING)
    BY ConfigAssumption, Zenon
  <2>6. Matches(p, host)
    BY <2>1, <2>2, <2>4, <2>5, MatchesTransitive, Zenon
  <2> QED
    BY <2>3, <2>6, Zenon DEF GrantMatches, Permits

(* Uses, renewals, revocations and links leave a lease confined.           *)
<1>OpsConfined.
      ASSUME NEW l \in Leases, Confined(l), NEW e, NEW t, NEW s
      PROVE  /\ Confined(RecordUse(l))
             /\ Confined(Revoke(l))
             /\ Confined(Renew(l, e, t))
             /\ Confined([l EXCEPT !.session_id = s])
  <2> USE <1>OpsConfined
  <2>1. Confined(RecordUse(l))
    BY Zenon DEF Leases, Confined, RecordUse
  <2>2. Confined(Revoke(l))
    BY Zenon DEF Leases, Confined, Revoke
  <2>3. Confined(Renew(l, e, t))
    BY Zenon DEF Leases, Confined, Renew
  <2>4. Confined([l EXCEPT !.session_id = s])
    BY Zenon DEF Leases, Confined
  <2> QED
    BY <2>1, <2>2, <2>3, <2>4, Zenon

(* The bulk revocations leave the leases confined.                         *)
<1>RevokeAllConfined.
      ASSUME TypeOK, ConfinementInv, NEW ids, RevokeAll(ids)
      PROVE  \A id \in DOMAIN leases' : Confined(leases'[id])
  BY <1>RevokeAllConfined, <1>OpsConfined, Zenon DEF TypeOK, ConfinementInv, RevokeAll

(* One call moves on to k: it is enough to look at k and at the map.       *)
<1>ConfinementFrame.
      ASSUME TypeOK, ConfinementInv, NEW c \in Conn, NEW k, Goto(c, k),
             \A id \in DOMAIN leases' : Confined(leases'[id]),
             k.pc = "insert" => Confined(k.lease),
             k.pc \in {"fetch", "deliver"} => Permits(Config, k.agent, k.secret, k.host)
      PROVE  ConfinementInv'
  <2> USE <1>ConfinementFrame
  <2>1. \A x \in Conn : calls'[x] = IF x = c THEN k ELSE calls[x]
    BY Zenon DEF Goto, TypeOK
  <2>2. \A x \in Conn : calls'[x].pc = "insert" => Confined(calls'[x].lease)
    BY <2>1, Zenon DEF ConfinementInv
  <2>3. PolicyConfinement'
    BY <2>1, Zenon DEF ConfinementInv, PolicyConfinement
  <2> QED
    BY <2>2, <2>3, Zenon DEF ConfinementInv, Confined, Permits

(* Returning, or going to record events, leaves everything confined if the *)
(* map is.                                                                 *)
<1>ConfinementQuit.
      ASSUME TypeOK, ConfinementInv, NEW c \in Conn,
             Return(c) \/ \E e : GotoAudit(c, e),
             \A id \in DOMAIN leases' : Confined(leases'[id])
      PROVE  ConfinementInv'
  <2> USE <1>ConfinementQuit
  <2>1. CASE Return(c)
    <3>1. Goto(c, [pc |-> "idle"])
      BY <2>1, Zenon DEF Return, Goto
    <3> QED
      BY <3>1, <1>ConfinementFrame, Zenon
  <2>2. CASE \E e : GotoAudit(c, e)
    <3>1. PICK e : Goto(c, [pc |-> "audit", events |-> e])
      BY <2>2, Zenon DEF GotoAudit
    <3> QED
      BY <3>1, <1>ConfinementFrame, Zenon
  <2> QED
    BY <2>1, <2>2, Zenon

(* Every step keeps the leases, and the secrets under way, confined.       *)
<1>ConfinementStep.
      ASSUME TypeOK, ConfinementInv, [Next]_vars
      PROVE  ConfinementInv'
  <2> USE <1>ConfinementStep
  <2>m. ASSUME UNCHANGED leases PROVE \A id \in DOMAIN leases' : Confined(leases'[id])
    BY <2>m, Zenon DEF ConfinementInv
  <2>a. ASSUME NEW c \in Conn, RequestLease(c) \/ RequestLeaseScoped(c)
        PROVE  ConfinementInv'
    <3>1. UNCHANGED leases
      BY <2>a, Zenon DEF RequestLease, RequestLeaseScoped
    <3> QED
      BY <2>a, <2>m, <3>1, RequestIsGoto, <1>ConfinementFrame, Zenon
  <2>b. ASSUME NEW c \in Conn, CheckCap(c) \/ CheckExists(c) PROVE ConfinementInv'
    <3>1. UNCHANGED leases
      BY <2>b, Zenon DEF CheckCap, CheckExists
    <3>2. \/ Return(c)
          \/ Goto(c, [pc |-> "check_exists", req |-> calls[c].req])
          \/ Goto(c, [pc |-> "grant", req |-> calls[c].req])
      BY <2>b, Zenon DEF CheckCap, CheckExists
    <3> QED
      BY <2>m, <3>1, <3>2, <1>ConfinementQuit, <1>ConfinementFrame, Zenon
  <2>c. ASSUME NEW c \in Conn, Grant(c) PROVE ConfinementInv'
    <3> DEFINE req == calls[c].req
    <3>1. PICK id \in FreshLeaseIds, terms \in Evaluate(Config, req.agent, req.secret, req.domain) :
            Goto(c, [pc |-> "insert", req |-> req, id |-> id,
                     lease |-> NewLease(req.agent, req.secret, {req.domain}, terms, now)])
      BY <2>c, Zenon DEF Grant
    <3>2. Confined(NewLease(req.agent, req.secret, {req.domain}, terms, now))
      <4>1. Permits(Config, req.agent, req.secret, req.domain)
        BY <1>EvaluatePermits, Zenon
      <4> HIDE DEF req
      <4> QED
        BY <4>1, Zenon DEF Confined, NewLease
    <3>3. UNCHANGED leases
      BY <2>c, Zenon DEF Grant
    <3> HIDE DEF req
    <3> QED
      BY <2>m, <3>1, <3>2, <3>3, <1>ConfinementFrame, Zenon
  <2>d. ASSUME NEW c \in Conn, InsertLease(c) PROVE ConfinementInv'
    <3>1. \A id \in DOMAIN leases' : Confined(leases'[id])
      BY <2>d, Zenon DEF InsertLease, Insert, ConfinementInv
    <3>2. Return(c) \/ Goto(c, [pc |-> "link", req |-> calls[c].req, id |-> calls[c].id])
      BY <2>d, Zenon DEF InsertLease
    <3> QED
      BY <3>1, <3>2, <1>ConfinementQuit, <1>ConfinementFrame, Zenon
  <2>e. ASSUME NEW c \in Conn, LinkLease(c) PROVE ConfinementInv'
    <3>1. \A id \in DOMAIN leases' : Confined(leases'[id])
      <4> DEFINE s == calls[c].req.session
      <4>1. \A id \in DOMAIN leases : Confined([leases[id] EXCEPT !.session_id = s])
        BY <1>OpsConfined, Zenon DEF TypeOK, ConfinementInv
      <4>2. \A id \in DOMAIN leases' :
              id \in DOMAIN leases /\ (leases'[id] = leases[id]
                                       \/ leases'[id] = [leases[id] EXCEPT !.session_id = s])
        BY <2>e, Zenon DEF LinkLease
      <4> QED
        BY <4>1, <4>2 DEF ConfinementInv
    <3>2. Goto(c, [pc |-> "count", req |-> calls[c].req, id |-> calls[c].id])
      BY <2>e, Zenon DEF LinkLease
    <3> QED
      BY <3>1, <3>2, <1>ConfinementFrame, Zenon
  <2>f. ASSUME NEW c \in Conn, CountLease(c) \/ Deliver(c) \/ StoreSecret(c) \/ DeleteFromStore(c)
                               \/ CreateSession(c) \/ RecordAndReturn(c) \/ BackendFails(c)
        PROVE  ConfinementInv'
    <3>1. UNCHANGED leases /\ (Return(c) \/ \E ev : GotoAudit(c, ev))
      BY <2>f, Zenon DEF CountLease, Deliver, StoreSecret, DeleteFromStore, CreateSession,
                  RecordAndReturn, BackendFails
    <3> QED
      BY <2>m, <3>1, <1>ConfinementQuit, Zenon
  <2>g. ASSUME NEW c \in Conn, AccessSecret(c) PROVE ConfinementInv'
    <3>1. PICK id \in DOMAIN leases, host \in Domain :
            /\ Validate(leases[id], host, now)
            /\ leases' = [leases EXCEPT ![id] = RecordUse(leases[id])]
            /\ Goto(c, [pc |-> "fetch", id |-> id, host |-> host,
                        agent |-> leases[id].agent, secret |-> leases[id].secret_name])
      BY <2>g, Zenon DEF AccessSecret
    <3>2. leases[id] \in Leases /\ Confined(leases[id]) /\ now \in Int
      BY DEF TypeOK, ConfinementInv
    <3>3. Permits(Config, leases[id].agent, leases[id].secret_name, host)
      BY <3>1, <3>2, <1>ConfinedReaches, Zenon
    <3>4. \A i \in DOMAIN leases' : Confined(leases'[i])
      BY <3>1, <3>2, <1>OpsConfined, Zenon DEF ConfinementInv
    <3> QED
      BY <3>1, <3>3, <3>4, <1>ConfinementFrame, Zenon
  <2>h. ASSUME NEW c \in Conn, Fetch(c) PROVE ConfinementInv'
    <3> DEFINE k == calls[c]
    <3>1. Permits(Config, k.agent, k.secret, k.host)
      BY <2>h, Zenon DEF Fetch, ConfinementInv, PolicyConfinement
    <3>2. k = [pc |-> k.pc, id |-> k.id, host |-> k.host, agent |-> k.agent, secret |-> k.secret]
      BY <2>h, CallShape, Zenon DEF Fetch, TypeOK
    <3>3. [k EXCEPT !.pc = "deliver"] = [pc |-> "deliver", id |-> k.id, host |-> k.host,
                                         agent |-> k.agent, secret |-> k.secret]
      BY <3>2
    <3>4. UNCHANGED leases /\ (Return(c) \/ Goto(c, [k EXCEPT !.pc = "deliver"]))
      BY <2>h, Zenon DEF Fetch
    <3> HIDE DEF k
    <3> QED
      BY <2>m, <3>1, <3>3, <3>4, <1>ConfinementQuit, <1>ConfinementFrame, Zenon
  <2>i. ASSUME NEW c \in Conn, RevokeLease(c) PROVE ConfinementInv'
    <3>1. PICK id \in DOMAIN leases :
            /\ leases' = [leases EXCEPT ![id] = Revoke(leases[id])]
            /\ GotoAudit(c, {<<"LeaseRevoked", id>>})
      BY <2>i, Zenon DEF RevokeLease
    <3>2. \A x \in DOMAIN leases' : Confined(leases'[x])
      BY <3>1, <1>OpsConfined, Zenon DEF TypeOK, ConfinementInv
    <3> QED
      BY <3>1, <3>2, <1>ConfinementQuit, Zenon
  <2>j. ASSUME NEW c \in Conn, RevokeAllForAgent(c) PROVE ConfinementInv'
    <3>1. \A id \in DOMAIN leases' : Confined(leases'[id])
      BY <2>j, <1>RevokeAllConfined, Zenon DEF RevokeAllForAgent
    <3>2. UNCHANGED calls
      BY <2>j, Zenon DEF RevokeAllForAgent
    <3> QED
      BY <3>1, <3>2, Zenon DEF ConfinementInv, PolicyConfinement, Confined, Permits
  <2>k. ASSUME NEW c \in Conn, RenewLease(c) PROVE ConfinementInv'
    <3>1. PICK id, ext : Goto(c, [pc |-> "renew", id |-> id, ext |-> ext])
      BY <2>k, Zenon DEF RenewLease
    <3>2. UNCHANGED leases
      BY <2>k, Zenon DEF RenewLease
    <3> QED
      BY <2>m, <3>1, <3>2, <1>ConfinementFrame, Zenon
  <2>l. ASSUME NEW c \in Conn, FinishRenew(c) PROVE ConfinementInv'
    <3> DEFINE id == calls[c].id
               e  == calls[c].ext * Second
    <3>1. leases' = leases \/ leases' = [leases EXCEPT ![id] = Renew(leases[id], e, now)]
      BY <2>l, Zenon DEF FinishRenew
    <3>2. Return(c) \/ \E ev : GotoAudit(c, ev)
      BY <2>l, Zenon DEF FinishRenew
    <3> HIDE DEF id, e
    <3>3. \A x \in DOMAIN leases : Confined(Renew(leases[x], e, now))
      BY <1>OpsConfined, Zenon DEF TypeOK, ConfinementInv
    <3>4. \A x \in DOMAIN leases' : Confined(leases'[x])
      BY <3>1, <3>3, Zenon DEF ConfinementInv
    <3> QED
      BY <3>2, <3>4, <1>ConfinementQuit, Zenon
  <2>n. ASSUME NEW c \in Conn, DeleteSecret(c) PROVE ConfinementInv'
    <3>1. \A id \in DOMAIN leases' : Confined(leases'[id])
      BY <2>n, <1>RevokeAllConfined, Zenon DEF DeleteSecret
    <3>2. PICK s : Goto(c, [pc |-> "delete", secret |-> s])
      BY <2>n, Zenon DEF DeleteSecret
    <3> QED
      BY <3>1, <3>2, <1>ConfinementFrame, Zenon
  <2>o. ASSUME NEW c \in Conn, RevokeSession(c) PROVE ConfinementInv'
    <3>1. PICK s : Goto(c, [pc |-> "sweep", session |-> s])
      BY <2>o, Zenon DEF RevokeSession
    <3>2. UNCHANGED leases
      BY <2>o, Zenon DEF RevokeSession
    <3> QED
      BY <2>m, <3>1, <3>2, <1>ConfinementFrame, Zenon
  <2>p. ASSUME NEW c \in Conn, SweepChildren(c) PROVE ConfinementInv'
    BY <2>p, <1>RevokeAllConfined, <1>ConfinementQuit, Zenon DEF SweepChildren
  <2>r. CASE GcLeases
    <3>1. \A id \in DOMAIN leases' : Confined(leases'[id])
      BY <2>r, Zenon DEF GcLeases, Restrict, ConfinementInv
    <3> QED
      BY <2>r, <3>1, Zenon DEF GcLeases, ConfinementInv, PolicyConfinement, Confined, Permits
  <2>s. CASE Restart
    BY <2>s, Zenon DEF Restart, EmptyMap, ConfinementInv, PolicyConfinement
  <2>t. CASE GcSessions \/ Tick \/ UNCHANGED vars
    BY <2>t, Zenon DEF GcSessions, Tick, vars, ConfinementInv, PolicyConfinement
  <2> QED
    BY <2>a, <2>b, <2>c, <2>d, <2>e, <2>f, <2>g, <2>h, <2>i, <2>j, <2>k, <2>l, <2>n,
       <2>o, <2>p, <2>r, <2>s, <2>t, Zenon
    DEF Next, Invoke, Resume

<1>1. Init => ConfinementInv
  BY DEF Init, EmptyMap, ConfinementInv, PolicyConfinement
<1>2. TypeOK /\ ConfinementInv /\ [Next]_vars => ConfinementInv'
  BY <1>ConfinementStep, Zenon
<1>3. ConfinementInv => PolicyConfinement
  BY Zenon DEF ConfinementInv
<1> QED
  BY <1>1, <1>2, <1>3, TypeCorrect, PTL DEF Spec
-----------------------------------------------------------------------------
Granted(id) == <<"LeaseGranted", id>> \in audit

(* NothingUnaudited holds because the record is written first: a call that *)
(* is about to insert a lease, or is on its way to return a guard, already *)
(* has its LeaseGranted record.                                            *)
AuditInv ==
    /\ NothingUnaudited
    /\ \A c \in Conn : calls[c].pc \in {"insert", "fetch", "deliver"} => Granted(calls[c].id)

(* NothingUnaudited: whatever fails, races or restarts, no lease is in the *)
(* map and no guard has been returned without its audit records.           *)
THEOREM AuditFirst == Spec => []NothingUnaudited
(* One call moves on to k, the log grows and no guard is returned.         *)
<1>AuditFrame.
      ASSUME TypeOK, AuditInv, NEW c \in Conn, NEW k, Goto(c, k),
             audit \subseteq audit', UNCHANGED guards,
             \A id \in DOMAIN leases' : id \in DOMAIN leases \/ Granted(id),
             k.pc \in {"insert", "fetch", "deliver"} => <<"LeaseGranted", k.id>> \in audit'
      PROVE  AuditInv'
  <2> USE <1>AuditFrame
  <2>1. \A x \in Conn : calls'[x] = IF x = c THEN k ELSE calls[x]
    BY Zenon DEF Goto, TypeOK
  <2>2. \A x \in Conn : calls'[x].pc \in {"insert", "fetch", "deliver"}
                          => <<"LeaseGranted", calls'[x].id>> \in audit'
    BY <2>1, Zenon DEF AuditInv, Granted
  <2>3. NothingUnaudited'
    BY Zenon DEF AuditInv, NothingUnaudited, Granted
  <2> QED
    BY <2>2, <2>3, Zenon DEF AuditInv, Granted

(* A call that returns, or goes to record events, and inserts nothing.     *)
<1>AuditQuit.
      ASSUME TypeOK, AuditInv, NEW c \in Conn,
             Return(c) \/ \E e : GotoAudit(c, e),
             audit \subseteq audit', UNCHANGED guards,
             \A id \in DOMAIN leases' : id \in DOMAIN leases \/ Granted(id)
      PROVE  AuditInv'
  <2> USE <1>AuditQuit
  <2>1. CASE Return(c)
    <3>1. Goto(c, [pc |-> "idle"])
      BY <2>1, Zenon DEF Return, Goto
    <3> QED
      BY <3>1, <1>AuditFrame, Zenon
  <2>2. CASE \E e : GotoAudit(c, e)
    <3>1. PICK e : Goto(c, [pc |-> "audit", events |-> e])
      BY <2>2, Zenon DEF GotoAudit
    <3> QED
      BY <3>1, <1>AuditFrame, Zenon
  <2> QED
    BY <2>1, <2>2, Zenon

(* Every step keeps leases and guards behind their records.                *)
<1>AuditStep.
      ASSUME TypeOK, AuditInv, [Next]_vars
      PROVE  AuditInv'
  <2> USE <1>AuditStep
  <2>b. ASSUME NEW c \in Conn, RequestLease(c) \/ RequestLeaseScoped(c) PROVE AuditInv'
    <3>1. UNCHANGED <<leases, audit, guards>>
      BY <2>b, Zenon DEF RequestLease, RequestLeaseScoped
    <3> QED
      BY <2>b, <3>1, RequestIsGoto, <1>AuditFrame, Zenon
  <2>c. ASSUME NEW c \in Conn, CheckCap(c) \/ CheckExists(c) PROVE AuditInv'
    <3>1. UNCHANGED <<leases, audit, guards>>
      BY <2>c, Zenon DEF CheckCap, CheckExists
    <3>2. \/ Return(c)
          \/ Goto(c, [pc |-> "check_exists", req |-> calls[c].req])
          \/ Goto(c, [pc |-> "grant", req |-> calls[c].req])
      BY <2>c, Zenon DEF CheckCap, CheckExists
    <3> QED
      BY <3>1, <3>2, <1>AuditQuit, <1>AuditFrame, ZenonT(40)
  <2>d. ASSUME NEW c \in Conn, Grant(c) PROVE AuditInv'
    <3>1. PICK id, lease :
            /\ id \in FreshLeaseIds
            /\ audit' = audit \cup {<<"LeaseGranted", id>>}
            /\ Goto(c, [pc |-> "insert", req |-> calls[c].req, id |-> id, lease |-> lease])
      BY <2>d, Zenon DEF Grant
    <3>2. UNCHANGED <<leases, guards>>
      BY <2>d, Zenon DEF Grant
    <3> QED
      BY <3>1, <3>2, <1>AuditFrame, Zenon
  <2>e. ASSUME NEW c \in Conn, InsertLease(c) PROVE AuditInv'
    <3>1. Granted(calls[c].id)
      BY <2>e, Zenon DEF InsertLease, AuditInv
    <3>2. \A id \in DOMAIN leases' : id \in DOMAIN leases \/ Granted(id)
      BY <2>e, <3>1, Zenon DEF InsertLease, Insert
    <3>3. Return(c) \/ Goto(c, [pc |-> "link", req |-> calls[c].req, id |-> calls[c].id])
      BY <2>e, Zenon DEF InsertLease
    <3>4. UNCHANGED <<audit, guards>>
      BY <2>e, Zenon DEF InsertLease
    <3> QED
      BY <3>2, <3>3, <3>4, <1>AuditQuit, <1>AuditFrame, Zenon
  <2>f. ASSUME NEW c \in Conn, LinkLease(c) PROVE AuditInv'
    <3>1. /\ Goto(c, [pc |-> "count", req |-> calls[c].req, id |-> calls[c].id])
          /\ DOMAIN leases' = DOMAIN leases
          /\ UNCHANGED <<audit, guards>>
      BY <2>f, Zenon DEF LinkLease
    <3> QED
      BY <3>1, <1>AuditFrame, Zenon
  <2>g. ASSUME NEW c \in Conn, AccessSecret(c) PROVE AuditInv'
    <3>1. PICK id, host, a, s :
            /\ id \in DOMAIN leases
            /\ DOMAIN leases' = DOMAIN leases
            /\ Goto(c, [pc |-> "fetch", id |-> id, host |-> host, agent |-> a, secret |-> s])
      BY <2>g, Zenon DEF AccessSecret
    <3>2. Granted(id)
      BY <3>1, Zenon DEF AuditInv, NothingUnaudited, Granted
    <3>3. UNCHANGED <<audit, guards>>
      BY <2>g, Zenon DEF AccessSecret
    <3> QED
      BY <3>1, <3>2, <3>3, <1>AuditFrame, Zenon DEF Granted
  <2>h. ASSUME NEW c \in Conn, Fetch(c) PROVE AuditInv'
    <3> DEFINE k == calls[c]
    <3>1. Granted(k.id)
      BY <2>h, Zenon DEF Fetch, AuditInv
    <3>2. k = [pc |-> k.pc, id |-> k.id, host |-> k.host, agent |-> k.agent, secret |-> k.secret]
      BY <2>h, CallShape, Zenon DEF Fetch, TypeOK
    <3>3. [k EXCEPT !.pc = "deliver"].id = k.id
      BY <3>2, Zenon
    <3>4. /\ UNCHANGED <<leases, audit, guards>>
          /\ Return(c) \/ Goto(c, [k EXCEPT !.pc = "deliver"])
      BY <2>h, Zenon DEF Fetch
    <3> DEFINE m == [k EXCEPT !.pc = "deliver"]
    <3>5. <<"LeaseGranted", m.id>> \in audit'
      BY <3>1, <3>3, <3>4 DEF Granted
    <3> HIDE DEF k, m
    <3>6. CASE Return(c)
      BY <3>4, <3>6, <1>AuditQuit, Zenon
    <3>7. CASE Goto(c, m)
      BY <3>4, <3>5, <3>7, <1>AuditFrame, Zenon
    <3> QED
      BY <3>4, <3>6, <3>7, Zenon DEF m
  <2>i. ASSUME NEW c \in Conn, Deliver(c) PROVE AuditInv'
    <3> DEFINE id == calls[c].id
    <3>1. Granted(id) /\ id \in LeaseId
      BY <2>i, CallShape, Zenon DEF Deliver, AuditInv, TypeOK
    <3>2. /\ audit' = audit \cup {<<"SecretAccessed", id>>}
          /\ guards' = [guards EXCEPT ![id] = @ + 1]
          /\ UNCHANGED leases
      BY <2>i, Zenon DEF Deliver
    <3>3. \A x \in Conn : calls'[x].pc \in {"insert", "fetch", "deliver"} => calls'[x] = calls[x]
      BY <2>i, Zenon DEF Deliver, Return, TypeOK
    <3>4. NothingUnaudited'
      <4> HIDE DEF id
      <4>1. \A x \in LeaseId : x # id => guards'[x] = guards[x]
        BY <3>2, Zenon DEF TypeOK
      <4>2. <<"LeaseGranted", id>> \in audit' /\ <<"SecretAccessed", id>> \in audit'
        BY <3>1, <3>2, Zenon DEF Granted
      <4>3. audit \subseteq audit'
        BY <3>2, Zenon
      <4> QED
        BY <3>2, <4>1, <4>2, <4>3, Zenon DEF AuditInv, NothingUnaudited
    <3> QED
      BY <3>2, <3>3, <3>4, Zenon DEF AuditInv, Granted
  <2>j. ASSUME NEW c \in Conn,
               \/ CountLease(c) \/ StoreSecret(c) \/ DeleteFromStore(c)
               \/ CreateSession(c) \/ RecordAndReturn(c) \/ BackendFails(c)
               \/ RevokeLease(c) \/ FinishRenew(c) \/ SweepChildren(c)
        PROVE  AuditInv'
    <3>1. /\ Return(c) \/ \E ev : GotoAudit(c, ev)
          /\ UNCHANGED guards
      BY <2>j, Zenon DEF CountLease, StoreSecret, DeleteFromStore, CreateSession,
                  RecordAndReturn, BackendFails, RevokeLease, FinishRenew, SweepChildren
    <3>2. DOMAIN leases' = DOMAIN leases /\ audit \subseteq audit'
      BY <2>j, Zenon DEF CountLease, StoreSecret, DeleteFromStore, CreateSession,
                  RecordAndReturn, BackendFails, RevokeLease, FinishRenew, SweepChildren,
                  RevokeAll
    <3> QED
      BY <3>1, <3>2, <1>AuditQuit, Zenon
  <2>k. ASSUME NEW c \in Conn, RenewLease(c) \/ RevokeSession(c) PROVE AuditInv'
    <3>1. \/ \E id, ext : Goto(c, [pc |-> "renew", id |-> id, ext |-> ext])
          \/ \E s : Goto(c, [pc |-> "sweep", session |-> s])
      BY <2>k, Zenon DEF RenewLease, RevokeSession
    <3>2. UNCHANGED <<leases, audit, guards>>
      BY <2>k, Zenon DEF RenewLease, RevokeSession
    <3> QED
      BY <3>1, <3>2, <1>AuditFrame, Zenon
  <2>l. ASSUME NEW c \in Conn, DeleteSecret(c) PROVE AuditInv'
    <3>1. PICK s : Goto(c, [pc |-> "delete", secret |-> s])
      BY <2>l, Zenon DEF DeleteSecret
    <3>2. DOMAIN leases' = DOMAIN leases /\ audit \subseteq audit' /\ UNCHANGED guards
      BY <2>l, Zenon DEF DeleteSecret, RevokeAll
    <3> QED
      BY <3>1, <3>2, <1>AuditFrame, ZenonT(40)
  <2>m. ASSUME NEW c \in Conn, RevokeAllForAgent(c) PROVE AuditInv'
    <3>1. DOMAIN leases' = DOMAIN leases /\ audit \subseteq audit' /\ UNCHANGED <<calls, guards>>
      BY <2>m, Zenon DEF RevokeAllForAgent, RevokeAll
    <3> QED
      BY <3>1, Zenon DEF AuditInv, NothingUnaudited, Granted
  <2>n. CASE GcLeases
    <3>1. DOMAIN leases' \subseteq DOMAIN leases /\ UNCHANGED <<audit, calls, guards>>
      BY <2>n, Zenon DEF GcLeases, Restrict
    <3> QED
      BY <3>1, Zenon DEF AuditInv, NothingUnaudited, Granted
  <2>o. CASE Restart
    BY <2>o, Zenon DEF Restart, EmptyMap, AuditInv, NothingUnaudited
  <2>p. CASE GcSessions \/ Tick \/ UNCHANGED vars
    BY <2>p, Zenon DEF GcSessions, Tick, vars, AuditInv, NothingUnaudited, Granted
  <2> QED
    BY <2>b, <2>c, <2>d, <2>e, <2>f, <2>g, <2>h, <2>i, <2>j, <2>k, <2>l, <2>m, <2>n,
       <2>o, <2>p, Zenon
    DEF Next, Invoke, Resume

<1>1. Init => AuditInv
  BY DEF Init, EmptyMap, AuditInv, NothingUnaudited
<1>2. TypeOK /\ AuditInv /\ [Next]_vars => AuditInv'
  BY <1>AuditStep, Zenon
<1>3. AuditInv => NothingUnaudited
  BY Zenon DEF AuditInv
<1> QED
  BY <1>1, <1>2, <1>3, TypeCorrect, PTL DEF Spec

------------------------------------------------------------------------------
(* The life of a lease, for any number of leases, sessions and concurrent  *)
(* calls: revocation records are true and what is dead stays dead.         *)

(* Who may hold a lease id.  An id is in the log before it is anywhere     *)
(* else, belongs to at most one request until that request returns, is in  *)
(* the map only after its insertion, and stays there while renew_lease     *)
(* keeps the map locked.                                                   *)
IdInv ==
    /\ \A id \in DOMAIN leases : <<"LeaseGranted", id>> \in audit
    /\ \A c \in Conn : calls[c].pc \in {"insert", "link", "count"} =>
         /\ <<"LeaseGranted", calls[c].id>> \in audit
         /\ \A x \in Conn : (calls[x].pc \in {"insert", "link", "count"}
                               /\ calls[x].id = calls[c].id) => x = c
    /\ \A c \in Conn : calls[c].pc = "insert" => calls[c].id \notin DOMAIN leases
    /\ \A c \in Conn : calls[c].pc = "renew" =>
         /\ calls[c].id \in DOMAIN leases /\ ~Granting(calls[c].id)
         /\ \A x \in Conn : calls[x].pc = "renew" => x = c

\* the revocation is in the log or about to be written
Reported(id) ==
    \/ <<"LeaseRevoked", id>> \in audit
    \/ \E c \in Conn : calls[c].pc = "audit" /\ <<"LeaseRevoked", id>> \in calls[c].events

(* A reported lease was granted, is not waiting to be inserted, and is     *)
(* revoked if it is still in the map.                                      *)
ReportInv ==
    \A id \in LeaseId : Reported(id) =>
        /\ <<"LeaseGranted", id>> \in audit /\ ~Inserting(id)
        /\ id \in DOMAIN leases => leases[id].revoked

LifeInv == IdInv /\ ReportInv

-----------------------------------------------------------------------------
(* What a step does to the calls in flight.                                *)
LEMMA CallsAfter ==
    ASSUME TypeOK, NEW c \in Conn, NEW k, Goto(c, k)
    PROVE  \A x \in Conn : calls'[x] = IF x = c THEN k ELSE calls[x]
BY Zenon DEF TypeOK, Goto

(* A handler that returns, or goes on to its last record, holds no lease   *)
(* id.                                                                     *)
LEMMA QuitIsGoto ==
    ASSUME NEW c \in Conn
    PROVE  /\ Return(c) => Goto(c, [pc |-> "idle"])
           /\ \A e : GotoAudit(c, e) => Goto(c, [pc |-> "audit", events |-> e])
BY Zenon DEF Return, Goto, GotoAudit

(* Bulk revocation keeps the keys of the map and the log.                  *)
LEMMA RevokeAllKeeps ==
    ASSUME NEW ids, RevokeAll(ids)
    PROVE  DOMAIN leases' = DOMAIN leases /\ audit \subseteq audit'
BY Zenon DEF RevokeAll

-----------------------------------------------------------------------------
\* revoked leases stay revoked and nothing enters the map
RevocationsKept ==
    \A id \in DOMAIN leases' : /\ id \in DOMAIN leases
                               /\ leases[id].revoked => leases'[id].revoked

(* The invariant of lease ids and reports.                                 *)
THEOREM LifeInvariant == Spec => []LifeInv
(* A call moves on without taking hold of a lease id, and the map keeps    *)
(* its keys.                                                               *)
<1>IdFrame.
      ASSUME TypeOK, IdInv, NEW c \in Conn, NEW k, Goto(c, k),
             k.pc \notin {"insert", "link", "count", "renew"},
             DOMAIN leases' = DOMAIN leases, audit \subseteq audit'
      PROVE  IdInv'
  <2> USE <1>IdFrame
  <2>1. \A x \in Conn : calls'[x] = IF x = c THEN k ELSE calls[x]
    BY CallsAfter, Zenon
  <2>2. \A id : Granting(id)' => Granting(id)
    BY <2>1, Zenon DEF Granting
  <2> QED
    BY <2>1, <2>2 DEF IdInv

(* Every step keeps lease ids where they belong.                           *)
<1>IdStep.
      ASSUME TypeOK, IdInv, [Next]_vars
      PROVE  IdInv'
  <2> USE <1>IdStep
  <2>q. ASSUME NEW c \in Conn, Return(c) \/ \E e : GotoAudit(c, e),
               DOMAIN leases' = DOMAIN leases, audit \subseteq audit'
        PROVE  IdInv'
    <3>1. CASE Return(c)
      BY <2>q, <3>1, QuitIsGoto, <1>IdFrame, Zenon
    <3>2. CASE \E e : GotoAudit(c, e)
      <4>1. PICK e : Goto(c, [pc |-> "audit", events |-> e])
        BY <3>2, QuitIsGoto, Zenon
      <4> QED
        BY <2>q, <4>1, <1>IdFrame, Zenon
    <3> QED
      BY <2>q, <3>1, <3>2, Zenon
  <2>a. ASSUME NEW c \in Conn, RequestLease(c) \/ RequestLeaseScoped(c) PROVE IdInv'
    <3>1. UNCHANGED <<leases, audit>>
      BY <2>a, Zenon DEF RequestLease, RequestLeaseScoped
    <3> QED
      BY <2>a, <3>1, RequestIsGoto, <1>IdFrame, Zenon
  <2>b. ASSUME NEW c \in Conn, CheckCap(c) \/ CheckExists(c) \/ Fetch(c) PROVE IdInv'
    <3>1. UNCHANGED <<leases, audit>>
      BY <2>b, Zenon DEF CheckCap, CheckExists, Fetch
    <3>2. Return(c) \/ \E k : Goto(c, k) /\ k.pc \in {"check_exists", "grant", "deliver"}
      <4>1. CASE Fetch(c)
        <5>1. calls[c].pc = "fetch" /\ calls[c] \in Calls
          BY <4>1, Zenon DEF Fetch, TypeOK
        <5>2. [calls[c] EXCEPT !.pc = "deliver"].pc = "deliver"
          BY <5>1, CallShape
        <5> QED
          BY <4>1, <5>2, Zenon DEF Fetch
      <4> QED
        BY <2>b, <4>1 DEF CheckCap, CheckExists
    <3> QED
      BY <3>1, <3>2, <2>q, <1>IdFrame, Zenon
  <2>c. ASSUME NEW c \in Conn, Grant(c) PROVE IdInv'
    <3>k. PICK id \in FreshLeaseIds : \E k :
            /\ audit' = audit \cup {<<"LeaseGranted", id>>}
            /\ Goto(c, k) /\ k.pc = "insert" /\ k.id = id
      BY <2>c, Zenon DEF Grant
    <3>1. PICK k :
            /\ audit' = audit \cup {<<"LeaseGranted", id>>}
            /\ Goto(c, k) /\ k.pc = "insert" /\ k.id = id
      BY <3>k, Zenon
    <3>2. UNCHANGED leases /\ <<"LeaseGranted", id>> \notin audit
      BY <2>c, Zenon DEF Grant, FreshLeaseIds
    <3>3. \A x \in Conn : calls'[x] = IF x = c THEN k ELSE calls[x]
      BY <3>1, CallsAfter, Zenon
    <3>4. \A i \in DOMAIN leases : Granting(i)' => Granting(i) \/ i = id
      BY <3>1, <3>3, Zenon DEF Granting
    <3>5. id \notin DOMAIN leases
      BY <3>2, Zenon DEF IdInv
    <3> QED
      BY <3>1, <3>2, <3>3, <3>4, <3>5 DEF IdInv
  <2>d. ASSUME NEW c \in Conn, InsertLease(c) PROVE IdInv'
    <3>1. /\ calls[c].pc = "insert" /\ UNCHANGED audit
          /\ DOMAIN leases' = DOMAIN leases \cup {calls[c].id}
          /\ \A x \in Conn : calls[x].pc # "renew"
      BY <2>d, NoRenewal, Zenon DEF InsertLease, Insert
    <3>2. PICK k : /\ Goto(c, k) /\ k.pc \in {"idle", "link"}
                   /\ k.pc = "link" => k.id = calls[c].id
      BY <2>d, QuitIsGoto DEF InsertLease
    <3>3. \A x \in Conn : calls'[x] = IF x = c THEN k ELSE calls[x]
      BY <3>2, CallsAfter, Zenon
    <3>4. \A x \in Conn : calls'[x].pc # "renew"
      BY <3>1, <3>2, <3>3, Zenon
    <3>5. \A x \in Conn : calls'[x].pc = "insert" => calls'[x].id \notin DOMAIN leases'
      BY <3>1, <3>2, <3>3, ZenonT(40) DEF IdInv
    <3>6. \A x \in Conn : calls'[x].pc \in {"insert", "link", "count"} =>
            calls[x].pc \in {"insert", "link", "count"} /\ calls'[x].id = calls[x].id
      BY <3>1, <3>2, <3>3, Zenon
    <3> QED
      BY <3>1, <3>4, <3>5, <3>6 DEF IdInv
  <2>e. ASSUME NEW c \in Conn, LinkLease(c) PROVE IdInv'
    <3>1. /\ calls[c].pc = "link" /\ UNCHANGED audit /\ DOMAIN leases' = DOMAIN leases
          /\ \A x \in Conn : calls[x].pc # "renew"
      BY <2>e, NoRenewal, Zenon DEF LinkLease
    <3>2. PICK k : Goto(c, k) /\ k.pc = "count" /\ k.id = calls[c].id
      BY <2>e DEF LinkLease
    <3>3. \A x \in Conn : calls'[x] = IF x = c THEN k ELSE calls[x]
      BY <3>2, CallsAfter, Zenon
    <3> QED
      BY <3>1, <3>2, <3>3 DEF IdInv
  <2>f. ASSUME NEW c \in Conn, RenewLease(c) PROVE IdInv'
    <3>k. PICK id \in KnownLeases \cap DOMAIN leases : \E k :
            Goto(c, k) /\ k.pc = "renew" /\ k.id = id
      BY <2>f, Zenon DEF RenewLease
    <3>1. PICK k :
            Goto(c, k) /\ k.pc = "renew" /\ k.id = id
      BY <3>k, Zenon
    <3>2. UNCHANGED <<leases, audit>> /\ \A x \in Conn : calls[x].pc # "renew"
      BY <2>f, NoRenewal, Zenon DEF RenewLease
    <3>3. \A x \in Conn : calls'[x] = IF x = c THEN k ELSE calls[x]
      BY <3>1, CallsAfter, Zenon
    <3>4. ~Granting(id) /\ (Granting(id)' => Granting(id))
      BY <3>1, <3>3, Zenon DEF KnownLeases, Granting
    <3> QED
      BY <3>1, <3>2, <3>3, <3>4 DEF IdInv
  <2>g. ASSUME NEW c \in Conn, AccessSecret(c) PROVE IdInv'
    <3>1. PICK k : Goto(c, k) /\ k.pc = "fetch"
      BY <2>g DEF AccessSecret
    <3>2. DOMAIN leases' = DOMAIN leases /\ UNCHANGED audit
      BY <2>g, Zenon DEF AccessSecret
    <3> QED
      BY <3>1, <3>2, <1>IdFrame, Zenon
  <2>h. ASSUME NEW c \in Conn, RevokeAllForAgent(c) PROVE IdInv'
    BY <2>h, RevokeAllKeeps, Zenon DEF RevokeAllForAgent, IdInv, Granting
  <2>i. ASSUME NEW c \in Conn, DeleteSecret(c) PROVE IdInv'
    <3>1. PICK k : Goto(c, k) /\ k.pc = "delete"
      BY <2>i DEF DeleteSecret
    <3>2. DOMAIN leases' = DOMAIN leases /\ audit \subseteq audit'
      BY <2>i, RevokeAllKeeps, Zenon DEF DeleteSecret
    <3> QED
      BY <3>1, <3>2, <1>IdFrame, Zenon
  <2>j. ASSUME NEW c \in Conn, RevokeSession(c) PROVE IdInv'
    <3>1. PICK k : Goto(c, k) /\ k.pc = "sweep"
      BY <2>j DEF RevokeSession
    <3>2. UNCHANGED <<leases, audit>>
      BY <2>j, Zenon DEF RevokeSession
    <3> QED
      BY <3>1, <3>2, <1>IdFrame, Zenon
  <2>k. ASSUME NEW c \in Conn, SweepChildren(c) PROVE IdInv'
    BY <2>k, <2>q, RevokeAllKeeps, Zenon DEF SweepChildren
  <2>l. ASSUME NEW c \in Conn, FinishRenew(c) PROVE IdInv'
    <3>1. DOMAIN leases' = DOMAIN leases /\ UNCHANGED audit
      BY <2>l, Zenon DEF FinishRenew
    <3>2. Return(c) \/ \E e : GotoAudit(c, e)
      BY <2>l, Zenon DEF FinishRenew
    <3> QED
      BY <3>1, <3>2, <2>q, Zenon
  <2>m. ASSUME NEW c \in Conn, RevokeLease(c) PROVE IdInv'
    BY <2>m, <2>q, Zenon DEF RevokeLease
  <2>n. ASSUME NEW c \in Conn,
               \/ CountLease(c) \/ Deliver(c) \/ StoreSecret(c) \/ DeleteFromStore(c)
               \/ CreateSession(c) \/ RecordAndReturn(c) \/ BackendFails(c)
        PROVE  IdInv'
    BY <2>n, <2>q, Zenon DEF CountLease, Deliver, StoreSecret, DeleteFromStore, CreateSession,
                      RecordAndReturn, BackendFails
  <2>o. CASE GcLeases
    <3>1. DOMAIN leases' \subseteq DOMAIN leases /\ UNCHANGED <<audit, calls>>
      BY <2>o, Zenon DEF GcLeases, Restrict
    <3>2. \A x \in Conn : calls[x].pc # "renew"
      BY <2>o, NoRenewal, Zenon DEF GcLeases
    <3> QED
      BY <3>1, <3>2, Zenon DEF IdInv
  <2>p. CASE GcSessions \/ Tick \/ UNCHANGED vars
    BY <2>p, Zenon DEF GcSessions, Tick, vars, IdInv, Granting
  <2>r. CASE Restart
    BY <2>r, Zenon DEF Restart, EmptyMap, IdInv
  <2> QED
    BY <2>a, <2>b, <2>c, <2>d, <2>e, <2>f, <2>g, <2>h, <2>i, <2>j, <2>k, <2>l, <2>m,
       <2>n, <2>o, <2>p, <2>r, Zenon DEF Next, Invoke, Resume

(* Where a new report can come from: the log, or the call that moved on.   *)
<1>ReportedAfter.
      ASSUME TypeOK, NEW c \in Conn, NEW k, Goto(c, k), NEW id \in LeaseId, Reported(id)'
      PROVE  \/ Reported(id)
             \/ <<"LeaseRevoked", id>> \in audit' \ audit
             \/ k.pc = "audit" /\ <<"LeaseRevoked", id>> \in k.events
  <2> USE <1>ReportedAfter
  <2>1. \A x \in Conn : calls'[x] = IF x = c THEN k ELSE calls[x]
    BY CallsAfter, Zenon
  <2> QED
    BY <2>1, Zenon DEF Reported

(* A call moves on, revocations are kept and new reports are about leases  *)
(* that are revoked or gone.                                               *)
<1>ReportFrame.
      ASSUME TypeOK, IdInv, ReportInv, NEW c \in Conn, NEW k, Goto(c, k),
             k.pc # "insert", audit \subseteq audit', RevocationsKept,
             \A id \in LeaseId : Reported(id)' =>
                 \/ Reported(id)
                 \/ /\ id \in DOMAIN leases
                    /\ id \in DOMAIN leases' => leases'[id].revoked
      PROVE  ReportInv'
  <2> USE <1>ReportFrame
  <2>1. \A x \in Conn : calls'[x] = IF x = c THEN k ELSE calls[x]
    BY CallsAfter, Zenon
  <2>2. \A id : Inserting(id)' => Inserting(id)
    BY <2>1, Zenon DEF Inserting
  <2>3. \A id \in DOMAIN leases : <<"LeaseGranted", id>> \in audit /\ ~Inserting(id)
    BY ZenonT(40) DEF IdInv, Inserting
  <2> QED
    BY <2>2, <2>3, Zenon DEF ReportInv, RevocationsKept

(* The same for a step that reports nothing new.                           *)
<1>ReportQuiet.
      ASSUME TypeOK, IdInv, ReportInv, NEW c \in Conn, NEW k, Goto(c, k),
             k.pc # "insert", audit \subseteq audit', RevocationsKept,
             \A id \in LeaseId : <<"LeaseRevoked", id>> \in audit' => Reported(id),
             k.pc = "audit" => \A id \in LeaseId : <<"LeaseRevoked", id>> \notin k.events
      PROVE  ReportInv'
  BY <1>ReportQuiet, <1>ReportedAfter, <1>ReportFrame, ZenonT(40)

(* Bulk revocation reports only what it revokes.                           *)
<1>RevokeAllReports.
      ASSUME TypeOK, NEW ids \in SUBSET DOMAIN leases, RevokeAll(ids)
      PROVE  /\ RevocationsKept
             /\ \A id \in LeaseId : <<"LeaseRevoked", id>> \in audit' \ audit =>
                  id \in DOMAIN leases /\ leases'[id].revoked
  <2> USE <1>RevokeAllReports
  <2>1. \A id \in DOMAIN leases : id \in ids => Revoke(leases[id]).revoked
    BY Zenon DEF Revoke, TypeOK, Leases
  <2>2. RevocationsKept
    BY <2>1, Zenon DEF RevokeAll, RevocationsKept
  <2>3. \A id \in LeaseId : <<"LeaseRevoked", id>> \in audit' \ audit => id \in ids
    BY Zenon DEF RevokeAll
  <2> QED
    BY <2>1, <2>2, <2>3, Zenon DEF RevokeAll

(* Every step keeps the reports true.                                      *)
<1>ReportStep.
      ASSUME TypeOK, IdInv, ReportInv, [Next]_vars
      PROVE  ReportInv'
  <2> USE <1>ReportStep
  <2>u. ASSUME UNCHANGED leases PROVE RevocationsKept
    BY <2>u, Zenon DEF RevocationsKept
  <2>s. ASSUME UNCHANGED audit
        PROVE  /\ audit \subseteq audit'
               /\ \A id \in LeaseId : <<"LeaseRevoked", id>> \in audit' => Reported(id)
    BY <2>s, Zenon DEF Reported
  <2>q. ASSUME NEW c \in Conn, Return(c) \/ GotoAudit(c, {}), RevocationsKept,
               audit \subseteq audit',
               \A id \in LeaseId : <<"LeaseRevoked", id>> \in audit' => Reported(id)
        PROVE  ReportInv'
    <3>1. CASE Return(c)
      <4>1. Goto(c, [pc |-> "idle"])
        BY <3>1, QuitIsGoto, Zenon
      <4> QED
        BY <2>q, <4>1, <1>ReportQuiet, Zenon
    <3>2. CASE GotoAudit(c, {})
      <4>1. Goto(c, [pc |-> "audit", events |-> {}])
        BY <3>2, QuitIsGoto, Zenon
      <4> QED
        BY <2>q, <4>1, <1>ReportQuiet, Zenon
    <3> QED
      BY <2>q, <3>1, <3>2, Zenon
  <2>a. ASSUME NEW c \in Conn, RequestLease(c) \/ RequestLeaseScoped(c) PROVE ReportInv'
    <3>1. UNCHANGED <<leases, audit>>
      BY <2>a, Zenon DEF RequestLease, RequestLeaseScoped
    <3> QED
      BY <2>a, <3>1, <2>u, <2>s, RequestIsGoto, <1>ReportQuiet, Zenon
  <2>b. ASSUME NEW c \in Conn, CheckCap(c) \/ CheckExists(c) \/ Fetch(c) PROVE ReportInv'
    <3>1. UNCHANGED <<leases, audit>>
      BY <2>b, Zenon DEF CheckCap, CheckExists, Fetch
    <3>2. Return(c) \/ \E k : Goto(c, k) /\ k.pc \in {"check_exists", "grant", "deliver"}
      <4>1. CASE Fetch(c)
        <5>1. calls[c].pc = "fetch" /\ calls[c] \in Calls
          BY <4>1, Zenon DEF Fetch, TypeOK
        <5>2. [calls[c] EXCEPT !.pc = "deliver"].pc = "deliver"
          BY <5>1, CallShape
        <5> QED
          BY <4>1, <5>2, Zenon DEF Fetch
      <4> QED
        BY <2>b, <4>1 DEF CheckCap, CheckExists
    <3> QED
      BY <3>1, <3>2, <2>u, <2>s, <2>q, <1>ReportQuiet, Zenon
  <2>c. ASSUME NEW c \in Conn, Grant(c) PROVE ReportInv'
    <3>k. PICK id \in FreshLeaseIds : \E k :
            /\ audit' = audit \cup {<<"LeaseGranted", id>>}
            /\ Goto(c, k) /\ k.pc = "insert" /\ k.id = id
      BY <2>c, Zenon DEF Grant
    <3>1. PICK k :
            /\ audit' = audit \cup {<<"LeaseGranted", id>>}
            /\ Goto(c, k) /\ k.pc = "insert" /\ k.id = id
      BY <3>k, Zenon
    <3>2. UNCHANGED leases /\ id \in LeaseId /\ <<"LeaseGranted", id>> \notin audit
      BY <2>c, Zenon DEF Grant, FreshLeaseIds
    <3>3. \A x \in Conn : calls'[x] = IF x = c THEN k ELSE calls[x]
      BY <3>1, CallsAfter, Zenon
    <3>4. \A i \in LeaseId : Reported(i)' => Reported(i)
      BY <3>1, <1>ReportedAfter, Zenon
    <3>5. \A i \in LeaseId : Inserting(i)' => Inserting(i) \/ i = id
      BY <3>1, <3>3, Zenon DEF Inserting
    <3> QED
      BY <3>1, <3>2, <3>4, <3>5, Zenon DEF ReportInv
  <2>d. ASSUME NEW c \in Conn, InsertLease(c) PROVE ReportInv'
    <3> DEFINE new == calls[c].id
    <3>1. /\ calls[c].pc = "insert" /\ UNCHANGED audit
          /\ DOMAIN leases' = DOMAIN leases \cup {new}
          /\ \A id \in DOMAIN leases : id # new => leases'[id] = leases[id]
      BY <2>d, Zenon DEF InsertLease, Insert
    <3>2. PICK k : Goto(c, k) /\ k.pc \in {"idle", "link"}
      BY <2>d, QuitIsGoto DEF InsertLease
    <3>3. \A x \in Conn : calls'[x] = IF x = c THEN k ELSE calls[x]
      BY <3>2, CallsAfter, Zenon
    <3>4. \A id \in LeaseId : Reported(id)' => Reported(id)
      BY <3>1, <3>2, <1>ReportedAfter, Zenon
    <3>5. \A id : Inserting(id)' => Inserting(id)
      BY <3>2, <3>3, Zenon DEF Inserting
    <3>6. Inserting(new)
      BY <3>1, Zenon DEF Inserting
    <3> QED
      BY <3>1, <3>4, <3>5, <3>6, Zenon DEF ReportInv
  <2>e. ASSUME NEW c \in Conn, LinkLease(c) PROVE ReportInv'
    <3>1. RevocationsKept
      <4>1. \A s : \A id \in DOMAIN leases :
              [leases[id] EXCEPT !.session_id = s].revoked = leases[id].revoked
        BY Zenon DEF TypeOK, Leases
      <4> QED
        BY <2>e, <4>1, Zenon DEF LinkLease, RevocationsKept
    <3>2. PICK k : Goto(c, k) /\ k.pc = "count"
      BY <2>e DEF LinkLease
    <3>3. UNCHANGED audit
      BY <2>e, Zenon DEF LinkLease
    <3> QED
      BY <3>1, <3>2, <3>3, <2>s, <1>ReportQuiet, Zenon
  <2>f. ASSUME NEW c \in Conn, RenewLease(c) \/ RevokeSession(c) PROVE ReportInv'
    <3>1. UNCHANGED <<leases, audit>>
      BY <2>f, Zenon DEF RenewLease, RevokeSession
    <3>2. PICK k : Goto(c, k) /\ k.pc \in {"renew", "sweep"}
      <4>1. CASE RenewLease(c)
        BY <4>1 DEF RenewLease
      <4>2. CASE RevokeSession(c)
        BY <4>2 DEF RevokeSession
      <4> QED
        BY <2>f, <4>1, <4>2, Zenon
    <3> QED
      BY <3>1, <3>2, <2>u, <2>s, <1>ReportQuiet, Zenon
  <2>g. ASSUME NEW c \in Conn, AccessSecret(c) PROVE ReportInv'
    <3>1. PICK k : Goto(c, k) /\ k.pc = "fetch"
      BY <2>g DEF AccessSecret
    <3>2. PICK id \in DOMAIN leases : leases' = [leases EXCEPT ![id] = RecordUse(leases[id])]
      BY <2>g, Zenon DEF AccessSecret
    <3>3. RecordUse(leases[id]).revoked = leases[id].revoked
      BY Zenon DEF TypeOK, Leases, RecordUse
    <3>4. UNCHANGED audit /\ RevocationsKept
      BY <2>g, <3>2, <3>3, Zenon DEF AccessSecret, RevocationsKept
    <3> QED
      BY <3>1, <3>4, <2>s, <1>ReportQuiet, Zenon
  <2>h. ASSUME NEW c \in Conn, RevokeAllForAgent(c) PROVE ReportInv'
    <3>1. PICK a \in Agent : RevokeAll(Unrevoked(a))
      BY <2>h, Zenon DEF RevokeAllForAgent
    <3>2. Unrevoked(a) \in SUBSET DOMAIN leases
      BY Zenon DEF Unrevoked
    <3>3. /\ RevocationsKept
          /\ \A id \in LeaseId : <<"LeaseRevoked", id>> \in audit' \ audit =>
                id \in DOMAIN leases /\ leases'[id].revoked
      BY <3>1, <3>2, <1>RevokeAllReports, Zenon
    <3>4. Goto(c, calls[c])
      BY <2>h, Zenon DEF RevokeAllForAgent, Goto, TypeOK
    <3>5. calls[c].pc = "idle"
      BY <2>h, Zenon DEF RevokeAllForAgent, Idle
    <3>6. audit \subseteq audit'
      BY <3>1, RevokeAllKeeps, Zenon
    <3> QED
      BY <3>3, <3>4, <3>5, <3>6, <1>ReportedAfter, <1>ReportFrame, Zenon
  <2>i. ASSUME NEW c \in Conn, DeleteSecret(c) \/ SweepChildren(c) PROVE ReportInv'
    <3>1. PICK ids \in SUBSET DOMAIN leases : RevokeAll(ids)
      <4>1. CASE DeleteSecret(c)
        BY <4>1, Zenon DEF DeleteSecret
      <4>2. CASE SweepChildren(c)
        BY <4>2, Zenon DEF SweepChildren
      <4> QED
        BY <2>i, <4>1, <4>2, Zenon
    <3>2. PICK k : /\ Goto(c, k) /\ k.pc \in {"delete", "audit"}
                   /\ k.pc = "audit" => k.events = {}
      <4>1. CASE DeleteSecret(c)
        BY <4>1 DEF DeleteSecret
      <4>2. CASE SweepChildren(c)
        <5>1. Goto(c, [pc |-> "audit", events |-> {}])
          BY <4>2, QuitIsGoto, Zenon DEF SweepChildren
        <5> QED
          BY <5>1
      <4> QED
        BY <2>i, <4>1, <4>2, Zenon
    <3>3. /\ RevocationsKept
          /\ \A id \in LeaseId : <<"LeaseRevoked", id>> \in audit' \ audit =>
                id \in DOMAIN leases /\ leases'[id].revoked
      BY <3>1, <1>RevokeAllReports, Zenon
    <3>4. audit \subseteq audit'
      BY <3>1, RevokeAllKeeps, Zenon
    <3> QED
      BY <3>2, <3>3, <3>4, <1>ReportedAfter, <1>ReportFrame, ZenonT(40)
  <2>l. ASSUME NEW c \in Conn, FinishRenew(c) PROVE ReportInv'
    <3>1. Return(c) \/ GotoAudit(c, {})
      BY <2>l, Zenon DEF FinishRenew
    <3>2. UNCHANGED audit
      BY <2>l, Zenon DEF FinishRenew
    <3>3. RevocationsKept
      <4>1. \A e, t : \A id \in DOMAIN leases : Renew(leases[id], e, t).revoked = leases[id].revoked
        BY Zenon DEF TypeOK, Leases, Renew
      <4> QED
        BY <2>l, <4>1 DEF FinishRenew, RevocationsKept
    <3> QED
      BY <3>1, <3>2, <3>3, <2>q, <2>s, Zenon
  <2>m. ASSUME NEW c \in Conn, RevokeLease(c) PROVE ReportInv'
    <3>1. PICK id \in DOMAIN leases :
            /\ leases' = [leases EXCEPT ![id] = Revoke(leases[id])]
            /\ Goto(c, [pc |-> "audit", events |-> {<<"LeaseRevoked", id>>}])
      BY <2>m, QuitIsGoto, Zenon DEF RevokeLease
    <3>2. Revoke(leases[id]).revoked
      BY Zenon DEF TypeOK, Leases, Revoke
    <3>3. UNCHANGED audit /\ RevocationsKept /\ leases'[id].revoked
      BY <2>m, <3>1, <3>2, Zenon DEF RevokeLease, RevocationsKept
    <3>4. \A i \in LeaseId : Reported(i)' => Reported(i) \/ i = id
      <4> DEFINE k == [pc |-> "audit", events |-> {<<"LeaseRevoked", id>>}]
      <4>1. \A i : <<"LeaseRevoked", i>> \in k.events => i = id
        BY Zenon
      <4>2. Goto(c, k)
        BY <3>1, Zenon
      <4> HIDE DEF k
      <4> QED
        BY <3>3, <4>1, <4>2, <1>ReportedAfter, Zenon
    <3> QED
      BY <3>1, <3>3, <3>4, <1>ReportFrame, Zenon
  <2>n. ASSUME NEW c \in Conn,
               CountLease(c) \/ StoreSecret(c) \/ DeleteFromStore(c) \/ BackendFails(c)
        PROVE  ReportInv'
    BY <2>n, <2>q, <2>u, <2>s, Zenon DEF CountLease, StoreSecret, DeleteFromStore, BackendFails
  <2>o. ASSUME NEW c \in Conn, Deliver(c) PROVE ReportInv'
    <3>1. Return(c) /\ UNCHANGED leases /\ audit \subseteq audit'
      BY <2>o, Zenon DEF Deliver
    <3>2. \A id \in LeaseId : <<"LeaseRevoked", id>> \in audit' => Reported(id)
      BY <2>o, Zenon DEF Deliver, Reported
    <3> QED
      BY <3>1, <3>2, <2>q, <2>u, Zenon
  <2>p. ASSUME NEW c \in Conn, CreateSession(c) PROVE ReportInv'
    <3>1. PICK s : Goto(c, [pc |-> "audit", events |-> {<<"SessionCreated", s>>}])
      BY <2>p, QuitIsGoto, Zenon DEF CreateSession
    <3>2. UNCHANGED <<leases, audit>>
      BY <2>p, Zenon DEF CreateSession
    <3> QED
      BY <3>1, <3>2, <2>u, <2>s, <1>ReportQuiet, Zenon
  <2>r. ASSUME NEW c \in Conn, RecordAndReturn(c) PROVE ReportInv'
    <3>1. Return(c) /\ UNCHANGED leases /\ audit \subseteq audit'
      BY <2>r, Zenon DEF RecordAndReturn
    <3>2. \A id \in LeaseId : <<"LeaseRevoked", id>> \in audit' => Reported(id)
      <4>1. calls[c].pc = "denied" => calls[c].events = {}
        BY CallShape, Zenon DEF TypeOK
      <4> QED
        BY <2>r, <4>1, Zenon DEF RecordAndReturn, Reported
    <3> QED
      BY <3>1, <3>2, <2>q, <2>u, Zenon
  <2>t. CASE GcLeases \/ GcSessions \/ Tick \/ UNCHANGED vars
    <3>1. UNCHANGED <<audit, calls>> /\ RevocationsKept
      BY <2>t, Zenon DEF GcLeases, GcSessions, Tick, vars, Restrict, RevocationsKept
    <3> QED
      BY <3>1, Zenon DEF ReportInv, Reported, Inserting, RevocationsKept
  <2>v. CASE Restart
    BY <2>v, Zenon DEF Restart, EmptyMap, ReportInv, Reported, Inserting
  <2> QED
    BY <2>a, <2>b, <2>c, <2>d, <2>e, <2>f, <2>g, <2>h, <2>i, <2>l, <2>m, <2>n, <2>o,
       <2>p, <2>r, <2>t, <2>v, Zenon DEF Next, Invoke, Resume

<1>1. Init => LifeInv
  BY DEF Init, EmptyMap, LifeInv, IdInv, ReportInv, Reported
<1>2. TypeOK /\ LifeInv /\ [Next]_vars => LifeInv'
  BY <1>IdStep, <1>ReportStep, Zenon DEF LifeInv
<1> QED
  BY <1>1, <1>2, TypeCorrect, PTL DEF Spec

(* RevokedRecordsAreTrue: whoever reads a LeaseRevoked record, however     *)
(* many handlers run, finds the lease revoked or gone.                     *)
THEOREM RecordsTrue == Spec => []RevokedRecordsAreTrue
<1>1. TypeOK /\ LifeInv => RevokedRecordsAreTrue
  BY Zenon DEF TypeOK, LifeInv, ReportInv, Reported, RevokedRecordsAreTrue
<1> QED
  BY <1>1, TypeCorrect, LifeInvariant, PTL

-----------------------------------------------------------------------------
\* nothing happened to a lease but, perhaps, revocation or collection
Undisturbed(id) ==
    id \in DOMAIN leases' =>
        /\ id \in DOMAIN leases
        /\ leases'[id].use_count = leases[id].use_count
        /\ leases'[id].expires_at = leases[id].expires_at
        /\ leases[id].revoked => leases'[id].revoked

DeadKept(id) ==
    /\ Dead(id)'
    /\ id \in DOMAIN leases' => leases'[id].use_count = leases[id].use_count

(* A dead lease that is left undisturbed, and of which no call in flight   *)
(* takes hold, is dead afterwards.                                         *)
LEMMA DeadFrame ==
    ASSUME TypeOK, NEW c \in Conn, NEW k, Goto(c, k), NEW id \in LeaseId, Dead(id),
           audit \subseteq audit', UNCHANGED now, Undisturbed(id),
           k.pc = "insert" => k.id # id,
           k.pc = "renew" /\ k.id = id => id \in DOMAIN leases /\ leases[id].revoked
    PROVE  DeadKept(id)
<1>1. \A x \in Conn : calls'[x] = IF x = c THEN k ELSE calls[x]
  BY CallsAfter, Zenon
<1>2. ~Inserting(id)'
  BY <1>1, Zenon DEF Dead, Inserting
<1>3. Renewing(id)' => Renewing(id) \/ (id \in DOMAIN leases /\ leases[id].revoked)
  <2> SUFFICES ASSUME NEW x \in Conn, calls'[x].pc = "renew", calls'[x].id = id
               PROVE  Renewing(id) \/ (id \in DOMAIN leases /\ leases[id].revoked)
    BY Zenon DEF Renewing
  <2>1. CASE x = c
    BY <1>1, <2>1, Zenon
  <2>2. CASE x # c
    BY <1>1, <2>2, Zenon DEF Renewing
  <2> QED
    BY <2>1, <2>2, Zenon
<1> QED
  BY <1>2, <1>3, Zenon DEF Dead, DeadKept, Undisturbed, LeaseExpired

(* Bulk revocation disturbs no lease.                                      *)
LEMMA RevokeAllUndisturbed ==
    ASSUME TypeOK, NEW ids, RevokeAll(ids), NEW id
    PROVE  Undisturbed(id)
<1>1. \A i \in DOMAIN leases :
        LET r == Revoke(leases[i])
        IN  /\ r.revoked /\ r.use_count = leases[i].use_count
            /\ r.expires_at = leases[i].expires_at
  BY Zenon DEF TypeOK, Leases, Revoke
<1> QED
  BY <1>1, Zenon DEF RevokeAll, Undisturbed

(* What is dead stays dead, step by step.                                  *)
LEMMA DeadStep ==
    ASSUME TypeOK, LifeInv, Next, NEW id \in LeaseId, Dead(id)
    PROVE  DeadKept(id)
<1> USE DEF LifeInv
<1>u. ASSUME UNCHANGED leases PROVE Undisturbed(id)
  BY <1>u, Zenon DEF Undisturbed
<1>q. ASSUME NEW c \in Conn, Return(c) \/ \E e : GotoAudit(c, e),
             audit \subseteq audit', UNCHANGED now, Undisturbed(id)
      PROVE  DeadKept(id)
  <2>1. CASE Return(c)
    BY <1>q, <2>1, QuitIsGoto, DeadFrame
  <2>2. CASE \E e : GotoAudit(c, e)
    <3>1. PICK e : Goto(c, [pc |-> "audit", events |-> e])
      BY <2>2, QuitIsGoto, ZenonT(40)
    <3> QED
      BY <1>q, <3>1, DeadFrame
  <2> QED
    BY <1>q, <2>1, <2>2, Zenon
<1>a. ASSUME NEW c \in Conn, RequestLease(c) \/ RequestLeaseScoped(c) PROVE DeadKept(id)
  <2>1. UNCHANGED <<leases, audit, now>>
    BY <1>a, Zenon DEF RequestLease, RequestLeaseScoped
  <2> QED
    BY <1>a, <2>1, <1>u, RequestIsGoto, DeadFrame, Zenon
<1>b. ASSUME NEW c \in Conn, CheckCap(c) \/ CheckExists(c) \/ Fetch(c) PROVE DeadKept(id)
  <2>1. UNCHANGED <<leases, audit, now>>
    BY <1>b, Zenon DEF CheckCap, CheckExists, Fetch
  <2>2. Return(c) \/ \E k : Goto(c, k) /\ k.pc \in {"check_exists", "grant", "deliver"}
    <3>1. CASE Fetch(c)
      <4>1. calls[c].pc = "fetch" /\ calls[c] \in Calls
        BY <3>1, Zenon DEF Fetch, TypeOK
      <4>2. [calls[c] EXCEPT !.pc = "deliver"].pc = "deliver"
        BY <4>1, CallShape
      <4> QED
        BY <3>1, <4>2, Zenon DEF Fetch
    <3> QED
      BY <1>b, <3>1 DEF CheckCap, CheckExists
  <2> QED
    BY <2>1, <2>2, <1>u, <1>q, DeadFrame, Zenon
<1>c. ASSUME NEW c \in Conn, Grant(c) PROVE DeadKept(id)
  <2>k. PICK i \in FreshLeaseIds : \E k : Goto(c, k) /\ k.pc = "insert" /\ k.id = i
    BY <1>c, Zenon DEF Grant
  <2>1. PICK k : Goto(c, k) /\ k.pc = "insert" /\ k.id = i
    BY <2>k, Zenon
  <2>2. UNCHANGED <<leases, now>> /\ audit \subseteq audit'
    BY <1>c, Zenon DEF Grant
  <2>3. i # id
    BY Zenon DEF FreshLeaseIds, Dead
  <2> QED
    BY <2>1, <2>2, <2>3, <1>u, DeadFrame, Zenon
<1>d. ASSUME NEW c \in Conn, InsertLease(c) PROVE DeadKept(id)
  <2>1. calls[c].pc = "insert" /\ UNCHANGED <<audit, now>>
    BY <1>d, Zenon DEF InsertLease
  <2>2. calls[c].id # id
    BY <2>1, Zenon DEF Dead, Inserting
  <2>3. Undisturbed(id)
    BY <1>d, <2>2, Zenon DEF InsertLease, Insert, Undisturbed
  <2>4. PICK k : Goto(c, k) /\ k.pc \in {"idle", "link"}
    BY <1>d, QuitIsGoto DEF InsertLease
  <2> QED
    BY <2>1, <2>3, <2>4, DeadFrame, Zenon
<1>e. ASSUME NEW c \in Conn, LinkLease(c) PROVE DeadKept(id)
  <2>1. Undisturbed(id)
    <3>1. \A s : \A i \in DOMAIN leases :
            LET l == [leases[i] EXCEPT !.session_id = s]
            IN  /\ l.revoked = leases[i].revoked /\ l.use_count = leases[i].use_count
                /\ l.expires_at = leases[i].expires_at
      BY Zenon DEF TypeOK, Leases
    <3> QED
      BY <1>e, <3>1 DEF LinkLease, Undisturbed
  <2>2. PICK k : Goto(c, k) /\ k.pc = "count"
    BY <1>e DEF LinkLease
  <2>3. UNCHANGED <<audit, now>>
    BY <1>e, Zenon DEF LinkLease
  <2> QED
    BY <2>1, <2>2, <2>3, DeadFrame, Zenon
<1>f. ASSUME NEW c \in Conn, RenewLease(c) PROVE DeadKept(id)
  <2>k. PICK i \in DOMAIN leases : \E k :
          /\ ~LeaseExpired(leases[i], now)
          /\ Goto(c, k) /\ k.pc = "renew" /\ k.id = i
    BY <1>f, Zenon DEF RenewLease, RenewableNow
  <2>1. PICK k :
          /\ ~LeaseExpired(leases[i], now)
          /\ Goto(c, k) /\ k.pc = "renew" /\ k.id = i
    BY <2>k, Zenon
  <2>2. UNCHANGED <<leases, audit, now>>
    BY <1>f, Zenon DEF RenewLease
  <2>3. i = id => leases[id].revoked
    BY <2>1, Zenon DEF Dead
  <2> QED
    BY <2>1, <2>2, <2>3, <1>u, DeadFrame, Zenon
<1>g. ASSUME NEW c \in Conn, AccessSecret(c) PROVE DeadKept(id)
  <2>1. PICK i \in DOMAIN leases, host \in Domain :
          /\ Validate(leases[i], host, now)
          /\ leases' = [leases EXCEPT ![i] = RecordUse(leases[i])]
    BY <1>g, Zenon DEF AccessSecret
  <2>4. PICK k : Goto(c, k) /\ k.pc = "fetch"
    BY <1>g DEF AccessSecret
  <2>2. i # id
    BY <2>1, Zenon DEF Validate, Dead
  <2>3. UNCHANGED <<audit, now>> /\ Undisturbed(id)
    BY <1>g, <2>1, <2>2, Zenon DEF AccessSecret, Undisturbed
  <2> QED
    BY <2>3, <2>4, DeadFrame, Zenon
<1>h. ASSUME NEW c \in Conn, RevokeAllForAgent(c) PROVE DeadKept(id)
  <2>1. audit \subseteq audit' /\ Undisturbed(id) /\ UNCHANGED <<now, calls>>
    BY <1>h, RevokeAllKeeps, RevokeAllUndisturbed, Zenon DEF RevokeAllForAgent
  <2> QED
    BY <2>1, Zenon DEF Dead, DeadKept, Undisturbed, Inserting, Renewing, LeaseExpired
<1>i. ASSUME NEW c \in Conn, DeleteSecret(c) PROVE DeadKept(id)
  <2>1. audit \subseteq audit' /\ Undisturbed(id) /\ UNCHANGED now
    BY <1>i, RevokeAllKeeps, RevokeAllUndisturbed, Zenon DEF DeleteSecret
  <2>2. PICK k : Goto(c, k) /\ k.pc = "delete"
    BY <1>i, SMTT(40) DEF DeleteSecret
  <2> QED
    BY <2>1, <2>2, DeadFrame, Zenon
<1>j. ASSUME NEW c \in Conn, SweepChildren(c) PROVE DeadKept(id)
  <2>1. audit \subseteq audit' /\ Undisturbed(id) /\ UNCHANGED now
    BY <1>j, RevokeAllKeeps, RevokeAllUndisturbed, Zenon DEF SweepChildren
  <2> QED
    BY <2>1, <1>j, <1>q, Zenon DEF SweepChildren
<1>k. ASSUME NEW c \in Conn, RevokeSession(c) PROVE DeadKept(id)
  <2>1. UNCHANGED <<leases, audit, now>>
    BY <1>k, Zenon DEF RevokeSession
  <2>2. PICK k : Goto(c, k) /\ k.pc = "sweep"
    BY <1>k DEF RevokeSession
  <2> QED
    BY <2>1, <2>2, <1>u, DeadFrame, Zenon
<1>l. ASSUME NEW c \in Conn, FinishRenew(c) PROVE DeadKept(id)
  <2>1. calls[c].pc = "renew" /\ UNCHANGED <<audit, now>>
    BY <1>l, Zenon DEF FinishRenew
  <2>2. calls[c].id = id => UNCHANGED leases
    <3> SUFFICES ASSUME calls[c].id = id PROVE UNCHANGED leases
      BY Zenon
    <3>1. Renewing(id) /\ id \in DOMAIN leases
      BY <2>1, Zenon DEF Renewing, IdInv
    <3>2. ~CanRenew(leases[id])
      BY <3>1, Zenon DEF Dead, CanRenew
    <3> QED
      BY <1>l, <3>2, Zenon DEF FinishRenew
  <2>3. Undisturbed(id)
    BY <1>l, <2>2, Zenon DEF FinishRenew, Undisturbed
  <2>4. Return(c) \/ \E e : GotoAudit(c, e)
    BY <1>l, Zenon DEF FinishRenew
  <2> QED
    BY <2>1, <2>3, <2>4, <1>q, Zenon
<1>m. ASSUME NEW c \in Conn, RevokeLease(c) PROVE DeadKept(id)
  <2>1. PICK i \in DOMAIN leases : leases' = [leases EXCEPT ![i] = Revoke(leases[i])]
    BY <1>m, Zenon DEF RevokeLease
  <2>2. /\ Revoke(leases[i]).revoked /\ Revoke(leases[i]).use_count = leases[i].use_count
        /\ Revoke(leases[i]).expires_at = leases[i].expires_at
    BY Zenon DEF TypeOK, Leases, Revoke
  <2>3. UNCHANGED <<audit, now>> /\ Undisturbed(id)
    BY <1>m, <2>1, <2>2, Zenon DEF RevokeLease, Undisturbed
  <2>4. \E e : GotoAudit(c, e)
    BY <1>m, Zenon DEF RevokeLease
  <2> QED
    BY <2>3, <2>4, <1>q, Zenon
<1>n. ASSUME NEW c \in Conn,
             \/ CountLease(c) \/ Deliver(c) \/ StoreSecret(c) \/ DeleteFromStore(c)
             \/ CreateSession(c) \/ RecordAndReturn(c) \/ BackendFails(c)
      PROVE  DeadKept(id)
  <2>1. UNCHANGED <<leases, now>> /\ audit \subseteq audit'
    BY <1>n, Zenon DEF CountLease, Deliver, StoreSecret, DeleteFromStore, CreateSession,
                RecordAndReturn, BackendFails
  <2>2. Return(c) \/ \E e : GotoAudit(c, e)
    BY <1>n, Zenon DEF CountLease, Deliver, StoreSecret, DeleteFromStore, CreateSession,
                RecordAndReturn, BackendFails
  <2> QED
    BY <2>1, <2>2, <1>q, <1>u, Zenon
<1>o. CASE GcLeases \/ GcSessions
  <2>1. UNCHANGED <<audit, now, calls>> /\ Undisturbed(id)
    BY <1>o, Zenon DEF GcLeases, GcSessions, Restrict, Undisturbed
  <2> QED
    BY <2>1, Zenon DEF Dead, DeadKept, Undisturbed, Inserting, Renewing, LeaseExpired
<1>p. CASE Tick
  <2>1. UNCHANGED <<leases, audit, calls>> /\ now' = now + 1
    BY <1>p, Zenon DEF Tick
  <2>2. \A i \in DOMAIN leases : LeaseExpired(leases[i], now) => LeaseExpired(leases[i], now + 1)
    BY DEF TypeOK, Leases, LeaseExpired
  <2>3. LeaseExpired(leases[id], now)' <=> LeaseExpired(leases[id], now + 1)
    BY <2>1, Zenon DEF LeaseExpired
  <2> QED
    BY <2>1, <2>2, <2>3, Zenon DEF Dead, DeadKept, Inserting, Renewing
<1>r. CASE Restart
  BY <1>r, Zenon DEF Restart, EmptyMap, Dead, DeadKept, Inserting
<1> QED
  BY <1>a, <1>b, <1>c, <1>d, <1>e, <1>f, <1>g, <1>h, <1>i, <1>j, <1>k, <1>l, <1>m,
     <1>n, <1>o, <1>p, <1>r, Zenon DEF Next, Invoke, Resume

(* DeadStaysDead: no interleaving of handlers, collection, time and        *)
(* restarts brings a lease back or records a use on one that is over.      *)
THEOREM Finality == Spec => DeadStaysDead
<1>1. TypeOK /\ LifeInv /\ [Next]_vars =>
        [\A id \in LeaseId : Dead(id) =>
            /\ Dead(id)'
            /\ id \in DOMAIN leases' => leases'[id].use_count = leases[id].use_count]_vars
  BY DeadStep, Zenon DEF DeadKept
<1> QED
  BY <1>1, TypeCorrect, LifeInvariant, PTL DEF Spec, DeadStaysDead

------------------------------------------------------------------------------
(* The vault implements LeaseContract.                                     *)

\* no id is granted in this step
NoGrant ==
    \A id \in LeaseId : <<"LeaseGranted", id>> \in audit' <=> <<"LeaseGranted", id>> \in audit

AccessingKept == \A id \in LeaseId : Accessing(id)' = Accessing(id)

PhasesKept == \A id \in LeaseId : PhaseOf(id)' = PhaseOf(id)

(* ContractHeld: the vault, with all its interleavings and failures,       *)
(* implements the life of a lease as LeaseContract states it.              *)
THEOREM VaultImplementsContract == Spec => ContractHeld
(* A step that grants nothing and lets nobody in or out ends some leases,  *)
(* perhaps none: what is over stays over.                                  *)
<1>EndsSome.
      ASSUME NoGrant, AccessingKept, UNCHANGED guards,
             \A id \in LeaseId : Dead(id) => Dead(id)'
      PROVE  Contract!Next
  <2> USE <1>EndsSome
  <2> DEFINE ids == {id \in LeaseId : PhaseOf(id) = "granted" /\ PhaseOf(id)' = "over"}
  <2>1. \A id \in LeaseId : PhaseOf(id)' = IF id \in ids THEN "over" ELSE PhaseOf(id)
    BY Zenon DEF NoGrant, PhaseOf
  <2>2. \A id \in ids : id \in LeaseId /\ PhaseOf(id) = "granted"
    BY Zenon
  <2> HIDE DEF ids
  <2>3. Contract!End(ids)
    BY <2>1, <2>2, Zenon DEF Contract!End, AccessingKept
  <2>4. ids \in SUBSET LeaseId
    BY <2>2, Zenon
  <2> QED
    BY <2>3, <2>4, Zenon DEF Contract!Next

(* Whose secrets are under way does not change unless the call that moves  *)
(* is or becomes one that is let in.                                       *)
<1>AccessingFrame.
      ASSUME TypeOK, NEW c \in Conn, NEW k, Goto(c, k),
             (k.pc \in {"fetch", "deliver"} \/ calls[c].pc \in {"fetch", "deliver"}) =>
                 /\ k.pc \in {"fetch", "deliver"} /\ calls[c].pc \in {"fetch", "deliver"}
                 /\ k.id = calls[c].id
      PROVE  AccessingKept
  <2> USE <1>AccessingFrame
  <2>1. \A x \in Conn : calls'[x] = IF x = c THEN k ELSE calls[x]
    BY CallsAfter, Zenon
  <2> QED
    BY <2>1, Zenon DEF Accessing, AccessingKept

(* A step of a call that touches neither map, log nor clock, and neither   *)
(* inserts nor renews, changes no phase.                                   *)
<1>PhasesFrame.
      ASSUME TypeOK, NEW c \in Conn, NEW k, Goto(c, k), NoGrant, UNCHANGED now,
             k.pc \notin {"insert", "renew"}, calls[c].pc \notin {"insert", "renew"},
             DOMAIN leases' = DOMAIN leases,
             \A id \in DOMAIN leases : /\ leases'[id].revoked = leases[id].revoked
                                       /\ leases'[id].expires_at = leases[id].expires_at
      PROVE  PhasesKept
  <2> USE <1>PhasesFrame
  <2>1. \A x \in Conn : calls'[x] = IF x = c THEN k ELSE calls[x]
    BY CallsAfter, Zenon
  <2>2. \A id \in LeaseId : Inserting(id)' <=> Inserting(id)
    BY <2>1, Zenon DEF Inserting
  <2>3. \A id \in LeaseId : Renewing(id)' <=> Renewing(id)
    BY <2>1, Zenon DEF Renewing
  <2>4. \A id \in LeaseId : Dead(id)' <=> Dead(id)
    BY <2>2, <2>3, Zenon DEF Dead, NoGrant, LeaseExpired
  <2> QED
    BY <2>4, Zenon DEF PhasesKept, PhaseOf, NoGrant

(* A call that was let in returns an error.                                *)
<1>Withdraws.
      ASSUME TypeOK, NEW c \in Conn, calls[c].pc \in {"fetch", "deliver"}, Return(c),
             UNCHANGED <<now, leases, audit, guards>>
      PROVE  Contract!Next
  <2> USE <1>Withdraws
  <2> DEFINE id == calls[c].id
             k  == [pc |-> "idle"]
  <2>1. id \in LeaseId
    BY CallShape, Zenon DEF TypeOK
  <2>2. Goto(c, k) /\ k.pc = "idle"
    BY QuitIsGoto, Zenon
  <2>3. PhasesKept
    BY <2>2, <1>PhasesFrame, Zenon DEF NoGrant
  <2>4. \A x \in Conn : calls'[x] = IF x = c THEN k ELSE calls[x]
    BY <2>2, CallsAfter, Zenon
  <2>5. /\ c \in Accessing(id)
        /\ \A i \in LeaseId : Accessing(i)' = IF i = id THEN Accessing(i) \ {c} ELSE Accessing(i)
    BY <2>4 DEF Accessing
  <2> HIDE DEF id, k
  <2>6. Contract!Withdraw(id, c)
    BY <2>1, <2>3, <2>5, Zenon DEF Contract!Withdraw, PhasesKept
  <2> QED
    BY <2>1, <2>6, Zenon DEF Contract!Next

(* Every step of the vault is a step of the contract, or invisible in it.  *)
<1>ContractStep.
      ASSUME TypeOK, LifeInv, [Next]_vars
      PROVE  [Contract!Next]_(Contract!vars)
  <2> USE <1>ContractStep
  <2> USE DEF LifeInv
  <2>d. ASSUME Next PROVE \A id \in LeaseId : Dead(id) => Dead(id)'
    BY <2>d, DeadStep, Zenon DEF DeadKept
  <2>q. ASSUME NEW c \in Conn, Return(c) \/ \E e : GotoAudit(c, e), Next, NoGrant,
               calls[c].pc \notin {"fetch", "deliver"}, UNCHANGED guards
        PROVE  Contract!Next
    <3>1. AccessingKept
      <4>1. CASE Return(c)
        BY <2>q, <4>1, QuitIsGoto, <1>AccessingFrame, Zenon
      <4>2. CASE \E e : GotoAudit(c, e)
        <5>1. PICK e : Goto(c, [pc |-> "audit", events |-> e])
          BY <4>2, QuitIsGoto, Zenon
        <5> QED
          BY <2>q, <5>1, <1>AccessingFrame, Zenon
      <4> QED
        BY <2>q, <4>1, <4>2, Zenon
    <3> QED
      BY <2>q, <2>d, <3>1, <1>EndsSome, Zenon
  <2>a. ASSUME Next, NEW c \in Conn, RequestLease(c) \/ RequestLeaseScoped(c)
        PROVE  Contract!Next
    <3>1. UNCHANGED <<audit, guards>> /\ calls[c].pc = "idle"
      BY <2>a, Zenon DEF RequestLease, RequestLeaseScoped, Idle
    <3>2. NoGrant
      BY <3>1, Zenon DEF NoGrant
    <3> QED
      BY <2>a, <3>1, <3>2, <2>d, RequestIsGoto, <1>AccessingFrame, <1>EndsSome, Zenon
  <2>b. ASSUME Next, NEW c \in Conn, CheckCap(c) \/ CheckExists(c)
        PROVE  Contract!Next
    <3>1. UNCHANGED <<audit, guards>> /\ calls[c].pc \in {"check_cap", "check_exists"}
      BY <2>b, Zenon DEF CheckCap, CheckExists
    <3>2. Return(c) \/ \E k : Goto(c, k) /\ k.pc \in {"check_exists", "grant"}
      BY <2>b DEF CheckCap, CheckExists
    <3>3. NoGrant
      BY <3>1, Zenon DEF NoGrant
    <3> QED
      BY <2>b, <3>1, <3>2, <3>3, <2>d, <2>q, <1>AccessingFrame, <1>EndsSome, Zenon
  <2>c. ASSUME Next, NEW c \in Conn, Grant(c) PROVE Contract!Next
    <3>k. PICK id \in FreshLeaseIds : \E k :
            /\ audit' = audit \cup {<<"LeaseGranted", id>>}
            /\ Goto(c, k) /\ k.pc = "insert" /\ k.id = id
      BY <2>c, Zenon DEF Grant
    <3>1. PICK k :
            /\ audit' = audit \cup {<<"LeaseGranted", id>>}
            /\ Goto(c, k) /\ k.pc = "insert" /\ k.id = id
      BY <3>k, Zenon
    <3>2. /\ UNCHANGED <<now, leases, guards>> /\ calls[c].pc = "grant"
          /\ id \in LeaseId /\ <<"LeaseGranted", id>> \notin audit
      BY <2>c, Zenon DEF Grant, FreshLeaseIds
    <3>3. AccessingKept
      BY <3>1, <3>2, <1>AccessingFrame, Zenon
    <3>4. \A x \in Conn : calls'[x] = IF x = c THEN k ELSE calls[x]
      BY <3>1, CallsAfter, Zenon
    <3>5. \A i \in LeaseId : i # id => (Dead(i)' <=> Dead(i))
      <4>1. \A i \in LeaseId : i # id => (Inserting(i)' <=> Inserting(i))
        BY <3>1, <3>2, <3>4, Zenon DEF Inserting
      <4>2. \A i \in LeaseId : Renewing(i)' <=> Renewing(i)
        BY <3>1, <3>2, <3>4, Zenon DEF Renewing
      <4> QED
        BY <3>1, <3>2, <4>1, <4>2, Zenon DEF Dead, LeaseExpired
    <3>6. Inserting(id)'
      BY <3>1, <3>4, Zenon DEF Inserting
    <3>7. /\ PhaseOf(id) = "unborn"
          /\ \A i \in LeaseId : PhaseOf(i)' = IF i = id THEN "granted" ELSE PhaseOf(i)
      BY <3>1, <3>2, <3>5, <3>6, Zenon DEF PhaseOf, Dead
    <3>8. Contract!Grant(id)
      BY <3>2, <3>3, <3>7, Zenon DEF Contract!Grant, AccessingKept
    <3> QED
      BY <3>2, <3>8, Zenon DEF Contract!Next
  <2>e. ASSUME Next, NEW c \in Conn,
               InsertLease(c) \/ LinkLease(c) \/ RenewLease(c) \/ DeleteSecret(c) \/ RevokeSession(c)
        PROVE  Contract!Next
    <3>1. UNCHANGED guards /\ calls[c].pc \in {"insert", "link", "idle"}
      BY <2>e, Zenon DEF InsertLease, LinkLease, RenewLease, DeleteSecret, RevokeSession, Idle
    <3>2. NoGrant
      <4>1. CASE DeleteSecret(c)
        BY <4>1, Zenon DEF DeleteSecret, RevokeAll, NoGrant
      <4>2. CASE ~DeleteSecret(c)
        BY <2>e, <4>2, Zenon DEF InsertLease, LinkLease, RenewLease, RevokeSession, NoGrant
      <4> QED
        BY <4>1, <4>2, Zenon
    <3>3. Return(c) \/ \E k : Goto(c, k) /\ k.pc \in {"link", "count", "renew", "delete", "sweep"}
      <4>1. CASE InsertLease(c) \/ LinkLease(c)
        BY <4>1 DEF InsertLease, LinkLease
      <4>2. CASE RenewLease(c)
        BY <4>2 DEF RenewLease
      <4>3. CASE DeleteSecret(c)
        BY <4>3 DEF DeleteSecret
      <4>4. CASE RevokeSession(c)
        BY <4>4 DEF RevokeSession
      <4> QED
        BY <2>e, <4>1, <4>2, <4>3, <4>4, Zenon
    <3> QED
      BY <2>e, <3>1, <3>2, <3>3, <2>d, <2>q, <1>AccessingFrame, <1>EndsSome, Zenon
  <2>f. ASSUME Next, NEW c \in Conn, AccessSecret(c) PROVE Contract!Next
    <3>1. PICK id \in KnownLeases \cap DOMAIN leases, host \in Domain :
            /\ Validate(leases[id], host, now)
            /\ leases' = [leases EXCEPT ![id] = RecordUse(leases[id])]
            /\ Goto(c, [pc |-> "fetch", id |-> id, host |-> host,
                        agent |-> leases[id].agent, secret |-> leases[id].secret_name])
      BY <2>f, Zenon DEF AccessSecret
    <3>2. PICK k : Goto(c, k) /\ k.pc = "fetch" /\ k.id = id
      BY <3>1
    <3>3. UNCHANGED <<now, audit, guards>> /\ calls[c].pc = "idle"
      BY <2>f, Zenon DEF AccessSecret, Idle
    <3>4. /\ RecordUse(leases[id]).revoked = leases[id].revoked
          /\ RecordUse(leases[id]).expires_at = leases[id].expires_at
      BY Zenon DEF TypeOK, Leases, RecordUse
    <3>5. PhasesKept
      BY <3>1, <3>2, <3>3, <3>4, <1>PhasesFrame, Zenon DEF NoGrant
    <3>6. id \in LeaseId /\ PhaseOf(id) = "granted"
      BY <3>1, Zenon DEF KnownLeases, PhaseOf, Dead, Validate
    <3>7. \A x \in Conn : calls'[x] = IF x = c THEN k ELSE calls[x]
      BY <3>2, CallsAfter, Zenon
    <3>8. \A i \in LeaseId : Accessing(i)' = IF i = id THEN Accessing(i) \cup {c} ELSE Accessing(i)
      BY <3>2, <3>3, <3>7, Zenon DEF Accessing
    <3>9. Contract!Authorize(id, c)
      BY <3>3, <3>5, <3>6, <3>8, Zenon DEF Contract!Authorize, PhasesKept
    <3> QED
      BY <3>6, <3>9, Zenon DEF Contract!Next
  <2>g. ASSUME Next, NEW c \in Conn, Fetch(c) PROVE Contract!Next
    <3>1. UNCHANGED <<now, leases, audit, guards>> /\ calls[c].pc = "fetch"
      BY <2>g, Zenon DEF Fetch
    <3>2. CASE Return(c)
      BY <3>1, <3>2, <1>Withdraws, Zenon
    <3>3. CASE Goto(c, [calls[c] EXCEPT !.pc = "deliver"])
      <4>1. calls[c] \in Calls
        BY Zenon DEF TypeOK
      <4>2. /\ [calls[c] EXCEPT !.pc = "deliver"].pc = "deliver"
            /\ [calls[c] EXCEPT !.pc = "deliver"].id = calls[c].id
        BY <3>1, <4>1, CallShape
      <4>3. AccessingKept /\ NoGrant
        BY <3>1, <3>3, <4>2, <1>AccessingFrame, Zenon DEF NoGrant
      <4> QED
        BY <2>g, <3>1, <4>3, <2>d, <1>EndsSome, Zenon
    <3> QED
      BY <2>g, <3>2, <3>3, Zenon DEF Fetch
  <2>h. ASSUME Next, NEW c \in Conn, Deliver(c) PROVE Contract!Next
    <3> DEFINE id == calls[c].id
               k  == [pc |-> "idle"]
    <3>1. /\ calls[c].pc = "deliver" /\ UNCHANGED <<now, leases>>
          /\ guards' = [guards EXCEPT ![id] = @ + 1]
          /\ Goto(c, k) /\ k.pc = "idle"
      BY <2>h, QuitIsGoto, Zenon DEF Deliver
    <3>2. id \in LeaseId
      BY <3>1, CallShape, Zenon DEF TypeOK
    <3>3. NoGrant
      BY <2>h, Zenon DEF Deliver, NoGrant
    <3>4. PhasesKept
      BY <3>1, <3>3, <1>PhasesFrame, Zenon
    <3>5. \A x \in Conn : calls'[x] = IF x = c THEN k ELSE calls[x]
      BY <3>1, CallsAfter, Zenon
    <3>6. /\ c \in Accessing(id)
          /\ \A i \in LeaseId : Accessing(i)' = IF i = id THEN Accessing(i) \ {c} ELSE Accessing(i)
      BY <3>1, <3>5, Zenon DEF Accessing
    <3> HIDE DEF id, k
    <3>7. Contract!Deliver(id, c)
      BY <3>1, <3>2, <3>4, <3>6, Zenon DEF Contract!Deliver, PhasesKept
    <3> QED
      BY <3>2, <3>7, Zenon DEF Contract!Next
  <2>i. ASSUME Next, NEW c \in Conn, BackendFails(c) PROVE Contract!Next
    <3>1. UNCHANGED <<now, leases, audit, guards>> /\ Return(c)
      BY <2>i, Zenon DEF BackendFails
    <3>2. NoGrant
      BY <3>1, Zenon DEF NoGrant
    <3> QED
      BY <2>i, <3>1, <3>2, <2>q, <1>Withdraws, Zenon
  <2>j. ASSUME Next, NEW c \in Conn, RevokeAllForAgent(c) PROVE Contract!Next
    <3>1. UNCHANGED <<calls, guards>> /\ NoGrant
      BY <2>j, Zenon DEF RevokeAllForAgent, RevokeAll, NoGrant
    <3> QED
      BY <2>j, <3>1, <2>d, <1>EndsSome, Zenon DEF AccessingKept, Accessing
  <2>k. ASSUME Next, NEW c \in Conn,
               \/ CountLease(c) \/ FinishRenew(c) \/ StoreSecret(c) \/ DeleteFromStore(c)
               \/ CreateSession(c) \/ RevokeLease(c)
        PROVE  Contract!Next
    <3>1. /\ UNCHANGED <<audit, guards>>
          /\ calls[c].pc \in {"count", "renew", "idle", "delete"}
      BY <2>k, Zenon DEF CountLease, FinishRenew, StoreSecret, DeleteFromStore, CreateSession,
                  RevokeLease, Idle
    <3>2. Return(c) \/ \E e : GotoAudit(c, e)
      BY <2>k, Zenon DEF CountLease, FinishRenew, StoreSecret, DeleteFromStore, CreateSession,
                  RevokeLease
    <3>3. NoGrant
      BY <3>1, Zenon DEF NoGrant
    <3> QED
      BY <2>k, <3>1, <3>2, <3>3, <2>q, Zenon
  <2>l. ASSUME Next, NEW c \in Conn, SweepChildren(c) PROVE Contract!Next
    <3>1. /\ calls[c].pc = "sweep" /\ UNCHANGED guards /\ NoGrant
          /\ GotoAudit(c, {})
      BY <2>l, Zenon DEF SweepChildren, RevokeAll, NoGrant
    <3> QED
      BY <2>l, <3>1, <2>q, Zenon
  <2>m. ASSUME Next, NEW c \in Conn, RecordAndReturn(c) PROVE Contract!Next
    <3>1. calls[c].pc \in {"audit", "denied"} /\ UNCHANGED guards /\ Return(c)
      BY <2>m, Zenon DEF RecordAndReturn
    <3>2. NoGrant
      <4>1. calls[c].events \subseteq LateEvents
        BY <3>1, CallShape, Zenon DEF TypeOK
      <4> QED
        BY <2>m, <4>1, Zenon DEF RecordAndReturn, NoGrant, LateEvents
    <3> QED
      BY <2>m, <3>1, <3>2, <2>q, Zenon
  <2>n. CASE GcLeases \/ GcSessions \/ Tick
    <3>1. UNCHANGED <<audit, calls, guards>> /\ Next
      BY <2>n, Zenon DEF GcLeases, GcSessions, Tick, Next
    <3> QED
      BY <3>1, <2>d, <1>EndsSome, Zenon DEF NoGrant, AccessingKept, Accessing
  <2>o. CASE Restart
    <3>1. /\ UNCHANGED <<now, audit, guards>> /\ DOMAIN leases' = {}
          /\ \A c \in Conn : calls'[c].pc = "idle"
      BY <2>o, Zenon DEF Restart, EmptyMap
    <3>2. \A id \in LeaseId : ~Inserting(id)' /\ Accessing(id)' = {}
      BY <3>1, Zenon DEF Inserting, Accessing
    <3>3. \A id \in LeaseId :
            PhaseOf(id)' = IF PhaseOf(id) = "granted" THEN "over" ELSE PhaseOf(id)
      BY <3>1, <3>2, Zenon DEF PhaseOf, Dead
    <3>4. Contract!Crash
      BY <3>1, <3>2, <3>3, Zenon DEF Contract!Crash
    <3> QED
      BY <3>4, Zenon DEF Contract!Next
  <2>p. CASE UNCHANGED vars
    BY <2>p, Zenon DEF vars, Contract!vars, PhaseOf, Dead, Inserting, Renewing, Accessing, LeaseExpired
  <2> QED
    BY <2>a, <2>b, <2>c, <2>e, <2>f, <2>g, <2>h, <2>i, <2>j, <2>k, <2>l, <2>m, <2>n,
       <2>o, <2>p, ZenonT(40) DEF Next, Invoke, Resume

<1>1. Init => Contract!Init
  <2> SUFFICES ASSUME Init PROVE Contract!Init
    BY Zenon
  <2>1. \A id \in LeaseId : PhaseOf(id) = "unborn" /\ Accessing(id) = {}
    BY Zenon DEF Init, PhaseOf, Accessing
  <2> QED
    BY <2>1, Zenon DEF Init, Contract!Init
<1>2. TypeOK /\ LifeInv /\ [Next]_vars => [Contract!Next]_(Contract!vars)
  BY <1>ContractStep, Zenon
<1> QED
  BY <1>1, <1>2, TypeCorrect, LifeInvariant, PTL DEF Spec, ContractHeld, Contract!Spec
==============================================================================
