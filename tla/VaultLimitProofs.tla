-------------------------- MODULE VaultLimitProofs ---------------------------
(***************************************************************************)
(* Limits that hold however many calls run at once: uses per lease, the    *)
(* horizon of a lease, the overshoot of the lease cap, and what a session  *)
(* confines and limits.                                                    *)
(***************************************************************************)
EXTENDS VaultProofs, FiniteSetTheorems

\* leases may leave the map or be revoked, linked to a session, no more
Tame ==
    \A id \in DOMAIN leases' :
        /\ id \in DOMAIN leases
        /\ leases[id].revoked => leases'[id].revoked
        /\ leases'[id].agent = leases[id].agent
        /\ leases'[id].max_uses = leases[id].max_uses
        /\ leases'[id].use_count = leases[id].use_count
        /\ leases'[id].expires_at = leases[id].expires_at

\* nobody is granted a lease, let in, or handed a secret
Calm ==
    /\ Tame /\ audit \subseteq audit' /\ UNCHANGED <<now, guards>>
    /\ \/ UNCHANGED calls
       \/ \E c \in Conn : \E k :
            /\ Goto(c, k)
            /\ k.pc \notin {"check_exists", "grant", "insert", "renew"}
            /\ k.pc \in {"fetch", "deliver"} =>
                 calls[c].pc \in {"fetch", "deliver"} /\ k.id = calls[c].id

(* The fields that revocation, linking and renewal leave alone.            *)
LEMMA LeaseOps ==
    ASSUME NEW l \in Leases
    PROVE  /\ LET r == Revoke(l)
              IN  /\ r.revoked /\ r.agent = l.agent /\ r.max_uses = l.max_uses
                  /\ r.use_count = l.use_count /\ r.expires_at = l.expires_at
           /\ \A s : LET r == [l EXCEPT !.session_id = s]
                     IN  /\ r.revoked = l.revoked /\ r.agent = l.agent
                         /\ r.max_uses = l.max_uses
                         /\ r.use_count = l.use_count /\ r.expires_at = l.expires_at
           /\ \A e, t : LET r == Renew(l, e, t)
                        IN  /\ r.revoked = l.revoked /\ r.agent = l.agent
                            /\ r.max_uses = l.max_uses
                            /\ r.use_count = l.use_count /\ r.expires_at = t + e
           /\ LET r == RecordUse(l)
              IN  /\ r.revoked = l.revoked /\ r.agent = l.agent
                  /\ r.max_uses = l.max_uses
                  /\ r.use_count = l.use_count + 1 /\ r.expires_at = l.expires_at
BY Zenon DEF Leases, Revoke, Renew, RecordUse

(* Bulk revocation is tame.                                                *)
LEMMA RevokeAllTame ==
    ASSUME TypeOK, NEW ids, RevokeAll(ids)
    PROVE  Tame /\ audit \subseteq audit'
<1>1. Tame
  BY LeaseOps, Zenon DEF TypeOK, RevokeAll, Tame
<1> QED
  BY <1>1, Zenon DEF RevokeAll

(* Every step is one of ten that matter for the limits, or calm.           *)
LEMMA StepKinds ==
    ASSUME TypeOK, Next
    PROVE  \/ \E c \in Conn : \/ CheckCap(c) \/ CheckExists(c) \/ Grant(c)
                              \/ InsertLease(c) \/ AccessSecret(c) \/ Deliver(c)
                              \/ RenewLease(c) \/ FinishRenew(c)
           \/ Tick \/ Restart
           \/ Calm
<1>u. ASSUME UNCHANGED leases PROVE Tame
  BY <1>u, Zenon DEF Tame
<1>q. ASSUME NEW c \in Conn, Return(c) \/ \E e : GotoAudit(c, e),
             Tame, audit \subseteq audit', UNCHANGED <<now, guards>>
      PROVE  Calm
  <2>1. CASE Return(c)
    <3>1. Goto(c, [pc |-> "idle"])
      BY <2>1, QuitIsGoto, Zenon
    <3> QED
      BY <1>q, <3>1 DEF Calm
  <2>2. CASE \E e : GotoAudit(c, e)
    <3>1. PICK e : Goto(c, [pc |-> "audit", events |-> e])
      BY <2>2, QuitIsGoto, Zenon
    <3> QED
      BY <1>q, <3>1 DEF Calm
  <2> QED
    BY <1>q, <2>1, <2>2, Zenon
<1>a. ASSUME NEW c \in Conn, RequestLease(c) \/ RequestLeaseScoped(c) PROVE Calm
  <2>1. UNCHANGED <<leases, audit, now, guards>>
    BY <1>a, Zenon DEF RequestLease, RequestLeaseScoped
  <2>2. PICK k : Goto(c, k) /\ k.pc \in {"check_cap", "audit", "denied"}
    BY <1>a, RequestIsGoto, Zenon
  <2> QED
    BY <2>1, <2>2, <1>u, Zenon DEF Calm
<1>b. ASSUME NEW c \in Conn, Fetch(c) PROVE Calm
  <2>1. UNCHANGED <<leases, audit, now, guards>> /\ calls[c].pc = "fetch"
    BY <1>b, Zenon DEF Fetch
  <2>2. CASE Goto(c, [calls[c] EXCEPT !.pc = "deliver"])
    <3>1. calls[c] \in Calls
      BY Zenon DEF TypeOK
    <3>2. /\ [calls[c] EXCEPT !.pc = "deliver"].pc = "deliver"
          /\ [calls[c] EXCEPT !.pc = "deliver"].id = calls[c].id
      BY <2>1, <3>1, CallShape
    <3> QED
      BY <2>1, <2>2, <3>2, <1>u, Zenon DEF Calm
  <2> QED
    BY <1>b, <2>1, <2>2, <1>q, <1>u, Zenon DEF Fetch
<1>c. ASSUME NEW c \in Conn, LinkLease(c) PROVE Calm
  <2>1. PICK k : Goto(c, k) /\ k.pc = "count"
    BY <1>c DEF LinkLease
  <2>2. Tame
    BY <1>c, LeaseOps DEF LinkLease, Tame, TypeOK
  <2> QED
    BY <1>c, <2>1, <2>2, Zenon DEF LinkLease, Calm
<1>d. ASSUME NEW c \in Conn, RevokeLease(c) PROVE Calm
  <2>1. PICK id \in DOMAIN leases : leases' = [leases EXCEPT ![id] = Revoke(leases[id])]
    BY <1>d, Zenon DEF RevokeLease
  <2>2. Tame
    BY <2>1, LeaseOps DEF Tame, TypeOK
  <2> QED
    BY <1>d, <2>2, <1>q, Zenon DEF RevokeLease
<1>e. ASSUME NEW c \in Conn, RevokeAllForAgent(c) PROVE Calm
  BY <1>e, RevokeAllTame, Zenon DEF RevokeAllForAgent, Calm
<1>f. ASSUME NEW c \in Conn, DeleteSecret(c) PROVE Calm
  <2>1. PICK k : Goto(c, k) /\ k.pc = "delete"
    BY <1>f DEF DeleteSecret
  <2>2. Tame /\ audit \subseteq audit' /\ UNCHANGED <<now, guards>>
    BY <1>f, RevokeAllTame, Zenon DEF DeleteSecret
  <2> QED
    BY <2>1, <2>2, Zenon DEF Calm
<1>g. ASSUME NEW c \in Conn, RevokeSession(c) PROVE Calm
  <2>1. PICK k : Goto(c, k) /\ k.pc = "sweep"
    BY <1>g DEF RevokeSession
  <2> QED
    BY <1>g, <2>1, <1>u, Zenon DEF RevokeSession, Calm
<1>h. ASSUME NEW c \in Conn, SweepChildren(c) PROVE Calm
  BY <1>h, <1>q, RevokeAllTame, Zenon DEF SweepChildren
<1>i. ASSUME NEW c \in Conn,
             \/ CountLease(c) \/ StoreSecret(c) \/ DeleteFromStore(c)
             \/ CreateSession(c) \/ RecordAndReturn(c) \/ BackendFails(c)
      PROVE  Calm
  <2>1. UNCHANGED <<leases, now, guards>> /\ audit \subseteq audit'
    BY <1>i, Zenon DEF CountLease, StoreSecret, DeleteFromStore, CreateSession,
                RecordAndReturn, BackendFails
  <2>2. Return(c) \/ \E e : GotoAudit(c, e)
    BY <1>i, ZenonT(40) DEF CountLease, StoreSecret, DeleteFromStore, CreateSession,
                RecordAndReturn, BackendFails
  <2> QED
    BY <2>1, <2>2, <1>q, <1>u, Zenon
<1>j. CASE GcLeases \/ GcSessions
  BY <1>j, Zenon DEF GcLeases, GcSessions, Restrict, Tame, Calm
<1> QED
  BY <1>a, <1>b, <1>c, <1>d, <1>e, <1>f, <1>g, <1>h, <1>i, <1>j, SMTT(40) DEF Next, Invoke, Resume

-----------------------------------------------------------------------------
(* The horizon.                                                            *)
InHorizon(lease, t) ==
    \/ lease.expires_at <= t + MaxExtensionSecs * Second
    \/ \E ttl \in Ttls : lease.expires_at <= t + ttl

(* Leases in the map and leases waiting to be inserted lie within the      *)
(* horizon, and a renewal in progress asks for an allowed extension.       *)
HorizonInv ==
    /\ \A id \in DOMAIN leases : InHorizon(leases[id], now)
    /\ \A c \in Conn : calls[c].pc = "insert" => InHorizon(calls[c].lease, now)
    /\ \A c \in Conn : calls[c].pc = "renew" => ExtensionAllowed(calls[c].ext)

(* HorizonBounded for every policy, clock and interleaving: no sequence of *)
(* grants and renewals carries a lease further than the longest ttl or     *)
(* MAX_EXTENSION_SECS from now.                                            *)
THEOREM Horizon == Spec => []HorizonBounded
(* The ttl of a granted lease is one the policy hands out.                 *)
<1>EvaluateTtl.
      ASSUME NEW a, NEW s, NEW d, NEW terms \in Evaluate(Config, a, s, d)
      PROVE  terms.ttl \in Ttls
  <2> USE <1>EvaluateTtl
  <2>1. PICK i \in DOMAIN Config.grants : terms \in TermsOf(Config, Config.grants[i])
    BY Zenon DEF Evaluate, FirstMatch
  <2> QED
    BY <2>1, Zenon DEF TermsOf, Ttls

(* The ttls of the policy are numbers.                                     *)
<1>TtlsAreNumbers.
      Ttls \subseteq Int
  BY ConfigAssumption DEF Ttls, Option, LeaseTerms

(* An allowed extension ends no later than MAX_EXTENSION_SECS from now.    *)
<1>ExtensionEnds.
      ASSUME NEW e \in Int, ExtensionAllowed(e), NEW t \in Nat
      PROVE  t + e * Second <= t + MaxExtensionSecs * Second
  <2> USE <1>ExtensionEnds
  <2>1. \A m \in Nat, s \in Nat, x \in Int : x <= m => x * s <= m * s
    OBVIOUS
  <2>2. e * Second \in Int /\ MaxExtensionSecs * Second \in Int
    BY NumberAssumption
  <2> QED
    BY <2>1, <2>2, NumberAssumption DEF ExtensionAllowed

(* No step carries a lease beyond the horizon.                             *)
<1>HorizonStep.
      ASSUME TypeOK, HorizonInv, IdInv, [Next]_vars
      PROVE  HorizonInv'
  <2> USE <1>HorizonStep
  <2>s. ASSUME UNCHANGED vars PROVE HorizonInv'
    BY <2>s, Zenon DEF vars, HorizonInv, InHorizon, ExtensionAllowed
  <2>a. ASSUME NEW c \in Conn, NEW k, Goto(c, k), k.pc \notin {"insert", "renew"},
               now' = now,
               \A id \in DOMAIN leases' : id \in DOMAIN leases
                  /\ leases'[id].expires_at = leases[id].expires_at
        PROVE  HorizonInv'
    <3>1. \A x \in Conn : calls'[x] = IF x = c THEN k ELSE calls[x]
      BY <2>a, CallsAfter, Zenon
    <3> QED
      BY <2>a, <3>1, Zenon DEF HorizonInv, InHorizon, ExtensionAllowed
  <2>b. ASSUME NEW c \in Conn, CheckCap(c) \/ CheckExists(c) \/ Deliver(c) PROVE HorizonInv'
    <3>1. UNCHANGED <<leases, now>>
      BY <2>b, Zenon DEF CheckCap, CheckExists, Deliver
    <3>2. \E k : Goto(c, k) /\ k.pc \in {"idle", "check_exists", "grant"}
      BY <2>b, QuitIsGoto DEF CheckCap, CheckExists, Deliver
    <3> QED
      BY <3>1, <3>2, <2>a, Zenon
  <2>c. ASSUME NEW c \in Conn, Grant(c) PROVE HorizonInv'
    <3> DEFINE req == calls[c].req
    <3>1. PICK id \in FreshLeaseIds, terms \in Evaluate(Config, req.agent, req.secret, req.domain) :
            Goto(c, [pc |-> "insert", req |-> req, id |-> id,
                     lease |-> NewLease(req.agent, req.secret, {req.domain}, terms, now)])
      BY <2>c, Zenon DEF Grant
    <3>2. UNCHANGED <<leases, now>>
      BY <2>c, Zenon DEF Grant
    <3>3. InHorizon(NewLease(req.agent, req.secret, {req.domain}, terms, now), now)
      <4>1. terms.ttl \in Ttls /\ terms.ttl \in Int
        BY <1>EvaluateTtl, <1>TtlsAreNumbers, Zenon
      <4>2. now + terms.ttl <= now + terms.ttl
        BY <4>1 DEF TypeOK
      <4> QED
        BY <4>1, <4>2, Zenon DEF InHorizon, NewLease
    <3> HIDE DEF req
    <3>4. \A x \in Conn : calls'[x] = IF x = c
              THEN [pc |-> "insert", req |-> req, id |-> id,
                    lease |-> NewLease(req.agent, req.secret, {req.domain}, terms, now)]
              ELSE calls[x]
      BY <3>1, CallsAfter, Zenon
    <3> QED
      BY <3>2, <3>3, <3>4, SMTT(40) DEF HorizonInv, InHorizon, ExtensionAllowed
  <2>d. ASSUME NEW c \in Conn, InsertLease(c) PROVE HorizonInv'
    <3>1. /\ calls[c].pc = "insert" /\ now' = now
          /\ leases' = Insert(leases, calls[c].id, calls[c].lease)
      BY <2>d, Zenon DEF InsertLease
    <3>2. PICK k : Goto(c, k) /\ k.pc \in {"idle", "link"}
      BY <2>d, QuitIsGoto DEF InsertLease
    <3>3. \A x \in Conn : calls'[x] = IF x = c THEN k ELSE calls[x]
      BY <3>2, CallsAfter, Zenon
    <3>4. \A id \in DOMAIN leases' :
            \/ leases'[id] = calls[c].lease
            \/ id \in DOMAIN leases /\ leases'[id] = leases[id]
      BY <3>1, Zenon DEF Insert
    <3> QED
      BY <3>1, <3>2, <3>3, <3>4 DEF HorizonInv, InHorizon, ExtensionAllowed
  <2>e. ASSUME NEW c \in Conn, AccessSecret(c) PROVE HorizonInv'
    <3>0. PICK id \in KnownLeases \cap DOMAIN leases, host \in Domain :
            /\ leases' = [leases EXCEPT ![id] = RecordUse(leases[id])]
            /\ Goto(c, [pc |-> "fetch", id |-> id, host |-> host,
                        agent |-> leases[id].agent, secret |-> leases[id].secret_name])
      BY <2>e, Zenon DEF AccessSecret
    <3>1. \E k : Goto(c, k) /\ k.pc = "fetch"
      BY <3>0
    <3>2. \A i \in DOMAIN leases' : i \in DOMAIN leases
              /\ leases'[i].expires_at = leases[i].expires_at
      BY <3>0, LeaseOps DEF TypeOK
    <3> QED
      BY <2>e, <3>1, <3>2, <2>a, Zenon DEF AccessSecret
  <2>f. ASSUME NEW c \in Conn, RenewLease(c) PROVE HorizonInv'
    <3>1. PICK k : Goto(c, k) /\ k.pc = "renew" /\ ExtensionAllowed(k.ext)
      BY <2>f DEF RenewLease
    <3>2. UNCHANGED <<leases, now>>
      BY <2>f, Zenon DEF RenewLease
    <3>3. \A x \in Conn : calls'[x] = IF x = c THEN k ELSE calls[x]
      BY <3>1, CallsAfter, Zenon
    <3> QED
      BY <3>1, <3>2, <3>3, Zenon DEF HorizonInv, InHorizon, ExtensionAllowed
  <2>g. ASSUME NEW c \in Conn, FinishRenew(c) PROVE HorizonInv'
    <3>1. CASE Return(c) /\ UNCHANGED leases
      BY <2>g, <3>1, <2>a, QuitIsGoto, Zenon DEF FinishRenew
    <3>2. CASE leases' = [leases EXCEPT ![calls[c].id] =
                            Renew(leases[calls[c].id], calls[c].ext * Second, now)]
               /\ GotoAudit(c, {})
      <4>1. now' = now /\ calls[c].pc = "renew" /\ calls[c].ext \in Int
        BY <2>g, CallShape, Zenon DEF FinishRenew, TypeOK
      <4>2. Goto(c, [pc |-> "audit", events |-> {}])
        BY <3>2, QuitIsGoto, Zenon
      <4>3. \A x \in Conn : calls'[x] = IF x = c THEN [pc |-> "audit", events |-> {}]
                                                   ELSE calls[x]
        BY <4>2, CallsAfter, Zenon
      <4>4. calls[c].id \in DOMAIN leases
        BY <4>1, Zenon DEF IdInv
      <4>5. leases'[calls[c].id].expires_at = now + calls[c].ext * Second
        BY <3>2, <4>4, LeaseOps DEF TypeOK
      <4>6. InHorizon(leases'[calls[c].id], now)
        BY <4>1, <4>5, <1>ExtensionEnds, Zenon DEF HorizonInv, InHorizon, TypeOK
      <4> QED
        BY <3>2, <4>1, <4>3, <4>6 DEF HorizonInv, InHorizon, ExtensionAllowed
    <3> QED
      BY <2>g, <3>1, <3>2, Zenon DEF FinishRenew
  <2>h. CASE Tick
    <3>1. now' = now + 1 /\ UNCHANGED <<leases, calls>>
      BY <2>h, Zenon DEF Tick
    <3>2. ASSUME NEW l \in Leases, InHorizon(l, now) PROVE InHorizon(l, now + 1)
      <4>1. MaxExtensionSecs * Second \in Int
        BY NumberAssumption
      <4>2. now \in Int /\ l.expires_at \in Int
        BY <3>2 DEF TypeOK, Leases
      <4>3. \A m \in Int : l.expires_at <= now + m => l.expires_at <= now + 1 + m
        BY <4>2
      <4> QED
        BY <3>2, <4>1, <4>3, <1>TtlsAreNumbers, Zenon DEF InHorizon
    <3>3. \A c \in Conn : calls[c].pc = "insert" => calls[c].lease \in Leases
      BY CallShape, Zenon DEF TypeOK
    <3> QED
      BY <3>1, <3>2, <3>3, Zenon DEF HorizonInv, TypeOK, ExtensionAllowed
  <2>i. CASE Restart
    <3>1. DOMAIN leases' = {} /\ \A c \in Conn : calls'[c].pc = "idle"
      BY <2>i, Zenon DEF Restart, EmptyMap
    <3> QED
      BY <3>1, Zenon DEF HorizonInv
  <2>j. CASE Calm
    BY <2>j, <2>a, Zenon DEF Calm, Tame, HorizonInv, InHorizon, ExtensionAllowed
  <2> QED
    BY <2>s, <2>b, <2>c, <2>d, <2>e, <2>f, <2>g, <2>h, <2>i, <2>j, StepKinds, Zenon

<1>1. Init => HorizonInv
  BY DEF Init, HorizonInv, EmptyMap
<1>2. TypeOK /\ LifeInv /\ HorizonInv /\ [Next]_vars => HorizonInv'
  BY <1>HorizonStep, Zenon DEF LifeInv
<1>3. HorizonInv => HorizonBounded
  BY Zenon DEF HorizonInv, HorizonBounded, InHorizon
<1> QED
  BY <1>1, <1>2, <1>3, TypeCorrect, LifeInvariant, PTL DEF Spec

-----------------------------------------------------------------------------
(* Uses.                                                                   *)

(* GuardsWithinUses, and an id that is not in use yet has neither guards   *)
(* nor accesses: so a lease enters the map with none.                      *)
UsesInv ==
    /\ GuardsWithinUses
    /\ \A id \in LeaseId : (<<"LeaseGranted", id>> \notin audit \/ Inserting(id)) =>
         guards[id] = 0 /\ Accessing(id) = {}
    /\ \A c \in Conn : calls[c].pc = "insert" => calls[c].lease.use_count = 0

(* GuardsWithinUses for any number of connections: max_uses bounds the     *)
(* secrets a lease ever yields, however its accesses interleave and fail.  *)
THEOREM UseLimit == Spec => []GuardsWithinUses
(* The accesses under way are finitely many.                               *)
<1>AccessingFinite.
      ASSUME NEW id
      PROVE  IsFiniteSet(Accessing(id)) /\ Cardinality(Accessing(id)) \in Nat
  BY <1>AccessingFinite, FS_Subset, FS_CardinalityType, ConnAssumption, Zenon DEF Accessing

(* Steps that grant nothing, insert nothing and let nobody in keep the     *)
(* count.                                                                  *)
<1>UsesFrame.
      ASSUME TypeOK, UsesInv, audit \subseteq audit', guards' = guards,
             \A id \in DOMAIN leases' : /\ id \in DOMAIN leases
                                        /\ leases'[id].max_uses = leases[id].max_uses
                                        /\ leases'[id].use_count = leases[id].use_count,
             \A id \in LeaseId : Accessing(id)' \subseteq Accessing(id),
             \A c \in Conn : calls'[c].pc = "insert" => calls'[c] = calls[c]
      PROVE  UsesInv'
  <2> USE <1>UsesFrame
  <2>1. \A id \in LeaseId : Inserting(id)' => Inserting(id)
    BY Zenon DEF Inserting
  <2>2. GuardsWithinUses'
    <3> SUFFICES ASSUME NEW id \in DOMAIN leases'
                 PROVE  /\ guards'[id] + Cardinality(Accessing(id)') <= leases'[id].use_count
                        /\ \A max \in leases'[id].max_uses : leases'[id].use_count <= max
      BY Zenon DEF GuardsWithinUses
    <3>1. id \in LeaseId /\ id \in DOMAIN leases /\ leases[id] \in Leases
      BY Zenon DEF TypeOK
    <3>2. IsFiniteSet(Accessing(id)) /\ Accessing(id)' \in SUBSET Accessing(id)
      BY <3>1, <1>AccessingFinite, Zenon
    <3>3. /\ Cardinality(Accessing(id)') <= Cardinality(Accessing(id))
          /\ IsFiniteSet(Accessing(id)')
      BY <3>2, FS_Subset, Zenon
    <3>4. Cardinality(Accessing(id)') \in Nat /\ Cardinality(Accessing(id)) \in Nat
      BY <3>2, <3>3, FS_CardinalityType, Zenon
    <3>5. guards[id] \in Nat /\ leases[id].use_count \in Nat
      BY <3>1, Zenon DEF TypeOK, Leases
    <3> QED
      BY <3>1, <3>3, <3>4, <3>5 DEF UsesInv, GuardsWithinUses
  <2>3. \A id \in LeaseId : (<<"LeaseGranted", id>> \notin audit' \/ Inserting(id)') =>
          guards'[id] = 0 /\ Accessing(id)' = {}
    BY <2>1, Zenon DEF UsesInv
  <2>4. \A c \in Conn : calls'[c].pc = "insert" => calls'[c].lease.use_count = 0
    BY Zenon DEF UsesInv
  <2> QED
    BY <2>2, <2>3, <2>4, Zenon DEF UsesInv

(* Every step keeps guards and accesses covered by recorded uses.          *)
<1>UsesStep.
      ASSUME TypeOK, UsesInv, IdInv, [Next]_vars
      PROVE  UsesInv'
  <2> USE <1>UsesStep
  <2>s. ASSUME UNCHANGED vars PROVE UsesInv'
    BY <2>s, Zenon DEF vars, UsesInv, GuardsWithinUses, Inserting, Accessing
  <2>a. ASSUME NEW c \in Conn, NEW k, Goto(c, k), k.pc # "insert",
               k.pc \in {"fetch", "deliver"} =>
                  calls[c].pc \in {"fetch", "deliver"} /\ k.id = calls[c].id,
               audit \subseteq audit', guards' = guards,
               \A id \in DOMAIN leases' :
                  /\ id \in DOMAIN leases
                  /\ leases'[id].max_uses = leases[id].max_uses
                  /\ leases'[id].use_count = leases[id].use_count
        PROVE  UsesInv'
    <3>1. \A x \in Conn : calls'[x] = IF x = c THEN k ELSE calls[x]
      BY <2>a, CallsAfter, Zenon
    <3>2. \A id \in LeaseId : Accessing(id)' \subseteq Accessing(id)
      BY <2>a, <3>1, Zenon DEF Accessing
    <3> QED
      BY <2>a, <3>1, <3>2, <1>UsesFrame, Zenon
  <2>b. ASSUME NEW c \in Conn, CheckCap(c) \/ CheckExists(c) \/ RenewLease(c) PROVE UsesInv'
    <3>1. UNCHANGED <<leases, audit, guards>>
      BY <2>b, Zenon DEF CheckCap, CheckExists, RenewLease
    <3>2. \E k : Goto(c, k) /\ k.pc \in {"idle", "check_exists", "grant", "renew"}
      <4>1. CASE RenewLease(c)
        BY <4>1 DEF RenewLease
      <4> QED
        BY <2>b, <4>1, QuitIsGoto DEF CheckCap, CheckExists
    <3> QED
      BY <3>1, <3>2, <2>a, Zenon
  <2>c. ASSUME NEW c \in Conn, Grant(c) PROVE UsesInv'
    <3>k. PICK id \in FreshLeaseIds : \E k :
            /\ audit' = audit \cup {<<"LeaseGranted", id>>}
            /\ Goto(c, k) /\ k.pc = "insert" /\ k.id = id /\ k.lease.use_count = 0
      BY <2>c DEF Grant, NewLease
    <3>1. PICK k :
            /\ audit' = audit \cup {<<"LeaseGranted", id>>}
            /\ Goto(c, k) /\ k.pc = "insert" /\ k.id = id /\ k.lease.use_count = 0
      BY <3>k, Zenon
    <3>2. UNCHANGED <<leases, guards>> /\ calls[c].pc = "grant"
      BY <2>c, Zenon DEF Grant
    <3>3. \A x \in Conn : calls'[x] = IF x = c THEN k ELSE calls[x]
      BY <3>1, CallsAfter, Zenon
    <3>4. \A i \in LeaseId : Accessing(i)' = Accessing(i)
      BY <3>1, <3>2, <3>3, Zenon DEF Accessing
    <3>5. \A i \in LeaseId : Inserting(i)' => Inserting(i) \/ i = id
      BY <3>1, <3>3, Zenon DEF Inserting
    <3>6. id \in LeaseId /\ <<"LeaseGranted", id>> \notin audit
      BY <3>1, Zenon DEF FreshLeaseIds
    <3>7. GuardsWithinUses'
      BY <3>2, <3>4, Zenon DEF UsesInv, GuardsWithinUses, TypeOK
    <3>8. \A i \in LeaseId : (<<"LeaseGranted", i>> \notin audit' \/ Inserting(i)') =>
            guards'[i] = 0 /\ Accessing(i)' = {}
      BY <3>1, <3>2, <3>4, <3>5, <3>6, Zenon DEF UsesInv
    <3>9. \A x \in Conn : calls'[x].pc = "insert" => calls'[x].lease.use_count = 0
      BY <3>1, <3>3, Zenon DEF UsesInv
    <3> QED
      BY <3>7, <3>8, <3>9, Zenon DEF UsesInv
  <2>d. ASSUME NEW c \in Conn, InsertLease(c) PROVE UsesInv'
    <3>1. /\ calls[c].pc = "insert" /\ UNCHANGED <<audit, guards>>
          /\ leases' = Insert(leases, calls[c].id, calls[c].lease)
      BY <2>d, Zenon DEF InsertLease
    <3>2. PICK k : Goto(c, k) /\ k.pc \in {"idle", "link"}
      BY <2>d, QuitIsGoto DEF InsertLease
    <3>3. \A x \in Conn : calls'[x] = IF x = c THEN k ELSE calls[x]
      BY <3>2, CallsAfter, Zenon
    <3>4. \A i \in LeaseId : Accessing(i)' = Accessing(i) /\ (Inserting(i)' => Inserting(i))
      BY <3>1, <3>2, <3>3, Zenon DEF Accessing, Inserting
    <3>5. /\ calls[c].id \in LeaseId /\ calls[c].lease \in Leases
          /\ guards[calls[c].id] = 0 /\ Accessing(calls[c].id) = {}
          /\ calls[c].lease.use_count = 0
      BY <3>1, CallShape, ZenonT(40) DEF TypeOK, UsesInv, Inserting
    <3>6. \A i \in DOMAIN leases' : i \in LeaseId
            /\ \/ i = calls[c].id /\ leases'[i] = calls[c].lease
               \/ i \in DOMAIN leases /\ leases'[i] = leases[i]
      BY <3>1, <3>5, Zenon DEF Insert, TypeOK
    <3>7. /\ guards[calls[c].id] + Cardinality(Accessing(calls[c].id)) <= 0
          /\ \A max \in calls[c].lease.max_uses : 0 <= max
      <4>1. Cardinality(Accessing(calls[c].id)) = 0
        BY <3>5, FS_EmptySet, Zenon
      <4> QED
        BY <3>5, <4>1 DEF Leases, Option
    <3>8. GuardsWithinUses'
      BY <3>1, <3>4, <3>5, <3>6, <3>7, ZenonT(40) DEF UsesInv, GuardsWithinUses
    <3>9. \A x \in Conn : calls'[x].pc = "insert" => calls'[x].lease.use_count = 0
      BY <3>2, <3>3, Zenon DEF UsesInv
    <3> QED
      BY <3>1, <3>4, <3>8, <3>9, Zenon DEF UsesInv
  <2>e. ASSUME NEW c \in Conn, AccessSecret(c) PROVE UsesInv'
    <3>1. PICK id \in KnownLeases \cap DOMAIN leases, host \in Domain :
            /\ Validate(leases[id], host, now)
            /\ leases' = [leases EXCEPT ![id] = RecordUse(leases[id])]
            /\ Goto(c, [pc |-> "fetch", id |-> id, host |-> host,
                        agent |-> leases[id].agent, secret |-> leases[id].secret_name])
      BY <2>e, Zenon DEF AccessSecret
    <3>2. UNCHANGED <<audit, guards>> /\ calls[c].pc = "idle"
      BY <2>e, Zenon DEF AccessSecret, Idle
    <3>3. PICK k : Goto(c, k) /\ k.pc = "fetch" /\ k.id = id
      BY <3>1
    <3>4. \A x \in Conn : calls'[x] = IF x = c THEN k ELSE calls[x]
      BY <3>3, CallsAfter, Zenon
    <3>5. /\ id \in LeaseId /\ leases[id] \in Leases /\ guards[id] \in Nat
          /\ leases[id].use_count \in Nat
      BY <3>1, Zenon DEF TypeOK, Leases
    <3>6. \A i \in LeaseId : Accessing(i)' = IF i = id THEN Accessing(i) \cup {c}
                                                        ELSE Accessing(i)
      BY <3>2, <3>3, <3>4, Zenon DEF Accessing
    <3>7. \A i \in LeaseId : Inserting(i)' => Inserting(i)
      BY <3>3, <3>4, Zenon DEF Inserting
    <3>8. <<"LeaseGranted", id>> \in audit /\ ~Inserting(id)
      BY <3>1, Zenon DEF KnownLeases, Granting, Inserting
    <3>9. Cardinality(Accessing(id)') <= Cardinality(Accessing(id)) + 1
          /\ Cardinality(Accessing(id)') \in Nat /\ Cardinality(Accessing(id)) \in Nat
      <4> DEFINE A == Accessing(id)
      <4>1. IsFiniteSet(A) /\ Cardinality(A) \in Nat
        BY <1>AccessingFinite, Zenon
      <4>2. Accessing(id)' = A \cup {c}
        BY <3>5, <3>6, Zenon
      <4> HIDE DEF A
      <4>3. /\ IsFiniteSet(A \cup {c})
            /\ Cardinality(A \cup {c}) = IF c \in A THEN Cardinality(A) ELSE Cardinality(A) + 1
        BY <4>1, FS_AddElement, Zenon
      <4>4. Cardinality(A \cup {c}) \in Nat /\ Cardinality(A \cup {c}) <= Cardinality(A) + 1
        BY <4>1, <4>3
      <4> QED
        BY <4>1, <4>2, <4>4, Zenon DEF A
    <3>10. \A i \in DOMAIN leases' :
             /\ i \in DOMAIN leases /\ i \in LeaseId
             /\ leases'[i].max_uses = leases[i].max_uses
             /\ leases'[i].use_count = IF i = id THEN leases[i].use_count + 1
                                                 ELSE leases[i].use_count
      BY <3>1, LeaseOps, SMTT(40) DEF TypeOK
    <3>11. \A max \in leases[id].max_uses : leases[id].use_count + 1 <= max
      BY <3>1, <3>5, SMTT(40) DEF Validate, Exhausted, Leases, Option
    <3>12. guards[id] + Cardinality(Accessing(id)) <= leases[id].use_count
      BY <3>1, Zenon DEF UsesInv, GuardsWithinUses
    <3>13. guards[id] + Cardinality(Accessing(id)') <= leases[id].use_count + 1
      BY <3>5, <3>9, <3>12, SMTT(40)
    <3>14. GuardsWithinUses'
      BY <3>2, <3>6, <3>10, <3>11, <3>13, SMTT(40) DEF UsesInv, GuardsWithinUses
    <3>15. \A i \in LeaseId : (<<"LeaseGranted", i>> \notin audit' \/ Inserting(i)') =>
             guards'[i] = 0 /\ Accessing(i)' = {}
      BY <3>2, <3>6, <3>7, <3>8, Zenon DEF UsesInv
    <3>16. \A x \in Conn : calls'[x].pc = "insert" => calls'[x].lease.use_count = 0
      BY <3>3, <3>4, Zenon DEF UsesInv
    <3> QED
      BY <3>14, <3>15, <3>16, Zenon DEF UsesInv
  <2>f. ASSUME NEW c \in Conn, Deliver(c) PROVE UsesInv'
    <3>3. PICK id \in LeaseId : id = calls[c].id
      BY <2>f, CallShape, Zenon DEF Deliver, TypeOK
    <3>1. /\ calls[c].pc = "deliver" /\ UNCHANGED leases /\ audit \subseteq audit'
          /\ guards' = [guards EXCEPT ![id] = @ + 1]
      BY <2>f, <3>3, Zenon DEF Deliver
    <3>2. Goto(c, [pc |-> "idle"])
      BY <2>f, QuitIsGoto, Zenon DEF Deliver
    <3>4. \A x \in Conn : calls'[x] = IF x = c THEN [pc |-> "idle"] ELSE calls[x]
      BY <3>2, CallsAfter, Zenon
    <3>5. /\ c \in Accessing(id)
          /\ \A i \in LeaseId : Accessing(i)' = IF i = id THEN Accessing(i) \ {c}
                                                           ELSE Accessing(i)
      BY <3>1, <3>3, <3>4, SMTT(40) DEF Accessing
    <3>6. \A i \in LeaseId : Inserting(i)' => Inserting(i)
      BY <3>4 DEF Inserting
    <3>7. \A i \in LeaseId : guards'[i] = IF i = id THEN guards[i] + 1 ELSE guards[i]
      BY <3>1, Zenon DEF TypeOK
    <3>8. /\ Cardinality(Accessing(id)') = Cardinality(Accessing(id)) - 1
          /\ Cardinality(Accessing(id)) \in Nat /\ guards[id] \in Nat
      <4> DEFINE A == Accessing(id)
      <4>1. IsFiniteSet(A) /\ Cardinality(A) \in Nat
        BY <1>AccessingFinite, Zenon
      <4>2. Accessing(id)' = A \ {c} /\ c \in A
        BY <3>3, <3>5, Zenon
      <4> HIDE DEF A
      <4>3. Cardinality(A \ {c}) = Cardinality(A) - 1
        BY <4>1, <4>2, FS_RemoveElement, Zenon
      <4> QED
        BY <3>3, <4>1, <4>2, <4>3, Zenon DEF A, TypeOK
    <3>9. guards'[id] + Cardinality(Accessing(id)') = guards[id] + Cardinality(Accessing(id))
      BY <3>3, <3>7, <3>8
    <3>10. GuardsWithinUses'
      <4> SUFFICES ASSUME NEW i \in DOMAIN leases
                   PROVE  /\ guards'[i] + Cardinality(Accessing(i)') <= leases[i].use_count
                          /\ \A max \in leases[i].max_uses : leases[i].use_count <= max
        BY <3>1, Zenon DEF GuardsWithinUses
      <4>1. i \in LeaseId
        BY Zenon DEF TypeOK
      <4>2. guards'[i] + Cardinality(Accessing(i)') = guards[i] + Cardinality(Accessing(i))
        BY <4>1, <3>5, <3>7, <3>9, Zenon
      <4> QED
        BY <4>2, Zenon DEF UsesInv, GuardsWithinUses
    <3>11. \A i \in LeaseId : (<<"LeaseGranted", i>> \notin audit' \/ Inserting(i)') =>
             guards'[i] = 0 /\ Accessing(i)' = {}
      BY <3>1, <3>3, <3>5, <3>6, <3>7, Zenon DEF UsesInv
    <3>12. \A x \in Conn : calls'[x].pc = "insert" => calls'[x].lease.use_count = 0
      BY <3>4 DEF UsesInv
    <3> QED
      BY <3>10, <3>11, <3>12, Zenon DEF UsesInv
  <2>g. ASSUME NEW c \in Conn, FinishRenew(c) PROVE UsesInv'
    <3>1. UNCHANGED <<audit, guards>> /\ calls[c].pc = "renew" /\ calls[c].id \in DOMAIN leases
      BY <2>g, Zenon DEF FinishRenew, IdInv
    <3>2. \E k : Goto(c, k) /\ k.pc \in {"idle", "audit"}
      <4>1. Return(c) \/ GotoAudit(c, {})
        BY <2>g, Zenon DEF FinishRenew
      <4>2. CASE Return(c)
        BY <4>2, QuitIsGoto
      <4>3. CASE GotoAudit(c, {})
        <5>1. Goto(c, [pc |-> "audit", events |-> {}])
          BY <4>3, QuitIsGoto, Zenon
        <5> QED
          BY <5>1
      <4> QED
        BY <4>1, <4>2, <4>3, Zenon
    <3>3. \A id \in DOMAIN leases' : /\ id \in DOMAIN leases
                                     /\ leases'[id].max_uses = leases[id].max_uses
                                     /\ leases'[id].use_count = leases[id].use_count
      <4>1. UNCHANGED leases \/ leases' = [leases EXCEPT ![calls[c].id] =
                          Renew(leases[calls[c].id], calls[c].ext * Second, now)]
        BY <2>g, Zenon DEF FinishRenew
      <4> QED
        BY <3>1, <4>1, LeaseOps, SMTT(40) DEF TypeOK
    <3> QED
      BY <3>1, <3>2, <3>3, <2>a, Zenon
  <2>h. CASE Tick
    BY <2>h, <1>UsesFrame, Zenon DEF Tick, Accessing
  <2>i. CASE Restart
    <3>1. /\ DOMAIN leases' = {} /\ UNCHANGED <<audit, guards>>
          /\ \A c \in Conn : calls'[c].pc = "idle"
      BY <2>i, Zenon DEF Restart, EmptyMap
    <3> QED
      BY <3>1, <1>UsesFrame, Zenon DEF Accessing
  <2>j. CASE Calm
    <3>1. CASE UNCHANGED calls
      BY <2>j, <3>1, <1>UsesFrame, Zenon DEF Calm, Tame, Accessing
    <3> QED
      BY <2>j, <3>1, <2>a, Zenon DEF Calm, Tame
  <2> QED
    BY <2>s, <2>b, <2>c, <2>d, <2>e, <2>f, <2>g, <2>h, <2>i, <2>j, StepKinds, SMTT(40)

<1>1. Init => UsesInv
  BY DEF Init, UsesInv, GuardsWithinUses, EmptyMap, Accessing
<1>2. TypeOK /\ LifeInv /\ UsesInv /\ [Next]_vars => UsesInv'
  BY <1>UsesStep, Zenon DEF LifeInv
<1>3. UsesInv => GuardsWithinUses
  BY Zenon DEF UsesInv
<1> QED
  BY <1>1, <1>2, <1>3, TypeCorrect, LifeInvariant, PTL DEF Spec

-----------------------------------------------------------------------------
(* The lease cap.                                                          *)

(* CapOvershootBounded; the map is finite, and a lease waiting to be       *)
(* inserted belongs to the agent that requested it.                        *)
CapInv ==
    /\ IsFiniteSet(DOMAIN leases)
    /\ \A c \in Conn : calls[c].pc = "insert" => calls[c].lease.agent = calls[c].req.agent
    /\ CapOvershootBounded

(* The strengthening is an invariant.                                      *)
LEMMA CapInvariant == Spec => []CapInv
(* Both sets that the bound adds up are finite.                            *)
<1>CapFinite.
      ASSUME CapInv, NEW a
      PROVE  /\ IsFiniteSet(Unrevoked(a)) /\ Cardinality(Unrevoked(a)) \in Nat
             /\ IsFiniteSet(Requesting(a)) /\ Cardinality(Requesting(a)) \in Nat
             /\ Cardinality(Requesting(a)) <= Cardinality(Conn)
             /\ Cardinality(Conn) \in Nat
  <2> USE <1>CapFinite
  <2>1. Unrevoked(a) \in SUBSET DOMAIN leases /\ Requesting(a) \in SUBSET Conn
    BY Zenon DEF Unrevoked, Requesting
  <2> QED
    BY <2>1, FS_Subset, FS_CardinalityType, ConnAssumption, Zenon DEF CapInv

(* Steps that let no request past the cap check and insert no lease keep   *)
(* the bound.                                                              *)
<1>CapFrame.
      ASSUME CapInv, NumberAssumption,
             \A id \in DOMAIN leases' : /\ id \in DOMAIN leases
                                        /\ leases'[id].agent = leases[id].agent
                                        /\ leases[id].revoked => leases'[id].revoked,
             \A a \in Agent : Requesting(a)' \subseteq Requesting(a),
             \A c \in Conn : calls'[c].pc = "insert" =>
                                calls'[c].lease.agent = calls'[c].req.agent
      PROVE  CapInv'
  <2> USE <1>CapFrame
  <2>1. IsFiniteSet(DOMAIN leases')
    <3>1. DOMAIN leases' \in SUBSET DOMAIN leases
      BY Zenon
    <3> QED
      BY <3>1, FS_Subset, Zenon DEF CapInv
  <2>2. ASSUME NEW a \in Agent, MaxLeasesPerAgent > 0
        PROVE  Cardinality(Unrevoked(a)') + Cardinality(Requesting(a)')
                 < MaxLeasesPerAgent + Cardinality(Conn)
    <3>1. Unrevoked(a)' \in SUBSET Unrevoked(a) /\ Requesting(a)' \in SUBSET Requesting(a)
      BY Zenon DEF Unrevoked
    <3>2. /\ IsFiniteSet(Unrevoked(a)) /\ Cardinality(Unrevoked(a)) \in Nat
          /\ IsFiniteSet(Requesting(a)) /\ Cardinality(Requesting(a)) \in Nat
          /\ Cardinality(Conn) \in Nat
      BY <1>CapFinite, Zenon
    <3>3. /\ IsFiniteSet(Unrevoked(a)') /\ Cardinality(Unrevoked(a)') <= Cardinality(Unrevoked(a))
          /\ IsFiniteSet(Requesting(a)') /\ Cardinality(Requesting(a)') <= Cardinality(Requesting(a))
      BY <3>1, <3>2, FS_Subset, Zenon
    <3>4. Cardinality(Unrevoked(a)') \in Nat /\ Cardinality(Requesting(a)') \in Nat
      BY <3>3, FS_CardinalityType, Zenon
    <3>5. Cardinality(Unrevoked(a)) + Cardinality(Requesting(a))
            < MaxLeasesPerAgent + Cardinality(Conn)
      BY <2>2, Zenon DEF CapInv, CapOvershootBounded
    <3> QED
      BY <3>2, <3>3, <3>4, <3>5, NumberAssumption, SMTT(40)
  <2> QED
    BY <2>1, <2>2, Zenon DEF CapInv, CapOvershootBounded

(* Every step keeps the overshoot bounded.                                 *)
<1>CapStep.
      ASSUME TypeOK, CapInv, IdInv, [Next]_vars
      PROVE  CapInv'
  <2> USE <1>CapStep
  <2> USE NumberAssumption
  <2>s. ASSUME UNCHANGED vars PROVE CapInv'
    BY <2>s, Zenon DEF vars, CapInv, CapOvershootBounded, Unrevoked, Requesting
  <2>a. ASSUME NEW c \in Conn, NEW k, Goto(c, k),
               k.pc \notin {"check_exists", "grant", "insert"},
               \A id \in DOMAIN leases' : /\ id \in DOMAIN leases
                                          /\ leases'[id].agent = leases[id].agent
                                          /\ leases[id].revoked => leases'[id].revoked
        PROVE  CapInv'
    <3>1. \A x \in Conn : calls'[x] = IF x = c THEN k ELSE calls[x]
      BY <2>a, CallsAfter, Zenon
    <3>2. \A a \in Agent : Requesting(a)' \subseteq Requesting(a)
      BY <2>a, <3>1, Zenon DEF Requesting
    <3>3. \A x \in Conn : calls'[x].pc = "insert" =>
                              calls'[x].lease.agent = calls'[x].req.agent
      BY <2>a, <3>1, Zenon DEF CapInv
    <3> QED
      BY <2>a, <3>2, <3>3, <1>CapFrame, Zenon
  <2>b. ASSUME NEW c \in Conn, CheckCap(c) PROVE CapInv'
    <3>1. UNCHANGED leases /\ calls[c].pc = "check_cap"
      BY <2>b, Zenon DEF CheckCap
    <3>2. CASE Return(c)
      BY <3>1, <3>2, <2>a, QuitIsGoto, Zenon
    <3>3. CASE /\ ~CapReached(calls[c].req.agent)
               /\ Goto(c, [pc |-> "check_exists", req |-> calls[c].req])
      <4>1. \A x \in Conn : calls'[x] = IF x = c THEN [pc |-> "check_exists", req |-> calls[c].req]
                                                   ELSE calls[x]
        BY <3>3, CallsAfter, Zenon
      <4>2. ASSUME NEW a \in Agent, MaxLeasesPerAgent > 0
            PROVE  Cardinality(Unrevoked(a)') + Cardinality(Requesting(a)')
                     < MaxLeasesPerAgent + Cardinality(Conn)
        <5>1. Unrevoked(a)' = Unrevoked(a)
          BY <3>1, Zenon DEF Unrevoked
        <5>2. CASE a = calls[c].req.agent
          <6>1. Requesting(a)' \in SUBSET Conn
            BY Zenon DEF Requesting
          <6>2. Cardinality(Requesting(a)') <= Cardinality(Conn) /\ Cardinality(Conn) \in Nat
                /\ Cardinality(Requesting(a)') \in Nat
            BY <6>1, FS_Subset, FS_CardinalityType, ConnAssumption, Zenon
          <6>3. Cardinality(Unrevoked(a)) < MaxLeasesPerAgent /\ Cardinality(Unrevoked(a)) \in Nat
            BY <3>3, <5>2, <1>CapFinite, SMTT(40) DEF CapReached
          <6> QED
            BY <5>1, <6>2, <6>3
        <5>3. CASE a # calls[c].req.agent
          <6>1. Requesting(a)' = Requesting(a)
            BY <3>1, <4>1, <5>3, SMTT(40) DEF Requesting
          <6> QED
            BY <4>2, <5>1, <6>1, Zenon DEF CapInv, CapOvershootBounded
        <5> QED
          BY <5>2, <5>3, Zenon
      <4> QED
        BY <3>1, <4>1, <4>2, SMTT(40) DEF CapInv, CapOvershootBounded
    <3> QED
      BY <2>b, <3>2, <3>3, Zenon DEF CheckCap
  <2>c. ASSUME NEW c \in Conn, CheckExists(c) \/ Grant(c) PROVE CapInv'
    <3>1. UNCHANGED leases /\ calls[c].pc \in {"check_exists", "grant"}
      BY <2>c, Zenon DEF CheckExists, Grant
    <3>2. CASE Return(c)
      BY <3>1, <3>2, <2>a, QuitIsGoto, Zenon
    <3>3. CASE \E k : Goto(c, k) /\ k.pc \in {"grant", "insert"} /\ k.req = calls[c].req
                     /\ (k.pc = "insert" => k.lease.agent = k.req.agent)
      <4>1. PICK k : Goto(c, k) /\ k.pc \in {"grant", "insert"} /\ k.req = calls[c].req
                     /\ (k.pc = "insert" => k.lease.agent = k.req.agent)
        BY <3>3, Zenon
      <4>2. \A x \in Conn : calls'[x] = IF x = c THEN k ELSE calls[x]
        BY <4>1, CallsAfter, Zenon
      <4>3. \A a \in Agent : Requesting(a)' \subseteq Requesting(a)
        BY <3>1, <4>1, <4>2, Zenon DEF Requesting
      <4>4. \A x \in Conn : calls'[x].pc = "insert" =>
                                calls'[x].lease.agent = calls'[x].req.agent
        BY <4>1, <4>2, Zenon DEF CapInv
      <4> QED
        BY <3>1, <4>3, <4>4, <1>CapFrame, Zenon
    <3>4. CASE Grant(c)
      <4>1. PICK id, l : /\ Goto(c, [pc |-> "insert", req |-> calls[c].req, id |-> id, lease |-> l])
                         /\ \E t : l = NewLease(calls[c].req.agent, calls[c].req.secret,
                                              {calls[c].req.domain}, t, now)
        BY <3>4, ZenonT(40) DEF Grant
      <4>2. l.agent = calls[c].req.agent
        BY <4>1 DEF NewLease
      <4>3. PICK k : k = [pc |-> "insert", req |-> calls[c].req, id |-> id, lease |-> l]
        BY ZenonT(40)
      <4>4. k.pc = "insert" /\ k.req = calls[c].req /\ k.lease = l
        BY <4>3, Zenon
      <4>5. Goto(c, k)
        BY <4>1, <4>3, Zenon
      <4> QED
        BY <3>3, <4>2, <4>4, <4>5, Zenon
    <3> QED
      BY <2>c, <3>2, <3>3, <3>4, SMTT(40) DEF CheckExists
  <2>d. ASSUME NEW c \in Conn, InsertLease(c) PROVE CapInv'
    <3>1. PICK id, l, ag : /\ id = calls[c].id /\ l = calls[c].lease
                           /\ ag = calls[c].req.agent /\ l.agent = ag
      BY <2>d, Zenon DEF InsertLease, CapInv
    <3>2. calls[c].pc = "insert" /\ leases' = Insert(leases, id, l)
      BY <2>d, <3>1, ZenonT(40) DEF InsertLease
    <3>3. PICK k : Goto(c, k) /\ k.pc \in {"idle", "link"}
      BY <2>d, QuitIsGoto DEF InsertLease
    <3>4. \A x \in Conn : calls'[x] = IF x = c THEN k ELSE calls[x]
      BY <3>3, CallsAfter, Zenon
    <3>5. DOMAIN leases' = DOMAIN leases \cup {id}
      BY <3>2, Zenon DEF Insert
    <3>6. IsFiniteSet(DOMAIN leases')
      BY <3>5, FS_AddElement, Zenon DEF CapInv
    <3>7. ASSUME NEW a \in Agent, MaxLeasesPerAgent > 0
          PROVE  Cardinality(Unrevoked(a)') + Cardinality(Requesting(a)')
                   < MaxLeasesPerAgent + Cardinality(Conn)
      <4> DEFINE U == Unrevoked(a)
                 R == Requesting(a)
      <4>1. /\ IsFiniteSet(U) /\ Cardinality(U) \in Nat /\ IsFiniteSet(R)
            /\ Cardinality(R) \in Nat /\ Cardinality(Conn) \in Nat
            /\ Cardinality(U) + Cardinality(R) < MaxLeasesPerAgent + Cardinality(Conn)
        BY <3>7, <1>CapFinite, Zenon DEF CapInv, CapOvershootBounded
      <4>2. CASE a = ag
        <5>1. Unrevoked(a)' \in SUBSET (U \cup {id})
          BY <3>2, Zenon DEF Unrevoked, Insert
        <5>2. Requesting(a)' = R \ {c} /\ c \in R
          BY <3>1, <3>2, <3>3, <3>4, <4>2, Zenon DEF Requesting
        <5> HIDE DEF U, R
        <5>3. /\ IsFiniteSet(U \cup {id}) /\ Cardinality(U \cup {id}) \in Nat
              /\ Cardinality(U \cup {id}) <= Cardinality(U) + 1
          BY <4>1, FS_AddElement, SMTT(40)
        <5>4. /\ Cardinality(Unrevoked(a)') <= Cardinality(U \cup {id})
              /\ IsFiniteSet(Unrevoked(a)')
          BY <5>1, <5>3, FS_Subset, Zenon
        <5>5. Cardinality(Unrevoked(a)') \in Nat
          BY <5>4, FS_CardinalityType, Zenon
        <5>6. Cardinality(Requesting(a)') = Cardinality(R) - 1
          BY <5>2, <4>1, FS_RemoveElement, ZenonT(40)
        <5> QED
          BY <4>1, <5>3, <5>4, <5>5, <5>6, SMTT(40)
      <4>3. CASE a # ag
        <5>1. Unrevoked(a)' \in SUBSET U
          BY <3>1, <3>2, <4>3, Zenon DEF Unrevoked, Insert
        <5>2. Requesting(a)' = R
          BY <3>1, <3>2, <3>3, <3>4, <4>3, Zenon DEF Requesting
        <5> HIDE DEF U, R
        <5>3. Cardinality(Unrevoked(a)') <= Cardinality(U) /\ IsFiniteSet(Unrevoked(a)')
          BY <4>1, <5>1, FS_Subset, Zenon
        <5>4. Cardinality(Unrevoked(a)') \in Nat
          BY <5>3, FS_CardinalityType, Zenon
        <5> QED
          BY <4>1, <5>2, <5>3, <5>4, SMTT(40)
      <4> QED
        BY <4>2, <4>3, Zenon
    <3>8. \A x \in Conn : calls'[x].pc = "insert" =>
                              calls'[x].lease.agent = calls'[x].req.agent
      BY <3>3, <3>4, Zenon DEF CapInv
    <3> QED
      BY <3>6, <3>7, <3>8, Zenon DEF CapInv, CapOvershootBounded
  <2>e. ASSUME NEW c \in Conn, AccessSecret(c) PROVE CapInv'
    <3>1. PICK id \in KnownLeases \cap DOMAIN leases, host \in Domain :
            /\ leases' = [leases EXCEPT ![id] = RecordUse(leases[id])]
            /\ Goto(c, [pc |-> "fetch", id |-> id, host |-> host,
                        agent |-> leases[id].agent, secret |-> leases[id].secret_name])
      BY <2>e, ZenonT(40) DEF AccessSecret
    <3>2. \E k : Goto(c, k) /\ k.pc = "fetch"
      BY <3>1
    <3>3. \A i \in DOMAIN leases' : /\ i \in DOMAIN leases
                                    /\ leases'[i].agent = leases[i].agent
                                    /\ leases[i].revoked => leases'[i].revoked
      BY <3>1, LeaseOps DEF TypeOK
    <3> QED
      BY <3>2, <3>3, <2>a, Zenon
  <2>f. ASSUME NEW c \in Conn, RenewLease(c) PROVE CapInv'
    <3>1. UNCHANGED leases /\ \E k : Goto(c, k) /\ k.pc = "renew"
      BY <2>f, SMTT(40) DEF RenewLease
    <3> QED
      BY <3>1, <2>a, Zenon
  <2>g. ASSUME NEW c \in Conn, FinishRenew(c) \/ Deliver(c) PROVE CapInv'
    <3>1. \A i \in DOMAIN leases' : /\ i \in DOMAIN leases
                                    /\ leases'[i].agent = leases[i].agent
                                    /\ leases[i].revoked => leases'[i].revoked
      <4>1. UNCHANGED leases \/ (/\ leases' = [leases EXCEPT ![calls[c].id] =
                                    Renew(leases[calls[c].id], calls[c].ext * Second, now)]
                                 /\ calls[c].id \in DOMAIN leases)
        BY <2>g, ZenonT(40) DEF FinishRenew, Deliver, IdInv
      <4> QED
        BY <4>1, LeaseOps, SMTT(40) DEF TypeOK
    <3>2. CASE Return(c)
      BY <3>1, <3>2, <2>a, QuitIsGoto, ZenonT(40)
    <3>3. CASE GotoAudit(c, {})
      <4>1. Goto(c, [pc |-> "audit", events |-> {}])
        BY <3>3, QuitIsGoto, Zenon
      <4> QED
        BY <3>1, <4>1, <2>a, Zenon
    <3> QED
      BY <2>g, <3>2, <3>3, Zenon DEF FinishRenew, Deliver
  <2>h. CASE Tick
    <3>1. UNCHANGED <<leases, calls>>
      BY <2>h, Zenon DEF Tick
    <3> QED
      BY <3>1, <1>CapFrame, Zenon DEF Requesting, CapInv
  <2>i. CASE Restart
    <3>1. DOMAIN leases' = {} /\ \A c \in Conn : calls'[c].pc = "idle"
      BY <2>i, Zenon DEF Restart, EmptyMap
    <3> QED
      BY <3>1, <1>CapFrame, Zenon DEF Requesting
  <2>j. CASE Calm
    <3>1. CASE UNCHANGED calls
      <4>1. \A a \in Agent : Requesting(a)' \subseteq Requesting(a)
        BY <3>1, Zenon DEF Requesting
      <4>2. \A c \in Conn : calls'[c].pc = "insert" =>
                                calls'[c].lease.agent = calls'[c].req.agent
        BY <3>1, Zenon DEF CapInv
      <4> QED
        BY <2>j, <4>1, <4>2, <1>CapFrame, Zenon DEF Calm, Tame
    <3> QED
      BY <2>j, <3>1, <2>a, Zenon DEF Calm, Tame
  <2> QED
    BY <2>s, <2>b, <2>c, <2>d, <2>e, <2>f, <2>g, <2>h, <2>i, <2>j, StepKinds, SMTT(40)

<1>1. Init => CapInv
  <2> SUFFICES ASSUME Init PROVE CapInv
    BY Zenon
  <2>1. DOMAIN leases = {} /\ \A c \in Conn : calls[c].pc = "idle"
    BY Zenon DEF Init, EmptyMap
  <2>2. \A a \in Agent : Unrevoked(a) = {} /\ Requesting(a) = {}
    BY <2>1, Zenon DEF Unrevoked, Requesting
  <2>3. Cardinality(Conn) \in Nat /\ Cardinality({}) = 0 /\ IsFiniteSet({})
    BY FS_EmptySet, FS_CardinalityType, ConnAssumption, Zenon
  <2>4. \A a \in Agent : Cardinality(Unrevoked(a)) = 0 /\ Cardinality(Requesting(a)) = 0
    BY <2>2, <2>3, Zenon
  <2>5. CapOvershootBounded
    BY <2>3, <2>4, NumberAssumption DEF CapOvershootBounded
  <2> QED
    BY <2>1, <2>3, <2>5, Zenon DEF CapInv
<1>2. TypeOK /\ LifeInv /\ CapInv /\ [Next]_vars => CapInv'
  BY <1>CapStep, Zenon DEF LifeInv
<1> QED
  BY <1>1, <1>2, TypeCorrect, LifeInvariant, PTL DEF Spec

(* CapOvershootBounded for any number of agents and connections: the race  *)
(* between the cap check and the insertion costs less than one lease per   *)
(* connection.                                                             *)
THEOREM CapOvershoot == Spec => []CapOvershootBounded
<1>1. CapInv => CapOvershootBounded
  BY Zenon DEF CapInv
<1> QED
  BY <1>1, CapInvariant, PTL

------------------------------------------------------------------------------
(* What a session confines and limits, for any number of sessions, leases  *)
(* and concurrent calls: the reach of its leases, their renewals and their *)
(* number.                                                                 *)

\* the steps of a request between the policy check and its return
RequestPcs == {"check_cap", "check_exists", "grant", "insert", "link", "count"}

Created(s) == <<"SessionCreated", s>> \in audit

\* every host the scopes match is allowed by a binding of the session
Bound(s, secret, scopes) ==
    \A host \in Domain : (\E d \in scopes : Matches(d, host)) =>
        \E b \in sessions[s].policy.tool_bindings : BindingAllows(b, secret, host)

\* the lease is as it was drawn for the request
Drawn(lease, req) ==
    /\ lease.secret_name = req.secret
    /\ lease.allowed_domains = {req.domain}
    /\ lease.renewal_count = 0

(* A linked lease names a session that has been created and, while that    *)
(* session is in memory, lies within its bindings and renewal limit.       *)
LinkedInv ==
    \A id \in DOMAIN leases : \A s \in leases[id].session_id :
        /\ Created(s)
        /\ s \in DOMAIN sessions =>
             /\ Bound(s, leases[id].secret_name, leases[id].allowed_domains)
             /\ leases[id].renewal_count <= sessions[s].policy.max_renewals_per_lease

(* So does a request under way, as far as the bindings go.                 *)
RequestInv ==
    \A c \in Conn : calls[c].pc \in RequestPcs =>
        \A s \in calls[c].req.session :
            /\ Created(s)
            /\ s \in DOMAIN sessions =>
                 Bound(s, calls[c].req.secret, {calls[c].req.domain})

(* A lease keeps the scope of its request, and is not renewed, until it is *)
(* linked: nobody but its request knows its id.                            *)
DrawnInv ==
    /\ \A c \in Conn : calls[c].pc = "insert" =>
         Drawn(calls[c].lease, calls[c].req) /\ calls[c].lease.session_id = {}
    /\ \A c \in Conn : calls[c].pc = "link" /\ calls[c].id \in DOMAIN leases =>
         Drawn(leases[calls[c].id], calls[c].req)

SessionInv == LinkedInv /\ RequestInv /\ DrawnInv

-----------------------------------------------------------------------------
\* leases leave the map or are revoked or used, no more
LeasesSame ==
    \A id \in DOMAIN leases' :
        /\ id \in DOMAIN leases
        /\ leases'[id].secret_name = leases[id].secret_name
        /\ leases'[id].allowed_domains = leases[id].allowed_domains
        /\ leases'[id].session_id = leases[id].session_id
        /\ leases'[id].renewal_count = leases[id].renewal_count

\* sessions leave the map or are revoked, no more
SessionsSame ==
    \A s \in DOMAIN sessions' :
        /\ s \in DOMAIN sessions
        /\ sessions'[s].policy = sessions[s].policy
        /\ sessions'[s].active_lease_count = sessions[s].active_lease_count

\* requests go on as what they were, or start outside any session
RequestsFollow ==
    \A c \in Conn :
        /\ calls'[c].pc \in RequestPcs =>
             \/ calls'[c] = calls[c]
             \/ /\ calls'[c].pc \notin {"insert", "link", "count"}
                /\ \/ calls'[c].req.session = {}
                   \/ calls[c].pc \in RequestPcs /\ calls'[c].req = calls[c].req
        /\ calls[c].pc = "count" => calls'[c] = calls[c] \/ DOMAIN sessions' = {}

Plain == LeasesSame /\ SessionsSame /\ RequestsFollow /\ audit \subseteq audit'

(* The fields that the session properties read and that revocation and use *)
(* leave alone.                                                            *)
LEMMA LeaseOpsSame ==
    ASSUME NEW l \in Leases
    PROVE  \A r \in {Revoke(l), RecordUse(l)} :
              /\ r.secret_name = l.secret_name
              /\ r.allowed_domains = l.allowed_domains
              /\ r.session_id = l.session_id
              /\ r.renewal_count = l.renewal_count
BY Zenon DEF Leases, Revoke, RecordUse

(* Bulk revocation.                                                        *)
LEMMA RevokeAllSame ==
    ASSUME TypeOK, NEW ids, RevokeAll(ids)
    PROVE  LeasesSame /\ audit \subseteq audit'
<1>1. LeasesSame
  BY LeaseOpsSame, Zenon DEF TypeOK, RevokeAll, LeasesSame
<1> QED
  BY <1>1, Zenon DEF RevokeAll

(* A call that is at no counting step, and moves to no step of a request.  *)
LEMMA FollowFrame ==
    ASSUME TypeOK, NEW c \in Conn, NEW k, Goto(c, k), calls[c].pc # "count",
           k.pc \in RequestPcs =>
              /\ k.pc \notin {"insert", "link", "count"}
              /\ \/ k.req.session = {}
                 \/ calls[c].pc \in RequestPcs /\ k.req = calls[c].req
    PROVE  RequestsFollow
<1>1. \A x \in Conn : calls'[x] = IF x = c THEN k ELSE calls[x]
  BY CallsAfter
<1> QED
  BY <1>1, Zenon DEF RequestsFollow

(* A scoped request is denied, or goes on for a session that binds the tool. *)
LEMMA ScopedIsGoto ==
    ASSUME NEW c \in Conn, RequestLeaseScoped(c)
    PROVE  \/ \E k : Goto(c, k) /\ k.pc \in {"audit", "denied"}
           \/ \E sid \in KnownSessions \cap DOMAIN sessions,
                 n \in Secret, d \in Domain, tool \in Tool : \E k :
                /\ CheckToolBinding(sessions[sid], tool, n, d)
                /\ ~SessionLimitReached(sessions[sid])
                /\ Goto(c, k) /\ k.pc = "check_cap" /\ k.req.session = {sid}
                /\ k.req.secret = n /\ k.req.domain = d
<1> DEFINE refused == [pc |-> "denied", events |-> {}]
           denied  == [pc |-> "audit", events |-> {}]
<1>1. refused.pc = "denied" /\ denied.pc = "audit"
  OBVIOUS
<1>2. CASE Goto(c, refused)
  BY <1>1, <1>2, Zenon
<1>3. CASE ~Goto(c, refused)
  <2>1. PICK sid \in KnownSessions \cap DOMAIN sessions,
             a \in Agent, n \in Secret, d \in Domain, tool \in Tool :
          /\ CheckToolBinding(sessions[sid], tool, n, d)
          /\ ~SessionLimitReached(sessions[sid])
          /\ BeginRequest(c, [agent |-> a, secret |-> n, domain |-> d,
                              session |-> {sid}])
    BY <1>3, Zenon DEF RequestLeaseScoped
  <2>2. DEFINE req == [agent |-> a, secret |-> n, domain |-> d, session |-> {sid}]
               k   == [pc |-> "check_cap", req |-> req]
  <2>3. /\ k.pc = "check_cap" /\ k.req.session = {sid}
        /\ k.req.secret = n /\ k.req.domain = d
    OBVIOUS
  <2>4. Goto(c, k) \/ GotoAudit(c, {})
    BY <2>1, Zenon DEF BeginRequest
  <2>5. GotoAudit(c, {}) => Goto(c, denied)
    BY QuitIsGoto, Zenon
  <2> HIDE DEF k, denied
  <2> QED
    BY <1>1, <2>1, <2>3, <2>4, <2>5, Zenon
<1> QED
  BY <1>2, <1>3, Zenon

(* Every step is one of seven that matter to sessions, or plain.           *)
LEMMA SessionKinds ==
    ASSUME TypeOK, Next
    PROVE  \/ \E c \in Conn : \/ RequestLeaseScoped(c) \/ Grant(c) \/ InsertLease(c)
                              \/ LinkLease(c) \/ CountLease(c) \/ FinishRenew(c)
                              \/ CreateSession(c)
           \/ Plain
<1>u. (UNCHANGED leases => LeasesSame) /\ (UNCHANGED sessions => SessionsSame)
  BY Zenon DEF LeasesSame, SessionsSame
<1>q. ASSUME NEW c \in Conn, calls[c].pc # "count", Return(c) \/ \E e : GotoAudit(c, e)
      PROVE  RequestsFollow
  <2>1. CASE Return(c)
    <3>1. Goto(c, [pc |-> "idle"])
      BY <2>1, QuitIsGoto, Zenon
    <3> QED
      BY <1>q, <3>1, FollowFrame, Zenon DEF RequestPcs
  <2>2. CASE \E e : GotoAudit(c, e)
    <3>1. PICK e : Goto(c, [pc |-> "audit", events |-> e])
      BY <2>2, QuitIsGoto, Zenon
    <3> QED
      BY <1>q, <3>1, FollowFrame, Zenon DEF RequestPcs
  <2> QED
    BY <1>q, <2>1, <2>2, Zenon
<1>a. ASSUME NEW c \in Conn, RequestLease(c) PROVE Plain
  <2>1. UNCHANGED <<leases, sessions, audit>> /\ calls[c].pc = "idle"
    BY <1>a, Zenon DEF RequestLease, Idle
  <2>2. (\E e : GotoAudit(c, e))
        \/ \E k : Goto(c, k) /\ k.pc = "check_cap" /\ k.req.session = {}
    BY <1>a DEF RequestLease, BeginRequest
  <2>3. RequestsFollow
    BY <2>1, <2>2, <1>q, FollowFrame, Zenon
  <2> QED
    BY <2>1, <2>3, <1>u, Zenon DEF Plain
<1>b. ASSUME NEW c \in Conn, CheckCap(c) \/ CheckExists(c) PROVE Plain
  <2>1. /\ UNCHANGED <<leases, sessions, audit>>
        /\ calls[c].pc \in RequestPcs /\ calls[c].pc # "count"
    BY <1>b, Zenon DEF CheckCap, CheckExists, RequestPcs
  <2>2. Return(c) \/ \E k : Goto(c, k) /\ k.pc \in {"check_exists", "grant"}
                            /\ k.req = calls[c].req
    BY <1>b DEF CheckCap, CheckExists
  <2>3. RequestsFollow
    BY <2>1, <2>2, <1>q, FollowFrame, Zenon
  <2> QED
    BY <2>1, <2>3, <1>u, Zenon DEF Plain
<1>c. ASSUME NEW c \in Conn, AccessSecret(c) PROVE Plain
  <2>1. PICK id \in KnownLeases \cap DOMAIN leases, host \in Domain :
          /\ leases' = [leases EXCEPT ![id] = RecordUse(leases[id])]
          /\ Goto(c, [pc |-> "fetch", id |-> id, host |-> host,
                      agent |-> leases[id].agent, secret |-> leases[id].secret_name])
    BY <1>c, ZenonT(40) DEF AccessSecret
  <2>2. UNCHANGED <<sessions, audit>> /\ calls[c].pc = "idle"
    BY <1>c, Zenon DEF AccessSecret, Idle
  <2>3. \E k : Goto(c, k) /\ k.pc = "fetch"
    BY <2>1
  <2>4. LeasesSame
    BY <2>1, LeaseOpsSame DEF LeasesSame, TypeOK
  <2>5. RequestsFollow
    BY <2>2, <2>3, FollowFrame, Zenon DEF RequestPcs
  <2> QED
    BY <2>2, <2>4, <2>5, <1>u, Zenon DEF Plain
<1>d. ASSUME NEW c \in Conn, Fetch(c) PROVE Plain
  <2>1. UNCHANGED <<leases, sessions, audit>> /\ calls[c].pc = "fetch"
    BY <1>d, Zenon DEF Fetch
  <2>2. CASE Goto(c, [calls[c] EXCEPT !.pc = "deliver"])
    <3>1. [calls[c] EXCEPT !.pc = "deliver"].pc = "deliver"
      BY <2>1, CallShape DEF TypeOK
    <3>2. RequestsFollow
      BY <2>1, <2>2, <3>1, FollowFrame, Zenon DEF RequestPcs
    <3> QED
      BY <2>1, <3>2, <1>u, Zenon DEF Plain
  <2> QED
    BY <1>d, <2>1, <2>2, <1>q, <1>u, Zenon DEF Fetch, Plain
<1>e. ASSUME NEW c \in Conn, RevokeLease(c) PROVE Plain
  <2>1. PICK id \in DOMAIN leases : leases' = [leases EXCEPT ![id] = Revoke(leases[id])]
    BY <1>e, Zenon DEF RevokeLease
  <2>2. LeasesSame
    BY <2>1, LeaseOpsSame DEF LeasesSame, TypeOK
  <2>3. /\ UNCHANGED <<sessions, audit>> /\ calls[c].pc = "idle"
        /\ \E e : GotoAudit(c, e)
    BY <1>e, Zenon DEF RevokeLease, Idle
  <2> QED
    BY <2>2, <2>3, <1>q, <1>u, Zenon DEF Plain
<1>f. ASSUME NEW c \in Conn, RevokeAllForAgent(c) PROVE Plain
  BY <1>f, <1>u, RevokeAllSame, Zenon DEF RevokeAllForAgent, Plain, RequestsFollow
<1>g. ASSUME NEW c \in Conn, DeleteSecret(c) PROVE Plain
  <2>1. PICK k : Goto(c, k) /\ k.pc = "delete"
    BY <1>g DEF DeleteSecret
  <2>2. LeasesSame /\ audit \subseteq audit' /\ UNCHANGED sessions /\ calls[c].pc = "idle"
    BY <1>g, RevokeAllSame, Zenon DEF DeleteSecret, Idle
  <2>3. RequestsFollow
    BY <2>1, <2>2, FollowFrame, Zenon DEF RequestPcs
  <2> QED
    BY <2>2, <2>3, <1>u, Zenon DEF Plain
<1>h. ASSUME NEW c \in Conn, RevokeSession(c) PROVE Plain
  <2>1. PICK k : Goto(c, k) /\ k.pc = "sweep"
    BY <1>h DEF RevokeSession
  <2>2. UNCHANGED <<leases, audit>> /\ calls[c].pc = "idle"
    BY <1>h, Zenon DEF RevokeSession, Idle
  <2>3. SessionsSame
    BY <1>h DEF RevokeSession, SessionsSame, TypeOK, Sessions
  <2>4. RequestsFollow
    BY <2>1, <2>2, FollowFrame, Zenon DEF RequestPcs
  <2> QED
    BY <2>2, <2>3, <2>4, <1>u DEF Plain
<1>i. ASSUME NEW c \in Conn, SweepChildren(c) PROVE Plain
  <2>1. /\ LeasesSame /\ audit \subseteq audit' /\ UNCHANGED sessions
        /\ calls[c].pc = "sweep" /\ GotoAudit(c, {})
    BY <1>i, RevokeAllSame, Zenon DEF SweepChildren
  <2> QED
    BY <2>1, <1>q, <1>u, Zenon DEF Plain
<1>j. ASSUME NEW c \in Conn, RenewLease(c) PROVE Plain
  <2>1. PICK k : Goto(c, k) /\ k.pc = "renew"
    BY <1>j DEF RenewLease
  <2>2. UNCHANGED <<leases, sessions, audit>> /\ calls[c].pc = "idle"
    BY <1>j, Zenon DEF RenewLease, Idle
  <2>3. RequestsFollow
    BY <2>1, <2>2, FollowFrame, Zenon DEF RequestPcs
  <2> QED
    BY <2>2, <2>3, <1>u, Zenon DEF Plain
<1>k. ASSUME NEW c \in Conn,
             \/ StoreSecret(c) \/ DeleteFromStore(c) \/ Deliver(c)
             \/ RecordAndReturn(c) \/ BackendFails(c)
      PROVE  Plain
  <2>1. UNCHANGED <<leases, sessions>> /\ audit \subseteq audit' /\ calls[c].pc # "count"
    BY <1>k, Zenon DEF StoreSecret, DeleteFromStore, Deliver, RecordAndReturn, BackendFails, Idle
  <2>2. Return(c) \/ \E e : GotoAudit(c, e)
    BY <1>k, Zenon DEF StoreSecret, DeleteFromStore, Deliver, RecordAndReturn, BackendFails
  <2> QED
    BY <2>1, <2>2, <1>q, <1>u, Zenon DEF Plain
<1>l. CASE GcLeases \/ GcSessions \/ Tick
  BY <1>l, Zenon DEF GcLeases, GcSessions, Tick, Restrict, Plain, LeasesSame, SessionsSame,
              RequestsFollow
<1>m. CASE Restart
  BY <1>m, Zenon DEF Restart, EmptyMap, Plain, LeasesSame, SessionsSame, RequestsFollow, RequestPcs
<1> QED
  BY <1>a, <1>b, <1>c, <1>d, <1>e, <1>f, <1>g, <1>h, <1>i, <1>j, <1>k, <1>l, <1>m, Zenon
     DEF Next, Invoke, Resume

-----------------------------------------------------------------------------
(* Confinement and renewals.                                               *)

(* The strengthening is an invariant.                                      *)
LEMMA SessionInvariant == Spec => []SessionInv
(* What check_tool_binding allows for a scope it allows for every host the *)
(* scope matches.                                                          *)
<1>BindingReaches.
      ASSUME TypeOK, NEW s \in DOMAIN sessions, NEW tool, NEW secret, NEW d \in Domain,
             CheckToolBinding(sessions[s], tool, secret, d)
      PROVE  Bound(s, secret, {d})
  <2> USE <1>BindingReaches
  <2>1. PICK b \in sessions[s].policy.tool_bindings : BindingAllows(b, secret, d)
    BY Zenon DEF CheckToolBinding
  <2>2. PICK p \in b.allowed_domains : Matches(p, d)
    BY <2>1, Zenon DEF BindingAllows
  <2>3. p \in Seq(STRING)
    BY <2>1, <2>2, SessionPolicyAssumption, Zenon DEF TypeOK, Sessions
  <2>4. ASSUME NEW host \in Domain, Matches(d, host) PROVE BindingAllows(b, secret, host)
    BY <2>1, <2>2, <2>3, <2>4, MatchesTransitive, DomainAssumption, Zenon DEF BindingAllows
  <2> QED
    BY <2>1, <2>4, Zenon DEF Bound

(* Requests that go on as what they were stay confined.                    *)
<1>RequestFrame.
      ASSUME RequestInv, audit \subseteq audit',
             \A s \in DOMAIN sessions' : Created(s) =>
                s \in DOMAIN sessions /\ sessions'[s].policy = sessions[s].policy,
             \A c \in Conn : calls'[c].pc \in RequestPcs =>
                \/ calls'[c].req.session = {}
                \/ calls[c].pc \in RequestPcs /\ calls'[c].req = calls[c].req
      PROVE  RequestInv'
  <2> USE <1>RequestFrame
  <2>1. \A s : Created(s) => Created(s)'
    BY Zenon DEF Created
  <2>2. \A c \in Conn : calls'[c].pc \in RequestPcs =>
          \A s \in calls'[c].req.session :
             /\ Created(s)'
             /\ s \in DOMAIN sessions' =>
                  \A host \in Domain :
                     (\E d \in {calls'[c].req.domain} : Matches(d, host)) =>
                        \E b \in sessions'[s].policy.tool_bindings :
                           BindingAllows(b, calls'[c].req.secret, host)
    BY <2>1, SMTT(40) DEF RequestInv, Bound
  <2> QED
    BY <2>2, Zenon DEF RequestInv, Bound

(* Steps that keep leases, sessions and requests as they are.              *)
<1>SessionFrame.
      ASSUME SessionInv, LeasesSame, RequestsFollow, audit \subseteq audit',
             \A s \in DOMAIN sessions' : Created(s) =>
                s \in DOMAIN sessions /\ sessions'[s].policy = sessions[s].policy
      PROVE  SessionInv'
  <2> USE <1>SessionFrame
  <2>2. \A s : Created(s) => Created(s)'
    BY Zenon DEF Created
  <2>3. \A id \in DOMAIN leases' : \A s \in leases'[id].session_id :
          /\ Created(s)'
          /\ s \in DOMAIN sessions' =>
               /\ Bound(s, leases[id].secret_name, leases[id].allowed_domains)'
               /\ leases'[id].renewal_count <= sessions'[s].policy.max_renewals_per_lease
    <3> SUFFICES ASSUME NEW id \in DOMAIN leases', NEW s \in leases'[id].session_id
                 PROVE  /\ Created(s)'
                        /\ s \in DOMAIN sessions' =>
                             /\ Bound(s, leases[id].secret_name, leases[id].allowed_domains)'
                             /\ leases'[id].renewal_count <=
                                  sessions'[s].policy.max_renewals_per_lease
      BY Zenon
    <3>1. /\ id \in DOMAIN leases /\ s \in leases[id].session_id
          /\ leases'[id].secret_name = leases[id].secret_name
          /\ leases'[id].allowed_domains = leases[id].allowed_domains
          /\ leases'[id].renewal_count = leases[id].renewal_count
      BY Zenon DEF LeasesSame
    <3>2. Created(s) /\ Created(s)'
      BY <3>1, <2>2, Zenon DEF SessionInv, LinkedInv, RequestInv, DrawnInv
    <3>3. ASSUME s \in DOMAIN sessions'
          PROVE  /\ \A host \in Domain :
                       (\E d \in leases'[id].allowed_domains : Matches(d, host)) =>
                          \E b \in sessions'[s].policy.tool_bindings :
                             BindingAllows(b, leases'[id].secret_name, host)
                 /\ leases'[id].renewal_count <= sessions'[s].policy.max_renewals_per_lease
      BY <3>1, <3>2, <3>3, Zenon DEF SessionInv, LinkedInv, RequestInv, DrawnInv, Bound
    <3> QED
      BY <3>2, <3>3, Zenon DEF Bound
  <2>4. \A c \in Conn : calls'[c].pc \in RequestPcs =>
          \/ calls'[c].req.session = {}
          \/ calls[c].pc \in RequestPcs /\ calls'[c].req = calls[c].req
    BY Zenon DEF RequestsFollow
  <2>5. RequestInv'
    BY <2>4, <1>RequestFrame, Zenon DEF SessionInv
  <2>6. \A c \in Conn : calls'[c].pc \in {"insert", "link"} => calls'[c] = calls[c]
    BY Zenon DEF RequestsFollow, RequestPcs
  <2>7. \A c \in Conn : calls'[c].pc = "insert" =>
          Drawn(calls'[c].lease, calls'[c].req) /\ calls'[c].lease.session_id = {}
    BY <2>6, Zenon DEF SessionInv, LinkedInv, RequestInv, DrawnInv
  <2>8. \A c \in Conn : calls'[c].pc = "link" /\ calls'[c].id \in DOMAIN leases' =>
          Drawn(leases'[calls'[c].id], calls'[c].req)
    BY <2>6 DEF SessionInv, LinkedInv, RequestInv, DrawnInv, Drawn, LeasesSame
  <2> QED
    BY <2>3, <2>5, <2>7, <2>8, Zenon DEF SessionInv, LinkedInv, RequestInv, DrawnInv, Bound, Drawn

(* Every step keeps sessions confining their leases.                       *)
<1>SessionStep.
      ASSUME TypeOK, IdInv, SessionInv, [Next]_vars
      PROVE  SessionInv'
  <2> USE <1>SessionStep
  <2>p. CASE Plain
    BY <2>p, <1>SessionFrame, Zenon DEF Plain, SessionsSame
  <2>s. CASE UNCHANGED vars
    BY <2>s, <1>SessionFrame, Zenon DEF vars, LeasesSame, RequestsFollow
  <2>a. ASSUME NEW c \in Conn, RequestLeaseScoped(c) PROVE SessionInv'
    <3>1. UNCHANGED <<leases, sessions, audit>> /\ calls[c].pc = "idle"
      BY <2>a, Zenon DEF RequestLeaseScoped, Idle
    <3>2. CASE \E k : Goto(c, k) /\ k.pc \in {"audit", "denied"}
      <4>1. RequestsFollow
        BY <3>1, <3>2, FollowFrame, Zenon DEF RequestPcs
      <4> QED
        BY <3>1, <4>1, <1>SessionFrame, Zenon DEF LeasesSame
    <3>3. CASE ~\E k : Goto(c, k) /\ k.pc \in {"audit", "denied"}
      <4>1. PICK sid \in KnownSessions \cap DOMAIN sessions,
                 n \in Secret, d \in Domain, tool \in Tool :
              /\ CheckToolBinding(sessions[sid], tool, n, d)
              /\ \E k : /\ Goto(c, k) /\ k.pc = "check_cap" /\ k.req.session = {sid}
                        /\ k.req.secret = n /\ k.req.domain = d
        BY <2>a, <3>3, ScopedIsGoto, SMTT(40)
      <4>2. PICK k : /\ Goto(c, k) /\ k.pc = "check_cap" /\ k.req.session = {sid}
                     /\ k.req.secret = n /\ k.req.domain = d
        BY <4>1, Zenon
      <4>3. \A x \in Conn : calls'[x] = IF x = c THEN k ELSE calls[x]
        BY <4>2, CallsAfter, Zenon
      <4>4. Created(sid) /\ Bound(sid, n, {d})
        BY <4>1, <1>BindingReaches, Zenon DEF KnownSessions, Created
      <4>5. LinkedInv'
        BY <3>1, ZenonT(40) DEF SessionInv, LinkedInv, Created, Bound
      <4>6. RequestInv'
        BY <3>1, <4>2, <4>3, <4>4, ZenonT(40) DEF SessionInv, RequestInv, Created, Bound
      <4>7. DrawnInv'
        BY <3>1, <4>2, <4>3 DEF SessionInv, DrawnInv, Drawn
      <4> QED
        BY <4>5, <4>6, <4>7, Zenon DEF SessionInv
    <3> QED
      BY <3>2, <3>3, Zenon
  <2>b. ASSUME NEW c \in Conn, Grant(c) PROVE SessionInv'
    <3>1. PICK k : /\ Goto(c, k) /\ k.pc = "insert" /\ k.req = calls[c].req
                   /\ Drawn(k.lease, k.req) /\ k.lease.session_id = {}
      <4>1. PICK id, l : /\ Goto(c, [pc |-> "insert", req |-> calls[c].req, id |-> id, lease |-> l])
                         /\ \E t : l = NewLease(calls[c].req.agent, calls[c].req.secret,
                                              {calls[c].req.domain}, t, now)
        BY <2>b, ZenonT(40) DEF Grant
      <4>2. Drawn(l, calls[c].req) /\ l.session_id = {}
        BY <4>1 DEF NewLease, Drawn
      <4>3. PICK k : k = [pc |-> "insert", req |-> calls[c].req, id |-> id, lease |-> l]
        BY Zenon
      <4>4. k.pc = "insert" /\ k.req = calls[c].req /\ k.lease = l
        BY <4>3, Zenon
      <4>5. Goto(c, k)
        BY <4>1, <4>3, Zenon
      <4> QED
        BY <4>2, <4>4, <4>5, Zenon
    <3>2. UNCHANGED <<leases, sessions>> /\ audit \subseteq audit' /\ calls[c].pc = "grant"
      BY <2>b, ZenonT(40) DEF Grant
    <3>3. \A x \in Conn : calls'[x] = IF x = c THEN k ELSE calls[x]
      BY <3>1, CallsAfter, Zenon
    <3>4. LinkedInv'
      BY <3>2, ZenonT(40) DEF SessionInv, LinkedInv, Created, Bound
    <3>5. RequestInv'
      BY <3>1, <3>2, <3>3, <1>RequestFrame, Zenon DEF SessionInv, RequestPcs
    <3>6. DrawnInv'
      BY <3>1, <3>2, <3>3, SMTT(40) DEF SessionInv, DrawnInv, Drawn
    <3> QED
      BY <3>4, <3>5, <3>6, Zenon DEF SessionInv
  <2>c. ASSUME NEW c \in Conn, InsertLease(c) PROVE SessionInv'
    <3>1. /\ calls[c].pc = "insert" /\ UNCHANGED <<sessions, audit>>
          /\ leases' = Insert(leases, calls[c].id, calls[c].lease)
      BY <2>c, Zenon DEF InsertLease
    <3>2. PICK k : /\ Goto(c, k) /\ k.pc \in {"idle", "link"}
                   /\ k.pc = "link" => k.id = calls[c].id /\ k.req = calls[c].req
      BY <2>c, QuitIsGoto DEF InsertLease
    <3>3. \A x \in Conn : calls'[x] = IF x = c THEN k ELSE calls[x]
      BY <3>2, CallsAfter, Zenon
    <3>4. \A i \in DOMAIN leases' :
            \/ i = calls[c].id /\ leases'[i] = calls[c].lease
            \/ i \in DOMAIN leases /\ i # calls[c].id /\ leases'[i] = leases[i]
      BY <3>1, Zenon DEF Insert
    <3>5. calls[c].lease.session_id = {} /\ Drawn(calls[c].lease, calls[c].req)
      BY <3>1, Zenon DEF SessionInv, DrawnInv
    <3>6. \A x \in Conn : x # c /\ calls[x].pc = "link" => calls[x].id # calls[c].id
      BY <3>1, Zenon DEF IdInv
    <3>7. LinkedInv'
      BY <3>1, <3>4, <3>5, ZenonT(40) DEF SessionInv, LinkedInv, Created, Bound
    <3>8. RequestInv'
      BY <3>1, <3>2, <3>3, <1>RequestFrame, Zenon DEF SessionInv, RequestPcs
    <3>9. DrawnInv'
      BY <3>2, <3>3, <3>4, <3>5, <3>6, SMTT(40) DEF SessionInv, DrawnInv, Drawn
    <3> QED
      BY <3>7, <3>8, <3>9, Zenon DEF SessionInv
  <2>d. ASSUME NEW c \in Conn, LinkLease(c) PROVE SessionInv'
    <3>1. /\ calls[c].pc = "link" /\ UNCHANGED <<sessions, audit>>
          /\ leases' = IF calls[c].id \in DOMAIN leases
                       THEN [leases EXCEPT ![calls[c].id].session_id = calls[c].req.session]
                       ELSE leases
      BY <2>d, Zenon DEF LinkLease
    <3>2. PICK k : Goto(c, k) /\ k.pc = "count" /\ k.req = calls[c].req
      BY <2>d DEF LinkLease
    <3>3. \A x \in Conn : calls'[x] = IF x = c THEN k ELSE calls[x]
      BY <3>2, CallsAfter, Zenon
    <3>4. \A i \in DOMAIN leases' :
            /\ i \in DOMAIN leases
            /\ leases'[i].secret_name = leases[i].secret_name
            /\ leases'[i].allowed_domains = leases[i].allowed_domains
            /\ leases'[i].renewal_count = leases[i].renewal_count
            /\ leases'[i].session_id = IF i = calls[c].id THEN calls[c].req.session
                                                          ELSE leases[i].session_id
      BY <3>1, Zenon DEF TypeOK, Leases
    <3>5. calls[c].id \in DOMAIN leases => Drawn(leases[calls[c].id], calls[c].req)
      BY <3>1, Zenon DEF SessionInv, DrawnInv
    <3>6. \A s \in calls[c].req.session :
            Created(s) /\ (s \in DOMAIN sessions =>
               Bound(s, calls[c].req.secret, {calls[c].req.domain}))
      BY <3>1, Zenon DEF SessionInv, RequestInv, RequestPcs
    <3>7. \A s \in DOMAIN sessions : 0 <= sessions[s].policy.max_renewals_per_lease
      BY SessionPolicyAssumption DEF TypeOK, Sessions
    <3>8. LinkedInv'
      <4>1. ASSUME NEW i \in DOMAIN leases', NEW s \in leases'[i].session_id
            PROVE  /\ Created(s)
                   /\ s \in DOMAIN sessions =>
                        /\ \A host \in Domain :
                             (\E d \in leases'[i].allowed_domains : Matches(d, host)) =>
                                \E b \in sessions[s].policy.tool_bindings :
                                   BindingAllows(b, leases'[i].secret_name, host)
                        /\ leases'[i].renewal_count <=
                             sessions[s].policy.max_renewals_per_lease
        <5>1. CASE i = calls[c].id
          <6>1. /\ leases'[i].secret_name = calls[c].req.secret
                /\ leases'[i].allowed_domains = {calls[c].req.domain}
                /\ leases'[i].renewal_count = 0 /\ s \in calls[c].req.session
            BY <4>1, <5>1, <3>4, <3>5, Zenon DEF Drawn
          <6> QED
            BY <6>1, <3>6, <3>7, Zenon DEF Bound
        <5>2. CASE i # calls[c].id
          BY <4>1, <5>2, <3>4, Zenon DEF SessionInv, LinkedInv, Bound
        <5> QED
          BY <5>1, <5>2, Zenon
      <4>2. sessions' = sessions /\ audit' = audit
        BY <3>1, Zenon
      <4>3. \A i \in DOMAIN leases' : \A s \in leases'[i].session_id :
              /\ Created(s)'
              /\ s \in DOMAIN sessions' =>
                   /\ \A host \in Domain :
                        (\E d \in leases'[i].allowed_domains : Matches(d, host)) =>
                           \E b \in sessions'[s].policy.tool_bindings :
                              BindingAllows(b, leases'[i].secret_name, host)
                   /\ leases'[i].renewal_count <=
                        sessions'[s].policy.max_renewals_per_lease
        BY <4>1, <4>2, ZenonT(40) DEF Created
      <4> QED
        BY <4>3, Zenon DEF LinkedInv, Bound
    <3>9. RequestInv'
      BY <3>1, <3>2, <3>3, <1>RequestFrame, Zenon DEF SessionInv, RequestPcs
    <3>10. DrawnInv'
      BY <3>2, <3>3, <3>4, SMTT(40) DEF SessionInv, DrawnInv, Drawn
    <3> QED
      BY <3>8, <3>9, <3>10, Zenon DEF SessionInv
  <2>e. ASSUME NEW c \in Conn, CountLease(c) PROVE SessionInv'
    <3>1. UNCHANGED <<leases, audit>> /\ Goto(c, [pc |-> "idle"])
      BY <2>e, QuitIsGoto, Zenon DEF CountLease
    <3>2. DOMAIN sessions' = DOMAIN sessions
          /\ \A s \in DOMAIN sessions : sessions'[s].policy = sessions[s].policy
      BY <2>e, Zenon DEF CountLease, TypeOK, Sessions
    <3>3. \A x \in Conn : calls'[x] = IF x = c THEN [pc |-> "idle"] ELSE calls[x]
      BY <3>1, CallsAfter, Zenon
    <3>4. LinkedInv'
      BY <3>1, <3>2, ZenonT(40) DEF SessionInv, LinkedInv, Created, Bound
    <3>5. RequestInv'
      BY <3>1, <3>2, <3>3, <1>RequestFrame, SMTT(40) DEF SessionInv, RequestPcs
    <3>6. DrawnInv'
      BY <3>1, <3>3, SMTT(40) DEF SessionInv, DrawnInv, Drawn
    <3> QED
      BY <3>4, <3>5, <3>6, Zenon DEF SessionInv
  <2>f. ASSUME NEW c \in Conn, FinishRenew(c) PROVE SessionInv'
    <3>1. PICK id : id = calls[c].id
      BY Zenon
    <3>2. calls[c].pc = "renew" /\ UNCHANGED <<sessions, audit>> /\ id \in DOMAIN leases
      BY <2>f, <3>1, Zenon DEF FinishRenew, IdInv
    <3>3. \A x \in Conn : calls[x].pc = "link" => calls[x].id # id
      BY <3>1, <3>2, Zenon DEF IdInv, Granting
    <3>4. CASE Return(c) /\ UNCHANGED leases
      <4>1. Goto(c, [pc |-> "idle"])
        BY <3>4, QuitIsGoto, Zenon
      <4>2. RequestsFollow
        BY <3>2, <4>1, FollowFrame, SMTT(40) DEF RequestPcs
      <4> QED
        BY <3>2, <3>4, <4>2, <1>SessionFrame, Zenon DEF LeasesSame
    <3>5. CASE /\ ~RenewalLimitReached(leases[id])
               /\ leases' = [leases EXCEPT ![id] =
                                Renew(leases[id], calls[c].ext * Second, now)]
               /\ GotoAudit(c, {})
      <4>1. Goto(c, [pc |-> "audit", events |-> {}])
        BY <3>5, QuitIsGoto, Zenon
      <4>2. \A x \in Conn : calls'[x] = IF x = c THEN [pc |-> "audit", events |-> {}]
                                                   ELSE calls[x]
        BY <4>1, CallsAfter, Zenon
      <4>3. \A i \in DOMAIN leases' :
              /\ i \in DOMAIN leases
              /\ leases'[i].secret_name = leases[i].secret_name
              /\ leases'[i].allowed_domains = leases[i].allowed_domains
              /\ leases'[i].session_id = leases[i].session_id
              /\ leases'[i].renewal_count = IF i = id THEN leases[i].renewal_count + 1
                                                      ELSE leases[i].renewal_count
        BY <3>2, <3>5, Zenon DEF TypeOK, Leases, Renew
      <4>4. \A s \in leases[id].session_id : s \in DOMAIN sessions =>
              leases[id].renewal_count + 1 <= sessions[s].policy.max_renewals_per_lease
        <5>1. leases[id].renewal_count \in Nat
          BY <3>2, Zenon DEF TypeOK, Leases
        <5>2. \A s \in DOMAIN sessions : sessions[s].policy.max_renewals_per_lease \in Nat
          BY SessionPolicyAssumption, Zenon DEF TypeOK, Sessions
        <5> QED
          BY <3>5, <5>1, <5>2, SMTT(40) DEF RenewalLimitReached
      <4>5. LinkedInv'
        BY <3>2, <4>3, <4>4, ZenonT(40) DEF SessionInv, LinkedInv, Created, Bound
      <4>6. RequestInv'
        BY <3>2, <4>2, <1>RequestFrame, SMTT(40) DEF SessionInv, RequestPcs
      <4>7. DrawnInv'
        BY <3>3, <4>2, <4>3, SMTT(40) DEF SessionInv, DrawnInv, Drawn
      <4> QED
        BY <4>5, <4>6, <4>7, Zenon DEF SessionInv
    <3> QED
      BY <2>f, <3>1, <3>4, <3>5, Zenon DEF FinishRenew
  <2>g. ASSUME NEW c \in Conn, CreateSession(c) PROVE SessionInv'
    <3>1. PICK n \in FreshSessionIds, p \in SessionPolicies :
            sessions' = Insert(sessions, n, NewSession(p, now))
      BY <2>g, Zenon DEF CreateSession
    <3>2. PICK e : Goto(c, [pc |-> "audit", events |-> e])
      BY <2>g, QuitIsGoto, Zenon DEF CreateSession
    <3>3. UNCHANGED <<leases, audit>> /\ calls[c].pc = "idle" /\ ~Created(n)
      BY <2>g, Zenon DEF CreateSession, Idle, FreshSessionIds, Created
    <3>4. \A s \in DOMAIN sessions' : Created(s) =>
            s \in DOMAIN sessions /\ sessions'[s].policy = sessions[s].policy
      BY <3>1, <3>3, Zenon DEF Insert
    <3>5. RequestsFollow
      BY <3>2, <3>3, FollowFrame, Zenon DEF RequestPcs
    <3> QED
      BY <3>3, <3>4, <3>5, <1>SessionFrame, Zenon DEF LeasesSame
  <2> QED
    BY <2>p, <2>s, <2>a, <2>b, <2>c, <2>d, <2>e, <2>f, <2>g, SessionKinds, Zenon

<1>1. Init => SessionInv
  BY DEF Init, EmptyMap, SessionInv, LinkedInv, RequestInv, DrawnInv, RequestPcs
<1>2. TypeOK /\ LifeInv /\ SessionInv /\ [Next]_vars => SessionInv'
  BY <1>SessionStep, Zenon DEF LifeInv
<1> QED
  BY <1>1, <1>2, TypeCorrect, LifeInvariant, PTL DEF Spec

(* BindingConfinement for any policies and interleaving: the bindings      *)
(* checked for the requested scope confine every host the linked lease     *)
(* reaches.                                                                *)
THEOREM SessionConfinement == Spec => []BindingConfinement
<1>1. SessionInv => BindingConfinement
  BY Zenon DEF SessionInv, LinkedInv, Bound, BindingConfinement
<1> QED
  BY <1>1, SessionInvariant, PTL

(* RenewalLimitHeld: no renewal slips in between the insertion of a lease  *)
(* and its link to the session, so the session's limit counts them all.    *)
THEOREM RenewalLimit == Spec => []RenewalLimitHeld
<1>1. SessionInv => RenewalLimitHeld
  BY Zenon DEF SessionInv, LinkedInv, RenewalLimitHeld
<1> QED
  BY <1>1, SessionInvariant, PTL

-----------------------------------------------------------------------------
(* The number of leases.                                                   *)

\* requests that passed the session's limit and are not counted yet
InFlight(s) == {c \in Conn : calls[c].pc \in RequestPcs /\ calls[c].req.session = {s}}

(* The limit of one session, with the requests that passed it added in.    *)
Limits(s) ==
    /\ Cardinality(Children(s)) <=
         sessions[s].active_lease_count + Cardinality(Counting(s))
    /\ sessions[s].policy.max_concurrent_leases > 0 =>
         sessions[s].active_lease_count + Cardinality(InFlight(s))
           < sessions[s].policy.max_concurrent_leases + Cardinality(Conn)

SessionLimitInv == \A s \in DOMAIN sessions : Limits(s)

(* SessionLimitOvershootBounded for any number of sessions and             *)
(* connections: however scoped requests race, each is counted once, and    *)
(* the count overshoots the session's limit by less than one lease per     *)
(* connection.                                                             *)
THEOREM SessionLimit == Spec => []SessionLimitOvershootBounded
(* The sets that are counted are finite.                                   *)
<1>SessionSetsFinite.
      ASSUME CapInv, NEW s
      PROVE  /\ IsFiniteSet(Children(s)) /\ Cardinality(Children(s)) \in Nat
             /\ IsFiniteSet(Counting(s)) /\ Cardinality(Counting(s)) \in Nat
             /\ IsFiniteSet(InFlight(s)) /\ Cardinality(InFlight(s)) \in Nat
             /\ Cardinality(InFlight(s)) <= Cardinality(Conn)
             /\ Cardinality(Conn) \in Nat
  <2> USE <1>SessionSetsFinite
  <2>1. /\ Children(s) \in SUBSET DOMAIN leases
        /\ Counting(s) \in SUBSET Conn /\ InFlight(s) \in SUBSET Conn
    BY Zenon DEF Children, Counting, InFlight
  <2> QED
    BY <2>1, FS_Subset, FS_CardinalityType, ConnAssumption, Zenon DEF CapInv

(* The numbers of a session.                                               *)
<1>SessionNumbers.
      ASSUME TypeOK, NEW s \in DOMAIN sessions
      PROVE  /\ sessions[s].active_lease_count \in Nat
             /\ sessions[s].policy.max_concurrent_leases \in Nat
  BY <1>SessionNumbers, SessionPolicyAssumption, Zenon DEF TypeOK, Sessions

(* A session whose count stands keeps its limits when it gains no lease    *)
(* and no request.                                                         *)
<1>LimitsFrame.
      ASSUME TypeOK, CapInv, NEW s \in DOMAIN sessions', s \in DOMAIN sessions,
             Limits(s),
             sessions'[s].policy = sessions[s].policy,
             sessions'[s].active_lease_count = sessions[s].active_lease_count,
             Children(s)' \subseteq Children(s), Counting(s) \subseteq Counting(s)',
             InFlight(s)' \subseteq InFlight(s)
      PROVE  Limits(s)'
  <2> USE <1>LimitsFrame
  <2>1. /\ IsFiniteSet(Children(s)) /\ Cardinality(Children(s)) \in Nat
        /\ Cardinality(Counting(s)) \in Nat
        /\ IsFiniteSet(InFlight(s)) /\ Cardinality(InFlight(s)) \in Nat
        /\ Cardinality(Conn) \in Nat
    BY <1>SessionSetsFinite, Zenon
  <2>3. /\ Cardinality(Children(s)') <= Cardinality(Children(s)) /\ IsFiniteSet(Children(s)')
        /\ Cardinality(InFlight(s)') <= Cardinality(InFlight(s)) /\ IsFiniteSet(InFlight(s)')
    <3>1. Children(s)' \in SUBSET Children(s) /\ InFlight(s)' \in SUBSET InFlight(s)
      BY Zenon
    <3> QED
      BY <2>1, <3>1, FS_Subset, Zenon
  <2>4. Cardinality(Counting(s)) <= Cardinality(Counting(s)') /\ IsFiniteSet(Counting(s)')
    <3>1. Counting(s)' \in SUBSET Conn /\ Counting(s) \in SUBSET Counting(s)'
      BY Zenon DEF Counting
    <3>2. IsFiniteSet(Counting(s)')
      BY <3>1, FS_Subset, ConnAssumption, Zenon
    <3> QED
      BY <3>1, <3>2, FS_Subset, Zenon
  <2>5. /\ Cardinality(Children(s)') \in Nat /\ Cardinality(InFlight(s)') \in Nat
        /\ Cardinality(Counting(s)') \in Nat
    BY <2>3, <2>4, FS_CardinalityType, Zenon
  <2>6. /\ sessions[s].active_lease_count \in Nat
        /\ sessions[s].policy.max_concurrent_leases \in Nat
    BY <1>SessionNumbers, Zenon
  <2>7. Cardinality(Children(s)') <= sessions'[s].active_lease_count + Cardinality(Counting(s)')
    BY <2>1, <2>3, <2>4, <2>5, <2>6, SMTT(40) DEF Limits
  <2>8. sessions'[s].policy.max_concurrent_leases > 0 =>
          sessions'[s].active_lease_count + Cardinality(InFlight(s)')
            < sessions'[s].policy.max_concurrent_leases + Cardinality(Conn)
    BY <2>1, <2>3, <2>5, <2>6, SMTT(40) DEF Limits
  <2> QED
    BY <2>7, <2>8, Zenon DEF Limits

(* Every step keeps the limits of every session.                           *)
<1>SessionLimitStep.
      ASSUME TypeOK, IdInv, CapInv, SessionInv, SessionLimitInv, [Next]_vars
      PROVE  SessionLimitInv'
  <2> USE <1>SessionLimitStep
  <2>f. ASSUME NEW s \in DOMAIN sessions', s \in DOMAIN sessions,
               sessions'[s].policy = sessions[s].policy,
               sessions'[s].active_lease_count = sessions[s].active_lease_count,
               Children(s)' \subseteq Children(s), Counting(s) \subseteq Counting(s)',
               InFlight(s)' \subseteq InFlight(s)
        PROVE  Limits(s)'
    BY <2>f, <1>LimitsFrame, Zenon DEF SessionLimitInv
  <2>p. CASE Plain
    <3> SUFFICES ASSUME NEW s \in DOMAIN sessions' PROVE Limits(s)'
      BY Zenon DEF SessionLimitInv
    <3>1. Children(s)' \subseteq Children(s)
      BY <2>p, Zenon DEF Plain, LeasesSame, Children
    <3>2. Counting(s) \subseteq Counting(s)'
      BY <2>p, Zenon DEF Plain, RequestsFollow, Counting
    <3>3. InFlight(s)' \subseteq InFlight(s)
      BY <2>p, Zenon DEF Plain, RequestsFollow, InFlight
    <3> QED
      BY <2>p, <3>1, <3>2, <3>3, <2>f, Zenon DEF Plain, SessionsSame
  <2>s. CASE UNCHANGED vars
    BY <2>s, Zenon DEF vars, SessionLimitInv, Limits, Children, Counting, InFlight
  <2>a. ASSUME NEW c \in Conn, RequestLeaseScoped(c) PROVE SessionLimitInv'
    <3>1. UNCHANGED <<leases, sessions>> /\ calls[c].pc = "idle"
      BY <2>a, Zenon DEF RequestLeaseScoped, Idle
    <3> SUFFICES ASSUME NEW s \in DOMAIN sessions PROVE Limits(s)'
      BY <3>1, Zenon DEF SessionLimitInv
    <3>2. Children(s)' = Children(s)
      BY <3>1, Zenon DEF Children
    <3>3. PICK k : /\ Goto(c, k) /\ k.pc \in {"check_cap", "audit", "denied"}
                   /\ k.pc = "check_cap" => \E sid \in DOMAIN sessions :
                        k.req.session = {sid} /\ ~SessionLimitReached(sessions[sid])
      BY <2>a, ScopedIsGoto, Zenon
    <3>4. \A x \in Conn : calls'[x] = IF x = c THEN k ELSE calls[x]
      BY <3>3, CallsAfter, Zenon
    <3>5. Counting(s)' = Counting(s)
      BY <3>1, <3>3, <3>4, Zenon DEF Counting
    <3>6. CASE k.pc = "check_cap" /\ k.req.session = {s}
      <4>1. sessions[s].active_lease_count < sessions[s].policy.max_concurrent_leases
        BY <3>3, <3>6, <1>SessionNumbers, SMTT(40) DEF SessionLimitReached
      <4>2. InFlight(s)' \in SUBSET Conn
        BY Zenon DEF InFlight
      <4>3. Cardinality(InFlight(s)') <= Cardinality(Conn) /\ Cardinality(Conn) \in Nat
            /\ Cardinality(InFlight(s)') \in Nat
        BY <4>2, FS_Subset, FS_CardinalityType, ConnAssumption, Zenon
      <4>4. sessions[s].active_lease_count + Cardinality(InFlight(s)')
              < sessions[s].policy.max_concurrent_leases + Cardinality(Conn)
        BY <4>1, <4>3, <1>SessionNumbers
      <4>5. Limits(s)
        BY Zenon DEF SessionLimitInv
      <4> QED
        BY <3>1, <3>2, <3>5, <4>4, <4>5, Zenon DEF Limits
    <3>7. CASE ~(k.pc = "check_cap" /\ k.req.session = {s})
      <4>1. InFlight(s)' \subseteq InFlight(s)
        BY <3>1, <3>3, <3>4, <3>7, Zenon DEF InFlight, RequestPcs
      <4> QED
        BY <3>1, <3>2, <3>5, <4>1, <2>f, Zenon
    <3> QED
      BY <3>6, <3>7, Zenon
  <2>b. ASSUME NEW c \in Conn, Grant(c) \/ InsertLease(c) PROVE SessionLimitInv'
    <3>1. UNCHANGED sessions /\ calls[c].pc \in {"grant", "insert"}
      BY <2>b, ZenonT(40) DEF Grant, InsertLease
    <3>2. PICK k : /\ Goto(c, k) /\ k.pc \in {"insert", "link", "idle"}
                   /\ k.pc # "idle" => k.req = calls[c].req
      <4>1. CASE Grant(c)
        BY <4>1, SMTT(40) DEF Grant
      <4>2. CASE InsertLease(c)
        <5>1. \/ Return(c)
              \/ Goto(c, [pc |-> "link", req |-> calls[c].req, id |-> calls[c].id])
          BY <4>2, Zenon DEF InsertLease
        <5>2. CASE Return(c)
          BY <5>2, QuitIsGoto
        <5>3. CASE Goto(c, [pc |-> "link", req |-> calls[c].req, id |-> calls[c].id])
          BY <5>3
        <5> QED
          BY <5>1, <5>2, <5>3, Zenon
      <4> QED
        BY <2>b, <4>1, <4>2, Zenon
    <3>3. \A x \in Conn : calls'[x] = IF x = c THEN k ELSE calls[x]
      BY <3>2, CallsAfter, Zenon
    <3> SUFFICES ASSUME NEW s \in DOMAIN sessions PROVE Limits(s)'
      BY <3>1, Zenon DEF SessionLimitInv
    <3>4. Children(s)' \subseteq Children(s)
      <4>1. CASE Grant(c)
        BY <4>1, Zenon DEF Grant, Children
      <4>2. CASE InsertLease(c)
        <5>1. calls[c].lease.session_id = {}
          BY <4>2, Zenon DEF InsertLease, SessionInv, DrawnInv
        <5>2. \A id \in DOMAIN leases' :
                \/ leases'[id] = calls[c].lease
                \/ id \in DOMAIN leases /\ leases'[id] = leases[id]
          BY <4>2, Zenon DEF InsertLease, Insert
        <5> QED
          BY <5>1, <5>2, ZenonT(40) DEF Children
      <4> QED
        BY <2>b, <4>1, <4>2, Zenon
    <3>5. Counting(s)' = Counting(s)
      BY <3>1, <3>2, <3>3, Zenon DEF Counting
    <3>6. InFlight(s)' \subseteq InFlight(s)
      BY <3>1, <3>2, <3>3, Zenon DEF InFlight, RequestPcs
    <3> QED
      BY <3>1, <3>4, <3>5, <3>6, <2>f, Zenon
  <2>c. ASSUME NEW c \in Conn, LinkLease(c) PROVE SessionLimitInv'
    <3>1. PICK id, req : id = calls[c].id /\ req = calls[c].req
      BY Zenon
    <3>2. /\ calls[c].pc = "link" /\ UNCHANGED sessions
          /\ leases' = IF id \in DOMAIN leases
                       THEN [leases EXCEPT ![id].session_id = req.session]
                       ELSE leases
      BY <2>c, <3>1, Zenon DEF LinkLease
    <3>3. PICK k : Goto(c, k) /\ k.pc = "count" /\ k.req = req
      BY <2>c, <3>1 DEF LinkLease
    <3>4. \A x \in Conn : calls'[x] = IF x = c THEN k ELSE calls[x]
      BY <3>3, CallsAfter, Zenon
    <3> SUFFICES ASSUME NEW s \in DOMAIN sessions PROVE Limits(s)'
      BY <3>2, Zenon DEF SessionLimitInv
    <3>5. InFlight(s)' = InFlight(s)
      BY <3>1, <3>2, <3>3, <3>4, Zenon DEF InFlight, RequestPcs
    <3>6. \A i \in DOMAIN leases' : i \in DOMAIN leases /\
            leases'[i].session_id = IF i = id THEN req.session ELSE leases[i].session_id
      BY <3>2, Zenon DEF TypeOK, Leases
    <3>7. CASE req.session = {s}
      <4> DEFINE H == Children(s)
                 N == Counting(s)
      <4>1. /\ IsFiniteSet(H) /\ Cardinality(H) \in Nat /\ IsFiniteSet(N)
            /\ Cardinality(N) \in Nat
        BY <1>SessionSetsFinite, Zenon
      <4>2. Children(s)' \in SUBSET (H \cup {id})
        BY <3>6, Zenon DEF Children
      <4>3. Counting(s)' = N \cup {c} /\ c \notin N
        BY <3>2, <3>3, <3>4, <3>7, Zenon DEF Counting
      <4>l. Limits(s)
        BY Zenon DEF SessionLimitInv
      <4>m. Cardinality(H) <= sessions[s].active_lease_count + Cardinality(N)
        BY <4>l, Zenon DEF Limits
      <4> HIDE DEF H, N
      <4>4. /\ IsFiniteSet(H \cup {id}) /\ Cardinality(H \cup {id}) \in Nat
            /\ Cardinality(H \cup {id}) <= Cardinality(H) + 1
        <5>1. /\ IsFiniteSet(H \cup {id})
              /\ Cardinality(H \cup {id}) = IF id \in H THEN Cardinality(H) ELSE Cardinality(H) + 1
          BY <4>1, FS_AddElement, Zenon
        <5> QED
          BY <4>1, <5>1
      <4>5. Cardinality(Children(s)') <= Cardinality(H \cup {id}) /\ IsFiniteSet(Children(s)')
        BY <4>2, <4>4, FS_Subset, Zenon
      <4>6. Cardinality(Children(s)') \in Nat
        BY <4>5, FS_CardinalityType, Zenon
      <4>7. Cardinality(Counting(s)') = Cardinality(N) + 1
        BY <4>1, <4>3, FS_AddElement, Zenon
      <4>8. Cardinality(Children(s)') <= sessions[s].active_lease_count + Cardinality(Counting(s)')
        BY <4>1, <4>4, <4>5, <4>6, <4>7, <4>m, <1>SessionNumbers, SMTT(40)
      <4> QED
        BY <3>2, <3>5, <4>8, <4>l, Zenon DEF Limits
    <3>8. CASE req.session # {s}
      <4>1. Children(s)' \subseteq Children(s)
        BY <3>6, <3>8, Zenon DEF Children
      <4>2. Counting(s)' = Counting(s)
        BY <3>2, <3>3, <3>4, <3>8, Zenon DEF Counting
      <4> QED
        BY <3>2, <3>5, <4>1, <4>2, <2>f, Zenon
    <3> QED
      BY <3>7, <3>8, Zenon
  <2>d. ASSUME NEW c \in Conn, CountLease(c) PROVE SessionLimitInv'
    <3>1. PICK ses : ses = calls[c].req.session
      BY Zenon
    <3>2. /\ calls[c].pc = "count" /\ UNCHANGED leases
          /\ sessions' = [s \in DOMAIN sessions |->
                            IF s \in ses
                            THEN [sessions[s] EXCEPT !.active_lease_count = @ + 1]
                            ELSE sessions[s]]
      BY <2>d, <3>1, Zenon DEF CountLease
    <3>3. PICK k : Goto(c, k) /\ k.pc = "idle"
      BY <2>d, QuitIsGoto DEF CountLease
    <3>4. \A x \in Conn : calls'[x] = IF x = c THEN k ELSE calls[x]
      BY <3>3, CallsAfter, Zenon
    <3>5. DOMAIN sessions' = DOMAIN sessions
      BY <3>2, Zenon
    <3> SUFFICES ASSUME NEW s \in DOMAIN sessions PROVE Limits(s)'
      BY <3>5, Zenon DEF SessionLimitInv
    <3>6. Children(s)' = Children(s)
      BY <3>2, Zenon DEF Children
    <3>7. CASE s \in ses
      <4>1. ses = {s}
        <5>1. calls[c].req \in Requests
          BY <3>2, CallShape, Zenon DEF TypeOK
        <5> QED
          BY <3>1, <3>7, <5>1, Zenon DEF Requests, Option
      <4> DEFINE F == InFlight(s)
                 N == Counting(s)
      <4>2. /\ IsFiniteSet(F) /\ Cardinality(F) \in Nat /\ IsFiniteSet(N)
            /\ Cardinality(N) \in Nat /\ Cardinality(Conn) \in Nat
            /\ Cardinality(Children(s)) \in Nat
        BY <1>SessionSetsFinite, Zenon
      <4>3. Counting(s)' = N \ {c} /\ c \in N
        BY <3>1, <3>2, <3>3, <3>4, <4>1, Zenon DEF Counting
      <4>4. InFlight(s)' = F \ {c} /\ c \in F
        BY <3>1, <3>2, <3>3, <3>4, <4>1, ZenonT(40) DEF InFlight, RequestPcs
      <4>l. Limits(s)
        BY Zenon DEF SessionLimitInv
      <4>m. /\ Cardinality(Children(s)) <= sessions[s].active_lease_count + Cardinality(N)
            /\ sessions[s].policy.max_concurrent_leases > 0 =>
                 sessions[s].active_lease_count + Cardinality(F)
                   < sessions[s].policy.max_concurrent_leases + Cardinality(Conn)
        BY <4>l, Zenon DEF Limits
      <4> HIDE DEF F, N
      <4>5. /\ Cardinality(Counting(s)') = Cardinality(N) - 1
            /\ Cardinality(InFlight(s)') = Cardinality(F) - 1
        BY <4>2, <4>3, <4>4, FS_RemoveElement, ZenonT(40)
      <4>6. /\ sessions'[s].policy = sessions[s].policy
            /\ sessions'[s].active_lease_count = sessions[s].active_lease_count + 1
        BY <3>2, <3>7, Zenon DEF TypeOK, Sessions
      <4>7. Cardinality(Children(s)') <= sessions'[s].active_lease_count + Cardinality(Counting(s)')
        BY <3>6, <4>2, <4>5, <4>6, <4>m, <1>SessionNumbers, SMTT(40)
      <4>8. sessions'[s].policy.max_concurrent_leases > 0 =>
              sessions'[s].active_lease_count + Cardinality(InFlight(s)')
                < sessions'[s].policy.max_concurrent_leases + Cardinality(Conn)
        BY <4>2, <4>5, <4>6, <4>m, <1>SessionNumbers, SMTT(40)
      <4> QED
        BY <4>7, <4>8, Zenon DEF Limits
    <3>8. CASE s \notin ses
      <4>1. Counting(s)' = Counting(s) /\ InFlight(s)' = InFlight(s)
        BY <3>1, <3>2, <3>3, <3>4, <3>8, Zenon DEF Counting, InFlight, RequestPcs
      <4>2. sessions'[s] = sessions[s]
        BY <3>2, <3>8, Zenon
      <4> QED
        BY <3>5, <3>6, <4>1, <4>2, <2>f, Zenon
    <3> QED
      BY <3>7, <3>8, Zenon
  <2>e. ASSUME NEW c \in Conn, FinishRenew(c) PROVE SessionLimitInv'
    <3>1. UNCHANGED sessions /\ calls[c].pc = "renew" /\ calls[c].id \in DOMAIN leases
      BY <2>e, Zenon DEF FinishRenew, IdInv
    <3>2. PICK k : Goto(c, k) /\ k.pc \in {"idle", "audit"}
      <4>1. CASE Return(c)
        BY <4>1, QuitIsGoto
      <4>2. CASE GotoAudit(c, {})
        <5>1. Goto(c, [pc |-> "audit", events |-> {}])
          BY <4>2, QuitIsGoto, Zenon
        <5> QED
          BY <5>1
      <4> QED
        BY <2>e, <4>1, <4>2, Zenon DEF FinishRenew
    <3>3. \A x \in Conn : calls'[x] = IF x = c THEN k ELSE calls[x]
      BY <3>2, CallsAfter, Zenon
    <3>4. \A i \in DOMAIN leases' :
            i \in DOMAIN leases /\ leases'[i].session_id = leases[i].session_id
      <4>1. UNCHANGED leases \/ leases' = [leases EXCEPT ![calls[c].id] =
                          Renew(leases[calls[c].id], calls[c].ext * Second, now)]
        BY <2>e, Zenon DEF FinishRenew
      <4>2. \A x, t : \A l \in Leases : Renew(l, x, t).session_id = l.session_id
        BY Zenon DEF Leases, Renew
      <4> QED
        BY <3>1, <4>1, <4>2, SMTT(40) DEF TypeOK
    <3> SUFFICES ASSUME NEW s \in DOMAIN sessions PROVE Limits(s)'
      BY <3>1, Zenon DEF SessionLimitInv
    <3>5. Children(s)' \subseteq Children(s)
      BY <3>4, Zenon DEF Children
    <3>6. Counting(s)' = Counting(s) /\ InFlight(s)' = InFlight(s)
      BY <3>1, <3>2, <3>3, Zenon DEF Counting, InFlight, RequestPcs
    <3> QED
      BY <3>1, <3>5, <3>6, <2>f, Zenon
  <2>g. ASSUME NEW c \in Conn, CreateSession(c) PROVE SessionLimitInv'
    <3>1. PICK n \in FreshSessionIds, p \in SessionPolicies :
            sessions' = Insert(sessions, n, NewSession(p, now))
      BY <2>g, Zenon DEF CreateSession
    <3>2. PICK e : Goto(c, [pc |-> "audit", events |-> e])
      BY <2>g, QuitIsGoto, ZenonT(40) DEF CreateSession
    <3>3. UNCHANGED leases /\ calls[c].pc = "idle" /\ ~Created(n) /\ n \notin DOMAIN sessions
      BY <2>g, Zenon DEF CreateSession, Idle, FreshSessionIds, Created
    <3>4. \A x \in Conn : calls'[x] = IF x = c THEN [pc |-> "audit", events |-> e] ELSE calls[x]
      BY <3>2, CallsAfter, Zenon
    <3>5. \A s : /\ Children(s)' = Children(s) /\ Counting(s)' = Counting(s)
                 /\ InFlight(s)' = InFlight(s)
      BY <3>3, <3>4, SMTT(40) DEF Children, Counting, InFlight, RequestPcs
    <3>6. ASSUME NEW s \in DOMAIN sessions', s # n PROVE Limits(s)'
      <4>1. s \in DOMAIN sessions /\ sessions'[s] = sessions[s]
        BY <3>1, <3>6, Zenon DEF Insert
      <4> QED
        BY <3>5, <4>1, <2>f, Zenon
    <3>7. Limits(n)'
      <4>1. Children(n) = {} /\ InFlight(n) = {} /\ Counting(n) = {}
        BY <3>3, ZenonT(40) DEF SessionInv, LinkedInv, RequestInv, Children, InFlight, Counting, RequestPcs
      <4>2. /\ sessions'[n].active_lease_count = 0
            /\ sessions'[n].policy.max_concurrent_leases \in Nat
        BY <3>1, SessionPolicyAssumption, Zenon DEF Insert, NewSession
      <4>3. Cardinality({}) = 0 /\ Cardinality(Conn) \in Nat
        BY FS_EmptySet, FS_CardinalityType, ConnAssumption, Zenon
      <4>4. /\ Cardinality(Children(n)') = 0 /\ Cardinality(InFlight(n)') = 0
            /\ Cardinality(Counting(n)') = 0
        BY <3>5, <4>1, <4>3, Zenon
      <4>5. Cardinality(Children(n)') <= sessions'[n].active_lease_count + Cardinality(Counting(n)')
        BY <4>2, <4>4, SMTT(40)
      <4>6. sessions'[n].policy.max_concurrent_leases > 0 =>
              sessions'[n].active_lease_count + Cardinality(InFlight(n)')
                < sessions'[n].policy.max_concurrent_leases + Cardinality(Conn)
        BY <4>2, <4>3, <4>4
      <4> QED
        BY <4>5, <4>6, Zenon DEF Limits
    <3> QED
      BY <3>6, <3>7, Zenon DEF SessionLimitInv
  <2> QED
    BY <2>p, <2>s, <2>a, <2>b, <2>c, <2>d, <2>e, <2>g, SessionKinds, SMTT(40)

<1>1. Init => SessionLimitInv
  BY Zenon DEF Init, EmptyMap, SessionLimitInv
<1>2. TypeOK /\ LifeInv /\ CapInv /\ SessionInv /\ SessionLimitInv /\ [Next]_vars
        => SessionLimitInv'
  BY <1>SessionLimitStep, Zenon DEF LifeInv
<1>3. TypeOK /\ CapInv /\ SessionLimitInv => SessionLimitOvershootBounded
  <2> SUFFICES ASSUME TypeOK, CapInv, SessionLimitInv, NEW s \in DOMAIN sessions
               PROVE  /\ Cardinality(Children(s)) <=
                           sessions[s].active_lease_count + Cardinality(Counting(s))
                      /\ sessions[s].policy.max_concurrent_leases > 0 =>
                           sessions[s].active_lease_count
                             < sessions[s].policy.max_concurrent_leases + Cardinality(Conn)
    BY Zenon DEF SessionLimitOvershootBounded
  <2>1. Limits(s)
    BY Zenon DEF SessionLimitInv
  <2>2. Cardinality(InFlight(s)) \in Nat /\ Cardinality(Conn) \in Nat
    BY <1>SessionSetsFinite, Zenon
  <2> QED
    BY <2>1, <2>2, <1>SessionNumbers, SMTT(40) DEF Limits
<1> QED
  BY <1>1, <1>2, <1>3, TypeCorrect, LifeInvariant, CapInvariant, SessionInvariant, PTL DEF Spec
==============================================================================
