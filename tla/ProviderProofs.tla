--------------------------- MODULE ProviderProofs ---------------------------
(***************************************************************************)
(* Who is to revoke a lease that a provider was granted, for any number of *)
(* tasks, helpers and leases and any capacity of the channel.              *)
(***************************************************************************)
EXTENDS Provider, TLAPS

-----------------------------------------------------------------------------
(* A lease has one user at a time, who was granted it; the helpers' leases *)
(* are given up from the start.                                            *)
UsersInv ==
    /\ \A t \in Caller : task[t].pc \in {"idle", "asked", "exited"} => task[t].lease = {}
    /\ \A t \in Caller : \A a, b \in task[t].lease : a = b
    /\ \A t, u \in Caller : \A id \in task[t].lease : id \in task[u].lease => t = u
    /\ \A t \in Caller : \A id \in task[t].lease : phase[id] # "unborn"
    /\ \A h \in Helper : task[h].lease \subseteq forsaken

(* The worker has a lease while it revokes it; nothing is acquired from a  *)
(* provider that was dropped.                                              *)
EndInv ==
    /\ worker.pc # "revoking" => worker.lease = {}
    /\ ~provider => Acquiring = {}

ProviderInv ==
    /\ UsersInv /\ EndInv
    /\ OnlyDroppedRevoked /\ LeasesAccountedFor /\ WorkerOutlivesGuards

Places == [pc : {"idle", "asked", "granted", "fetched", "holding", "exited"},
           lease : SUBSET LeaseId]

-----------------------------------------------------------------------------
(* What a step does to the tasks and to the vault.                         *)
LEMMA TasksAfter ==
    ASSUME TypeOK, NEW t \in Caller,
           NEW pc \in {"idle", "asked", "granted", "fetched", "holding", "exited"},
           NEW lease \in SUBSET LeaseId, Goto(t, pc, lease)
    PROVE  /\ task' \in [Caller -> Places]
           /\ \A u \in Caller : task'[u] = IF u = t THEN At(pc, lease) ELSE task[u]
           /\ At(pc, lease).pc = pc /\ At(pc, lease).lease = lease
BY Zenon DEF TypeOK, Goto, At, Places

LEMMA GrantAfter ==
    ASSUME TypeOK, NEW id \in LeaseId, Contract!Grant(id)
    PROVE  /\ phase' \in [LeaseId -> {"unborn", "granted", "over"}]
           /\ phase[id] = "unborn" /\ UNCHANGED <<pending, served>>
           /\ \A x \in LeaseId : phase'[x] = IF x = id THEN "granted" ELSE phase[x]
BY Zenon DEF TypeOK, Contract!Grant

LEMMA UseAfter ==
    ASSUME TypeOK, NEW id \in LeaseId, NEW t \in Caller,
           \/ Contract!Authorize(id, t)
           \/ Contract!Deliver(id, t)
           \/ Contract!Withdraw(id, t)
    PROVE  /\ UNCHANGED phase
           /\ pending' \in [LeaseId -> SUBSET Caller]
           /\ served' \in [LeaseId -> Nat]
<1>1. CASE Contract!Authorize(id, t)
  BY <1>1, Zenon DEF TypeOK, Contract!Authorize
<1>2. CASE Contract!Deliver(id, t)
  BY <1>2 DEF TypeOK, Contract!Deliver
<1>3. CASE Contract!Withdraw(id, t)
  BY <1>3, Zenon DEF TypeOK, Contract!Withdraw
<1> QED
  BY <1>1, <1>2, <1>3, Zenon

LEMMA EndAfter ==
    ASSUME TypeOK, NEW ids, Contract!End(ids)
    PROVE  /\ phase' \in [LeaseId -> {"unborn", "granted", "over"}]
           /\ UNCHANGED <<pending, served>>
           /\ \A x \in LeaseId : phase'[x] = IF x \in ids THEN "over" ELSE phase[x]
           /\ \A x \in LeaseId : phase'[x] = "unborn" <=> phase[x] = "unborn"
BY Zenon DEF TypeOK, Contract!End

LEMMA CrashAfter ==
    ASSUME TypeOK, Contract!Crash
    PROVE  /\ phase' \in [LeaseId -> {"unborn", "granted", "over"}]
           /\ pending' \in [LeaseId -> SUBSET Caller] /\ UNCHANGED served
           /\ \A x \in LeaseId : /\ phase'[x] # "granted"
                                 /\ phase'[x] = "unborn" <=> phase[x] = "unborn"
BY Zenon DEF TypeOK, Contract!Crash

(* A lease of a task is a lease.                                           *)
LEMMA LeaseOf ==
    ASSUME TypeOK, NEW t \in Caller
    PROVE  task[t].lease \in SUBSET LeaseId /\ task[t] \in Places
BY Zenon DEF TypeOK, Places

LEMMA QueuedTyped ==
    ASSUME TypeOK
    PROVE  Queued \subseteq LeaseId /\ worker.lease \subseteq LeaseId
BY DEF TypeOK, Queued

-----------------------------------------------------------------------------
(* Each step keeps the types.                                              *)
LEMMA TypeStep ==
    ASSUME TypeOK, [Next]_vars
    PROVE  TypeOK'
<1> USE DEF Places
<1>t. \A t \in Task : t \in Caller
  BY Zenon DEF Caller
<1>h. \A h \in Helper : h \in Caller
  BY Zenon DEF Caller
<1>a. ASSUME NEW t \in Task, BeginAcquire(t) \/ Refused(t) PROVE TypeOK'
  BY <1>a, <1>t, TasksAfter DEF BeginAcquire, Refused, vaultVars, TypeOK
<1>b. ASSUME NEW t \in Task, Granted(t) PROVE TypeOK'
  <2>1. PICK id \in LeaseId : Contract!Grant(id) /\ Goto(t, "granted", {id})
    BY <1>b, Zenon DEF Granted
  <2>2. task' \in [Caller -> Places]
    BY <2>1, <1>t, TasksAfter
  <2> QED
    BY <1>b, <2>1, <2>2, GrantAfter DEF Granted, TypeOK
<1>c. ASSUME NEW t \in Task, Access(t) \/ Guarded(t) PROVE TypeOK'
  <2>1. PICK id \in LeaseId : Contract!Authorize(id, t) \/ Contract!Deliver(id, t)
    BY <1>c, <1>t, LeaseOf, Zenon DEF Access, Guarded
  <2>2. task' \in [Caller -> Places]
    BY <1>c, <1>t, LeaseOf, TasksAfter, Zenon DEF Access, Guarded
  <2> QED
    BY <1>c, <1>t, <2>1, <2>2, UseAfter, Zenon DEF Access, Guarded, TypeOK
<1>d. ASSUME NEW t \in Task, AcquireFails(t) PROVE TypeOK'
  <2>1. /\ pending' \in [LeaseId -> SUBSET Caller] /\ served' \in [LeaseId -> Nat]
        /\ UNCHANGED phase
    <3>1. CASE UNCHANGED vaultVars
      BY <3>1, Zenon DEF vaultVars, TypeOK
    <3>2. CASE \E id \in task[t].lease : Contract!Withdraw(id, t) \/ Contract!Deliver(id, t)
      BY <3>2, <1>t, LeaseOf, UseAfter, Zenon
    <3> QED
      BY <1>d, <3>1, <3>2, Zenon DEF AcquireFails
  <2>2. task' \in [Caller -> Places]
    BY <1>d, <1>t, TasksAfter DEF AcquireFails
  <2>3. forsaken' \subseteq LeaseId
    BY <1>d, <1>t, LeaseOf, Zenon DEF AcquireFails, Forsake, TypeOK
  <2> QED
    BY <1>d, <2>1, <2>2, <2>3, Zenon DEF AcquireFails, TypeOK
<1>e. ASSUME NEW t \in Task, Cancelled(t) PROVE TypeOK'
  <2>1. task' \in [Caller -> Places]
    BY <1>e, <1>t, TasksAfter DEF Cancelled
  <2>2. CASE \E id \in LeaseId : Contract!Grant(id) /\ Forsake({id})
    BY <1>e, <2>1, <2>2, GrantAfter DEF Cancelled, Forsake, TypeOK
  <2>3. CASE UNCHANGED <<vaultVars, forsaken>>
    BY <1>e, <2>1, <2>3, Zenon DEF Cancelled, vaultVars, TypeOK
  <2> QED
    BY <1>e, <2>2, <2>3, Zenon DEF Cancelled
<1>f. ASSUME NEW t \in Task, AcquireStatic(t) PROVE TypeOK'
  BY <1>f, <1>t, TasksAfter DEF AcquireStatic, vaultVars, TypeOK
<1>g. ASSUME NEW t \in Task, DropGuard(t) PROVE TypeOK'
  <2>1. task' \in [Caller -> Places]
    BY <1>g, <1>t, TasksAfter DEF DropGuard
  <2>2. channel' \in Seq(LeaseId) /\ Len(channel') <= Capacity
    <3>1. CASE UNCHANGED channel
      BY <3>1, Zenon DEF TypeOK
    <3>2. CASE HasRoom /\ \E id \in task[t].lease : channel' = Append(channel, id)
      <4>1. PICK id \in LeaseId : channel' = Append(channel, id)
        BY <3>2, <1>t, LeaseOf, Zenon
      <4>2. channel \in Seq(LeaseId) /\ Len(channel) < Capacity
        BY <3>2, Zenon DEF HasRoom, TypeOK
      <4> QED
        BY <4>1, <4>2, CapacityAssumption
    <3> QED
      BY <1>g, <3>1, <3>2, Zenon DEF DropGuard
  <2>3. forsaken' \subseteq LeaseId
    BY <1>g, <1>t, LeaseOf, Zenon DEF DropGuard, Forsake, TypeOK
  <2> QED
    BY <1>g, <2>1, <2>2, <2>3, Zenon DEF DropGuard, vaultVars, TypeOK
<1>i. ASSUME NEW h \in Helper, HelperAsks(h) PROVE TypeOK'
  <2>1. CASE \E id \in LeaseId : /\ Contract!Grant(id)
                                 /\ Goto(h, "granted", {id})
                                 /\ Forsake({id})
    <3>1. PICK id \in LeaseId : /\ Contract!Grant(id)
                                 /\ Goto(h, "granted", {id})
                                 /\ Forsake({id})
      BY <2>1, Zenon
    <3>2. task' \in [Caller -> Places]
      BY <3>1, <1>h, TasksAfter
    <3> QED
      BY <1>i, <3>1, <3>2, GrantAfter DEF HelperAsks, Forsake, TypeOK
  <2>2. CASE Goto(h, "exited", {}) /\ UNCHANGED <<vaultVars, forsaken>>
    <3>1. task' \in [Caller -> Places]
      BY <2>2, <1>h, TasksAfter
    <3> QED
      BY <1>i, <2>2, <3>1, Zenon DEF HelperAsks, vaultVars, TypeOK
  <2> QED
    BY <1>i, <2>1, <2>2, Zenon DEF HelperAsks
<1>j. ASSUME NEW h \in Helper, HelperAnswers(h) PROVE TypeOK'
  <2>1. /\ pending' \in [LeaseId -> SUBSET Caller] /\ served' \in [LeaseId -> Nat]
        /\ UNCHANGED phase
    <3>1. CASE UNCHANGED vaultVars
      BY <3>1, Zenon DEF vaultVars, TypeOK
    <3>2. CASE \E id \in task[h].lease : \/ Contract!Authorize(id, h)
                                         \/ Contract!Deliver(id, h)
                                         \/ Contract!Withdraw(id, h)
      BY <3>2, <1>h, LeaseOf, UseAfter, Zenon
    <3> QED
      BY <1>j, <3>1, <3>2, Zenon DEF HelperAnswers
  <2>2. Goto(h, "fetched", task[h].lease) \/ Goto(h, "exited", {})
    BY <1>j, Zenon DEF HelperAnswers
  <2>3. task' \in [Caller -> Places]
    BY <1>h, <2>2, LeaseOf, TasksAfter
  <2> QED
    BY <1>j, <2>1, <2>3, Zenon DEF HelperAnswers, TypeOK
<1>k. ASSUME InsertStatic \/ DropProvider PROVE TypeOK'
  BY <1>k, Zenon DEF InsertStatic, DropProvider, vaultVars, TypeOK
<1>l. ASSUME Receive PROVE TypeOK'
  BY <1>l, CapacityAssumption DEF Receive, At, vaultVars, TypeOK
<1>m. ASSUME WorkerEnds PROVE TypeOK'
  BY <1>m, Zenon DEF WorkerEnds, At, vaultVars, TypeOK
<1>n. ASSUME RevokeOne PROVE TypeOK'
  BY <1>n, EndAfter, Zenon DEF RevokeOne, At, TypeOK
<1>o. ASSUME RevokeFails PROVE TypeOK'
  BY <1>o, QueuedTyped, Zenon DEF RevokeFails, Forsake, At, vaultVars, TypeOK
<1>p. ASSUME Expire PROVE TypeOK'
  BY <1>p, EndAfter, Zenon DEF Expire, TypeOK
<1>q. ASSUME VaultRestarts PROVE TypeOK'
  <2>1. task' \in [Caller -> Places]
    BY <1>q, Zenon DEF VaultRestarts, At, TypeOK
  <2>2. forsaken' \subseteq LeaseId
    BY <1>q, <1>t, LeaseOf DEF VaultRestarts, Forsake, Acquiring, TypeOK
  <2> QED
    BY <1>q, <2>1, <2>2, CrashAfter, Zenon DEF VaultRestarts, TypeOK
<1>u. CASE UNCHANGED vars
  BY <1>u, Zenon DEF vars, TypeOK
<1> QED
  BY <1>a, <1>b, <1>c, <1>d, <1>e, <1>f, <1>g, <1>i, <1>j, <1>k, <1>l, <1>m, <1>n, <1>o,
     <1>p, <1>q, <1>u, Zenon DEF Next, WorkerStep

(* The state keeps its types, and the channel its bound.                   *)
THEOREM ProviderTyped == Spec => []TypeOK
<1>1. Init => TypeOK
  <2> SUFFICES ASSUME Init PROVE TypeOK
    BY Zenon
  <2>1. channel \in Seq(LeaseId) /\ Len(channel) <= Capacity
    BY CapacityAssumption DEF Init
  <2>2. task \in [Caller -> Places] /\ worker \in [pc : {"idle"}, lease : {{}}]
    BY Zenon DEF Init, Idle, At, Places
  <2> QED
    BY <2>1, <2>2, Zenon DEF Init, Contract!Init, TypeOK, Places
<1>2. TypeOK /\ [Next]_vars => TypeOK'
  BY TypeStep, Zenon
<1> QED
  BY <1>1, <1>2, PTL DEF Spec

-----------------------------------------------------------------------------
(* The channel as the set of what is in it.                                *)
Distinct == \A i, j \in 1 .. Len(channel) : channel[i] = channel[j] => i = j

LEMMA Sent ==
    ASSUME channel \in Seq(LeaseId), NEW id \in LeaseId, channel' = Append(channel, id)
    PROVE  /\ Queued' = Queued \cup {id}
           /\ Distinct /\ id \notin Queued => Distinct'
<1>1. Len(channel') = Len(channel) + 1 /\ Len(channel) \in Nat
  OBVIOUS
<1>2. \A i \in 1 .. Len(channel') :
        channel'[i] = IF i = Len(channel) + 1 THEN id ELSE channel[i]
  OBVIOUS
<1>3. Queued' = Queued \cup {id}
  BY <1>1, <1>2 DEF Queued
<1>4. ASSUME Distinct, id \notin Queued PROVE Distinct'
  BY <1>1, <1>2, <1>4 DEF Queued, Distinct
<1> QED
  BY <1>3, <1>4, Zenon

LEMMA Received ==
    ASSUME channel \in Seq(LeaseId), channel # <<>>, Distinct, channel' = Tail(channel)
    PROVE  /\ Head(channel) \in Queued
           /\ Queued' = Queued \ {Head(channel)}
           /\ Distinct'
<1>1. Len(channel) \in Nat /\ Len(channel) >= 1 /\ Len(channel') = Len(channel) - 1
  OBVIOUS
<1>2. \A i \in 1 .. Len(channel') : channel'[i] = channel[i + 1]
  OBVIOUS
<1>3. Head(channel) = channel[1]
  OBVIOUS
<1>4. Head(channel) \in Queued
  BY <1>1, <1>3 DEF Queued
<1>5. Distinct'
  BY <1>1, <1>2 DEF Distinct
<1>6. ASSUME NEW x \in Queued, x # Head(channel) PROVE x \in Queued'
  <2>1. PICK i \in 1 .. Len(channel) : x = channel[i]
    BY Zenon DEF Queued
  <2>2. i - 1 \in 1 .. Len(channel') /\ channel'[i - 1] = x
    BY <1>1, <1>2, <1>3, <1>6, <2>1
  <2> QED
    BY <2>2, Zenon DEF Queued
<1>7. ASSUME NEW x \in Queued' PROVE x \in Queued /\ x # Head(channel)
  <2>1. PICK i \in 1 .. Len(channel') : x = channel'[i]
    BY Zenon DEF Queued
  <2>2. i + 1 \in 1 .. Len(channel) /\ x = channel[i + 1] /\ i + 1 # 1
    BY <1>1, <1>2, <2>1
  <2> QED
    BY <1>1, <1>3, <2>2 DEF Queued, Distinct
<1> QED
  BY <1>4, <1>5, <1>6, <1>7, Zenon

-----------------------------------------------------------------------------
(* The invariant under the steps that grant nothing.                       *)

\* what is unborn was unborn, and nobody takes back what was given up
Onward ==
    /\ \A x \in LeaseId : phase'[x] = "unborn" => phase[x] = "unborn"
    /\ forsaken \subseteq forsaken'

LEMMA UsersKept ==
    ASSUME TypeOK, UsersInv, Onward,
           \A u \in Caller :
              /\ task'[u].lease \subseteq task[u].lease
              /\ task'[u].pc \in {"idle", "asked", "exited"} => task'[u].lease = {}
    PROVE  UsersInv'
<1>1. \A u \in Caller : task[u].lease \in SUBSET LeaseId
  BY LeaseOf, Zenon
<1>2. \A h \in Helper : h \in Caller
  BY Zenon DEF Caller
<1> QED
  BY <1>1, <1>2 DEF UsersInv, Onward

LEMMA SentKept ==
    ASSUME TypeOK, OnlyDroppedRevoked, Onward, UNCHANGED <<channel, worker>>,
           \A u \in Caller : task'[u].lease \subseteq task[u].lease
    PROVE  OnlyDroppedRevoked'
<1>1. Queued \subseteq LeaseId /\ worker.lease \subseteq LeaseId /\ Queued' = Queued
  BY QueuedTyped, Zenon DEF Queued
<1> QED
  BY <1>1, Zenon DEF OnlyDroppedRevoked, Onward

LEMMA AccountKept ==
    ASSUME TypeOK, LeasesAccountedFor, Onward,
           \A x \in LeaseId : phase'[x] = "granted" => phase[x] = "granted",
           \A x \in LeaseId : phase'[x] = "granted" => 
               /\ x \in Queued => x \in Queued' \cup worker'.lease \cup forsaken'
               /\ x \in worker.lease => x \in worker'.lease \cup forsaken'
               /\ \A t \in Task : x \in task[t].lease =>
                    x \in task'[t].lease \cup Queued' \cup forsaken'
    PROVE  LeasesAccountedFor'
BY Zenon DEF LeasesAccountedFor, Onward

(* A step that neither grants nor sends nor moves the worker.              *)
LEMMA QuietStep ==
    ASSUME TypeOK, ProviderInv, Onward, UNCHANGED <<channel, worker>>,
           \A u \in Caller :
              /\ task'[u].lease \subseteq task[u].lease
              /\ task'[u].pc \in {"idle", "asked", "exited"} => task'[u].lease = {},
           \A x \in LeaseId : phase'[x] = "granted" => phase[x] = "granted",
           \A t \in Task : \A x \in task[t].lease :
              phase'[x] = "granted" => x \in task'[t].lease \cup forsaken',
           provider' => provider,
           provider' \/ (Acquiring' = {} /\ Holders' \subseteq Holders)
    PROVE  ProviderInv'
<1>1. UsersInv' /\ OnlyDroppedRevoked'
  BY UsersKept, SentKept, Zenon DEF ProviderInv
<1>2. LeasesAccountedFor'
  <2>1. Queued' = Queued /\ worker' = worker
    BY Zenon DEF Queued
  <2> QED
    BY <2>1, AccountKept, Zenon DEF ProviderInv
<1>3. EndInv' /\ WorkerOutlivesGuards'
  BY Zenon DEF ProviderInv, EndInv, WorkerOutlivesGuards
<1> QED
  BY <1>1, <1>2, <1>3, Zenon DEF ProviderInv

(* A grant, to whoever asked.                                              *)
LEMMA NewLease ==
    ASSUME TypeOK, ProviderInv, NEW id \in LeaseId, Contract!Grant(id)
    PROVE  /\ \A u \in Caller : id \notin task[u].lease
           /\ id \notin Queued \cup worker.lease
           /\ phase[id] = "unborn"
<1>1. phase[id] = "unborn"
  BY GrantAfter, Zenon
<1> QED
  BY <1>1, Zenon DEF ProviderInv, UsersInv, OnlyDroppedRevoked

LEMMA GrantStep ==
    ASSUME TypeOK, ProviderInv, NEW id \in LeaseId, Contract!Grant(id), NEW t \in Caller,
           task[t].lease = {}, Goto(t, "granted", {id}),
           UNCHANGED <<provider, channel, worker>>, forsaken \subseteq forsaken',
           t \in Task => provider, t \in Helper => id \in forsaken'
    PROVE  ProviderInv'
<1>1. \A u \in Caller : task'[u] = IF u = t THEN At("granted", {id}) ELSE task[u]
  BY TasksAfter
<1>2. At("granted", {id}).pc = "granted" /\ At("granted", {id}).lease = {id}
  BY Zenon DEF At
<1>3. \A x \in LeaseId : phase'[x] = IF x = id THEN "granted" ELSE phase[x]
  BY GrantAfter, Zenon
<1>4. /\ \A u \in Caller : id \notin task[u].lease
      /\ id \notin Queued \cup worker.lease
  BY NewLease, Zenon
<1>5. \A u \in Caller : task[u].lease \in SUBSET LeaseId
  BY LeaseOf, Zenon
<1>6. (\A h \in Helper : h \in Caller) /\ (\A u \in Task : u \in Caller)
  BY Zenon DEF Caller
<1>l. \A u \in Caller : task'[u].lease = IF u = t THEN {id} ELSE task[u].lease
  BY <1>1, <1>2, Zenon
<1>7. UsersInv'
  <2>1. UsersInv
    BY Zenon DEF ProviderInv
  <2>2. \A u \in Caller : task'[u].pc \in {"idle", "asked", "exited"} => task'[u].lease = {}
    BY <1>1, <1>2, <2>1, Zenon DEF UsersInv
  <2>3. \A u \in Caller : \A a, b \in task'[u].lease : a = b
    <3>1. \A u \in Caller : \A a, b \in task[u].lease : a = b
      BY <2>1, Zenon DEF UsersInv
    <3> QED
      BY <1>l, <3>1, Zenon
  <2>4. \A u, v \in Caller : \A x \in task'[u].lease : x \in task'[v].lease => u = v
    <3>1. \A u, v \in Caller : \A x \in task[u].lease : x \in task[v].lease => u = v
      BY <2>1, Zenon DEF UsersInv
    <3> QED
      BY <1>4, <1>l, <3>1
  <2>5. \A u \in Caller : \A x \in task'[u].lease : phase'[x] # "unborn"
    BY <1>1, <1>2, <1>3, <1>5, <2>1 DEF UsersInv
  <2>6. \A h \in Helper : task'[h].lease \subseteq forsaken'
    BY <1>1, <1>2, <1>6, <2>1, Zenon DEF UsersInv
  <2> QED
    BY <2>2, <2>3, <2>4, <2>5, <2>6, Zenon DEF UsersInv
<1>8. OnlyDroppedRevoked'
  <2>1. Queued' = Queued /\ Queued \cup worker.lease \subseteq LeaseId
    BY QueuedTyped, Zenon DEF Queued
  <2> QED
    <3>1. OnlyDroppedRevoked
      BY Zenon DEF ProviderInv
    <3>2. \A u \in Caller : task'[u].lease \cap (Queued \cup worker.lease) = {}
      BY <1>4, <1>l, <3>1 DEF OnlyDroppedRevoked
    <3>3. \A x \in Queued \cup worker.lease : phase'[x] # "unborn"
      BY <1>3, <2>1, <3>1, Zenon DEF OnlyDroppedRevoked
    <3> QED
      BY <2>1, <3>1, <3>2, <3>3, Zenon DEF OnlyDroppedRevoked
<1>9. LeasesAccountedFor'
  <2>1. Queued' = Queued
    BY Zenon DEF Queued
  <2>2. t \in Task \/ t \in Helper
    BY Zenon DEF Caller
  <2>3. ASSUME NEW x \in LeaseId, phase'[x] = "granted"
        PROVE  \/ \E u \in Task : x \in task'[u].lease
               \/ x \in Queued' \cup worker'.lease
               \/ x \in forsaken'
    <3>1. CASE x = id
      BY <1>1, <1>2, <2>2, <3>1, Zenon
    <3>2. CASE x # id
      <4>1. \/ \E u \in Task : x \in task[u].lease
            \/ x \in Queued \cup worker.lease
            \/ x \in forsaken
        BY <1>3, <2>3, <3>2, Zenon DEF ProviderInv, LeasesAccountedFor
      <4>2. \A u \in Task : x \in task[u].lease => x \in task'[u].lease
        BY <1>1, <1>6, Zenon
      <4> QED
        BY <2>1, <4>1, <4>2, Zenon
    <3> QED
      BY <3>1, <3>2, Zenon
  <2> QED
    BY <2>3, Zenon DEF LeasesAccountedFor
<1>10. EndInv' /\ WorkerOutlivesGuards'
  <2>1. ~provider => Acquiring' \subseteq Acquiring /\ Holders' \subseteq Holders
    BY <1>1, <1>2, <1>6, Zenon DEF Acquiring, Holders
  <2> QED
    BY <2>1, Zenon DEF ProviderInv, EndInv, WorkerOutlivesGuards
<1> QED
  BY <1>7, <1>8, <1>9, <1>10, Zenon DEF ProviderInv

(* A call of acquire works on a provider that is there.                    *)
LEMMA ProviderThere ==
    ASSUME ProviderInv, NEW t \in Task, task[t].pc \in {"asked", "granted", "fetched"}
    PROVE  provider
BY Zenon DEF ProviderInv, EndInv, Acquiring

(* A task moves on; its lease stays with it or is given up.                *)
LEMMA MoveStep ==
    ASSUME TypeOK, ProviderInv, NEW t \in Caller,
           NEW pc \in {"idle", "asked", "granted", "fetched", "holding", "exited"},
           NEW lease \in SUBSET LeaseId, Goto(t, pc, lease), lease \subseteq task[t].lease,
           pc \in {"idle", "asked", "exited"} => lease = {},
           t \in Task => \A x \in task[t].lease : x \in lease \cup forsaken',
           t \in Task /\ pc \in {"asked", "granted", "fetched", "holding"} =>
               provider \/ (pc = "holding" /\ lease = {}),
           forsaken \subseteq forsaken', UNCHANGED <<phase, provider, channel, worker>>
    PROVE  ProviderInv'
<1>1. \A u \in Caller : /\ task'[u].lease = IF u = t THEN lease ELSE task[u].lease
                        /\ task'[u].pc = IF u = t THEN pc ELSE task[u].pc
  BY TasksAfter
<1>2. \A u \in Task : u \in Caller
  BY Zenon DEF Caller
<1>3. \A u \in Caller : /\ task'[u].lease \subseteq task[u].lease
                        /\ task'[u].pc \in {"idle", "asked", "exited"} => task'[u].lease = {}
  BY <1>1 DEF ProviderInv, UsersInv
<1>4. \A u \in Task : \A x \in task[u].lease : x \in task'[u].lease \cup forsaken'
  BY <1>1, <1>2, Zenon
<1>5. ~provider => Acquiring' \subseteq Acquiring /\ Holders' \subseteq Holders
  BY <1>1, <1>2, Zenon DEF Acquiring, Holders
<1>6. provider' \/ (Acquiring' = {} /\ Holders' \subseteq Holders)
  BY <1>5, Zenon DEF ProviderInv, EndInv
<1> QED
  BY <1>3, <1>4, <1>6, QuietStep, Zenon DEF Onward

LEMMA ProviderStep ==
    ASSUME TypeOK, ProviderInv, [Next]_vars
    PROVE  ProviderInv'
<1>t. \A t \in Task : t \in Caller /\ t \notin Helper
  BY CallerAssumption, Zenon DEF Caller
<1>h. \A h \in Helper : h \in Caller /\ h \notin Task
  BY CallerAssumption, Zenon DEF Caller
<1>e. \A t \in Caller : task[t].pc \in {"idle", "asked", "exited"} => task[t].lease = {}
  BY Zenon DEF ProviderInv, UsersInv
<1>i. \A t \in Caller : task[t] = Idle => task[t].pc = "idle"
  BY DEF Idle, At
<1>a. ASSUME NEW t \in Task, BeginAcquire(t) PROVE ProviderInv'
  BY <1>a, <1>t, <1>e, <1>i, MoveStep, Zenon DEF BeginAcquire, vaultVars
<1>b. ASSUME NEW t \in Task, Refused(t) PROVE ProviderInv'
  BY <1>b, <1>t, <1>e, MoveStep, Zenon DEF Refused, vaultVars
<1>c. ASSUME NEW t \in Task, Granted(t) PROVE ProviderInv'
  <2>1. PICK id \in LeaseId : Contract!Grant(id) /\ Goto(t, "granted", {id})
    BY <1>c, Zenon DEF Granted
  <2>2. provider /\ task[t].lease = {} /\ UNCHANGED <<provider, channel, worker, forsaken>>
    BY <1>c, <1>t, <1>e, ProviderThere, Zenon DEF Granted
  <2> QED
    BY <1>t, <2>1, <2>2, GrantStep, Zenon
<1>d. ASSUME NEW t \in Task, Access(t) \/ Guarded(t) PROVE ProviderInv'
  <2>1. PICK id \in LeaseId : Contract!Authorize(id, t) \/ Contract!Deliver(id, t)
    BY <1>d, <1>t, LeaseOf, Zenon DEF Access, Guarded
  <2>2. UNCHANGED <<phase, provider, channel, worker, forsaken>>
    BY <1>d, <1>t, <2>1, UseAfter, Zenon DEF Access, Guarded
  <2>3. provider /\ task[t].lease \in SUBSET LeaseId
    BY <1>d, <1>t, ProviderThere, LeaseOf, Zenon DEF Access, Guarded
  <2>4. Goto(t, "fetched", task[t].lease) \/ Goto(t, "holding", task[t].lease)
    BY <1>d, Zenon DEF Access, Guarded
  <2> QED
    BY <1>t, <2>2, <2>3, <2>4, MoveStep, Zenon
<1>f. ASSUME NEW t \in Task, AcquireFails(t) PROVE ProviderInv'
  <2>1. UNCHANGED phase
    <3>1. CASE UNCHANGED vaultVars
      BY <3>1, Zenon DEF vaultVars
    <3>2. CASE \E id \in task[t].lease : Contract!Withdraw(id, t) \/ Contract!Deliver(id, t)
      BY <3>2, <1>t, LeaseOf, UseAfter, Zenon
    <3> QED
      BY <1>f, <3>1, <3>2, Zenon DEF AcquireFails
  <2>2. Goto(t, "idle", {}) /\ UNCHANGED <<provider, channel, worker>>
    BY <1>f, Zenon DEF AcquireFails
  <2>3. forsaken' = forsaken \cup task[t].lease
    BY <1>f, Zenon DEF AcquireFails, Forsake
  <2> QED
    BY <1>t, <2>1, <2>2, <2>3, MoveStep
<1>g. ASSUME NEW t \in Task, Cancelled(t) PROVE ProviderInv'
  <2>1. Goto(t, "idle", {}) /\ UNCHANGED <<provider, channel, worker>> /\ task[t].lease = {}
    BY <1>g, <1>t, <1>e, Zenon DEF Cancelled
  <2>2. CASE UNCHANGED <<vaultVars, forsaken>>
    BY <1>t, <2>1, <2>2, MoveStep, Zenon DEF vaultVars
  <2>3. CASE \E id \in LeaseId : Contract!Grant(id) /\ Forsake({id})
    <3>1. PICK id \in LeaseId : Contract!Grant(id) /\ forsaken' = forsaken \cup {id}
      BY <2>3, Zenon DEF Forsake
    <3>2. \A u \in Caller : /\ task'[u].lease = task[u].lease
                            /\ task'[u].pc = IF u = t THEN "idle" ELSE task[u].pc
      <4>1. \A u \in Caller : /\ task'[u].lease = IF u = t THEN {} ELSE task[u].lease
                              /\ task'[u].pc = IF u = t THEN "idle" ELSE task[u].pc
        BY <1>t, <2>1, TasksAfter
      <4> QED
        BY <2>1, <4>1, Zenon
    <3>3. \A x \in LeaseId : phase'[x] = IF x = id THEN "granted" ELSE phase[x]
      BY <3>1, GrantAfter, Zenon
    <3>4. Onward
      BY <3>1, <3>3, Zenon DEF Onward
    <3>5. UsersInv' /\ OnlyDroppedRevoked'
      <4>1. \A u \in Caller :
              /\ task'[u].lease \subseteq task[u].lease
              /\ task'[u].pc \in {"idle", "asked", "exited"} => task'[u].lease = {}
        BY <1>t, <1>e, <2>1, <3>2, Zenon
      <4> QED
        BY <2>1, <3>4, <4>1, UsersKept, SentKept, Zenon DEF ProviderInv
    <3>6. LeasesAccountedFor'
      <4>1. Queued' = Queued /\ worker' = worker
        BY <2>1, Zenon DEF Queued
      <4> QED
        BY <1>t, <3>1, <3>2, <3>3, <4>1, Zenon DEF ProviderInv, LeasesAccountedFor
    <3>7. EndInv' /\ WorkerOutlivesGuards'
      <4>1. Acquiring' \subseteq Acquiring /\ Holders' \subseteq Holders
        BY <1>t, <3>2, Zenon DEF Acquiring, Holders
      <4> QED
        BY <2>1, <4>1, Zenon DEF ProviderInv, EndInv, WorkerOutlivesGuards
    <3> QED
      BY <3>5, <3>6, <3>7, Zenon DEF ProviderInv
  <2> QED
    BY <1>g, <2>2, <2>3, Zenon DEF Cancelled
<1>j. ASSUME NEW t \in Task, AcquireStatic(t) PROVE ProviderInv'
  BY <1>j, <1>t, <1>e, <1>i, MoveStep, Zenon DEF AcquireStatic, vaultVars
<1>k. ASSUME NEW t \in Task, DropGuard(t) PROVE ProviderInv'
  <2>1. Goto(t, "idle", {}) /\ UNCHANGED <<phase, provider, worker>> /\ task[t].pc = "holding"
    BY <1>k, Zenon DEF DropGuard, vaultVars
  <2>2. CASE UNCHANGED channel /\ forsaken' = forsaken \cup task[t].lease
    BY <1>t, <2>1, <2>2, MoveStep
  <2>3. CASE /\ HasRoom /\ UNCHANGED forsaken
             /\ \E id \in task[t].lease : channel' = Append(channel, id)
    <3>1. PICK id \in task[t].lease : channel' = Append(channel, id)
      BY <2>3, Zenon
    <3>2. id \in LeaseId /\ task[t].lease = {id} /\ phase[id] # "unborn"
      BY <1>t, <3>1, LeaseOf DEF ProviderInv, UsersInv
    <3>3. \A u \in Caller : /\ task'[u].lease = IF u = t THEN {} ELSE task[u].lease
                            /\ task'[u].pc = IF u = t THEN "idle" ELSE task[u].pc
      BY <1>t, <2>1, TasksAfter
    <3>4. id \notin Queued \cup worker.lease /\ Distinct
      BY <1>t, <3>1, Zenon DEF ProviderInv, OnlyDroppedRevoked, Distinct
    <3>5. Queued' = Queued \cup {id} /\ Distinct'
      BY <3>1, <3>2, <3>4, Sent, Zenon DEF TypeOK
    <3>6. UsersInv'
      BY <1>e, <2>1, <2>3, <3>3, UsersKept, Zenon DEF ProviderInv, Onward
    <3>7. OnlyDroppedRevoked'
      <4>1. \A u \in Caller : task'[u].lease \cap (Queued' \cup worker'.lease) = {}
        BY <1>t, <2>1, <3>1, <3>3, <3>5 DEF ProviderInv, OnlyDroppedRevoked, UsersInv
      <4>2. Queued' \cap worker'.lease = {}
        BY <2>1, <3>4, <3>5, Zenon DEF ProviderInv, OnlyDroppedRevoked
      <4>3. \A x \in Queued' \cup worker'.lease : phase'[x] # "unborn"
        BY <2>1, <3>2, <3>5, Zenon DEF ProviderInv, OnlyDroppedRevoked
      <4> QED
        BY <3>5, <4>1, <4>2, <4>3, Zenon DEF OnlyDroppedRevoked, Distinct
    <3>8. LeasesAccountedFor'
      BY <1>t, <2>1, <2>3, <3>2, <3>3, <3>5, Zenon DEF ProviderInv, LeasesAccountedFor
    <3>9. EndInv' /\ WorkerOutlivesGuards'
      <4>1. Acquiring' \subseteq Acquiring /\ Holders' \subseteq Holders
        BY <1>t, <3>3, Zenon DEF Acquiring, Holders
      <4>2. worker.pc # "ended"
        BY <2>3, Zenon DEF HasRoom, ChannelOpen
      <4> QED
        BY <2>1, <4>1, <4>2, Zenon DEF ProviderInv, EndInv, WorkerOutlivesGuards
    <3> QED
      BY <3>6, <3>7, <3>8, <3>9, Zenon DEF ProviderInv
  <2> QED
    BY <1>k, <2>2, <2>3, Zenon DEF DropGuard, Forsake
<1>l. ASSUME NEW h \in Helper, HelperAsks(h) PROVE ProviderInv'
  <2>1. task[h].lease = {} /\ UNCHANGED <<provider, channel, worker>>
    BY <1>l, <1>h, <1>e, <1>i, Zenon DEF HelperAsks
  <2>2. CASE \E id \in LeaseId : /\ Contract!Grant(id)
                                 /\ Goto(h, "granted", {id})
                                 /\ Forsake({id})
    BY <1>h, <2>1, <2>2, GrantStep, Zenon DEF Forsake
  <2>3. CASE Goto(h, "exited", {}) /\ UNCHANGED <<vaultVars, forsaken>>
    BY <1>h, <2>1, <2>3, MoveStep, Zenon DEF vaultVars
  <2> QED
    BY <1>l, <2>2, <2>3, Zenon DEF HelperAsks
<1>m. ASSUME NEW h \in Helper, HelperAnswers(h) PROVE ProviderInv'
  <2>1. UNCHANGED phase
    <3>1. CASE UNCHANGED vaultVars
      BY <3>1, Zenon DEF vaultVars
    <3>2. CASE \E id \in task[h].lease : \/ Contract!Authorize(id, h)
                                         \/ Contract!Deliver(id, h)
                                         \/ Contract!Withdraw(id, h)
      BY <3>2, <1>h, LeaseOf, UseAfter, Zenon
    <3> QED
      BY <1>m, <3>1, <3>2, Zenon DEF HelperAnswers
  <2>2. Goto(h, "fetched", task[h].lease) \/ Goto(h, "exited", {})
    BY <1>m, Zenon DEF HelperAnswers
  <2>3. UNCHANGED <<provider, channel, worker, forsaken>>
    BY <1>m, Zenon DEF HelperAnswers
  <2> QED
    BY <1>h, <2>1, <2>2, <2>3, LeaseOf, MoveStep
<1>n. ASSUME InsertStatic PROVE ProviderInv'
  BY <1>n, <1>e, QuietStep, Zenon
     DEF InsertStatic, vaultVars, Onward, Acquiring, Holders, ProviderInv, EndInv
<1>o. ASSUME DropProvider PROVE ProviderInv'
  BY <1>o, <1>e, QuietStep, Zenon DEF DropProvider, vaultVars, Onward, Acquiring, Holders
<1>p. ASSUME Receive PROVE ProviderInv'
  <2>1. /\ channel # <<>> /\ channel' = Tail(channel) /\ worker.pc = "idle"
        /\ worker'.pc = "revoking" /\ worker'.lease = {Head(channel)}
        /\ UNCHANGED <<phase, task, provider, forsaken>>
    BY <1>p, Zenon DEF Receive, At, vaultVars
  <2>2. /\ Head(channel) \in Queued /\ Queued' = Queued \ {Head(channel)} /\ Distinct'
        /\ worker.lease = {}
    BY <2>1, Received, Zenon DEF TypeOK, ProviderInv, OnlyDroppedRevoked, Distinct, EndInv
  <2>3. UsersInv'
    BY <1>e, <2>1, UsersKept, Zenon DEF ProviderInv, Onward
  <2>4. OnlyDroppedRevoked'
    <3>1. Queued' \cup worker'.lease = Queued \cup worker.lease
      BY <2>1, <2>2, Zenon
    <3>2. Queued' \cap worker'.lease = {}
      BY <2>1, <2>2, Zenon
    <3> QED
      BY <2>1, <2>2, <3>1, <3>2, Zenon DEF ProviderInv, OnlyDroppedRevoked, Distinct
  <2>5. LeasesAccountedFor'
    BY <2>1, <2>2, Zenon DEF ProviderInv, LeasesAccountedFor
  <2>6. EndInv' /\ WorkerOutlivesGuards'
    BY <2>1, Zenon DEF ProviderInv, EndInv, WorkerOutlivesGuards, Acquiring
  <2> QED
    BY <2>3, <2>4, <2>5, <2>6, Zenon DEF ProviderInv
<1>q. ASSUME WorkerEnds \/ RevokeOne \/ RevokeFails PROVE ProviderInv'
  <2>1. /\ worker'.lease = {} /\ worker'.pc # "revoking"
        /\ UNCHANGED <<task, provider, channel>> /\ forsaken \subseteq forsaken'
        /\ worker.pc # "ended"
    BY <1>q DEF WorkerEnds, RevokeOne, RevokeFails, Forsake, At
  <2>2. \A x \in LeaseId : /\ phase'[x] = "unborn" => phase[x] = "unborn"
                           /\ phase'[x] = "granted" => phase[x] = "granted"
                           /\ phase'[x] = "granted" /\ x \in worker.lease => x \in forsaken'
    <3>1. CASE WorkerEnds
      BY <3>1, Zenon DEF WorkerEnds, vaultVars, ProviderInv, EndInv
    <3>2. CASE RevokeOne
      BY <3>2, EndAfter DEF RevokeOne
    <3>3. CASE RevokeFails
      BY <3>3, Zenon DEF RevokeFails, vaultVars, Forsake
    <3> QED
      BY <1>q, <3>1, <3>2, <3>3, Zenon
  <2>3. UsersInv'
    BY <1>e, <2>1, <2>2, UsersKept, Zenon DEF ProviderInv, Onward
  <2>4. Queued' = Queued /\ Queued \subseteq LeaseId
    BY <2>1, QueuedTyped, Zenon DEF Queued
  <2>5. OnlyDroppedRevoked'
    BY <2>1, <2>2, <2>4, Zenon DEF ProviderInv, OnlyDroppedRevoked
  <2>6. LeasesAccountedFor'
    BY <2>1, <2>2, <2>4, Zenon DEF ProviderInv, LeasesAccountedFor
  <2>7. EndInv'
    BY <2>1, Zenon DEF ProviderInv, EndInv, Acquiring
  <2>8. WorkerOutlivesGuards'
    <3>1. worker'.pc = "ended" => WorkerEnds
      BY <1>q DEF RevokeOne, RevokeFails, At
    <3> QED
      BY <3>1, Zenon DEF WorkerEnds, WorkerOutlivesGuards, Holders
  <2> QED
    BY <2>3, <2>5, <2>6, <2>7, <2>8, Zenon DEF ProviderInv
<1>r. ASSUME Expire PROVE ProviderInv'
  <2>1. \A x \in LeaseId : /\ phase'[x] = "unborn" => phase[x] = "unborn"
                           /\ phase'[x] = "granted" => phase[x] = "granted"
    BY <1>r, EndAfter, Zenon DEF Expire
  <2> QED
    BY <1>r, <1>e, <2>1, QuietStep, Zenon
       DEF Expire, Onward, Acquiring, Holders, ProviderInv, EndInv
<1>s. ASSUME VaultRestarts PROVE ProviderInv'
  <2>1. \A x \in LeaseId : /\ phase'[x] = "unborn" => phase[x] = "unborn"
                           /\ phase'[x] # "granted"
    BY <1>s, CrashAfter, Zenon DEF VaultRestarts
  <2>2. \A u \in Caller :
          \/ task'[u] = task[u] /\ task[u].pc \notin {"asked", "granted", "fetched"}
          \/ task'[u].lease = {} /\ task'[u].pc \in {"idle", "exited"}
    BY <1>s, Zenon DEF VaultRestarts, At
  <2>3. \A u \in Caller :
          /\ task'[u].lease \subseteq task[u].lease
          /\ task'[u].pc \in {"idle", "asked", "exited"} => task'[u].lease = {}
    BY <1>e, <2>2, Zenon
  <2>4. Acquiring' = {} /\ Holders' \subseteq Holders
    BY <1>t, <2>2, Zenon DEF Acquiring, Holders
  <2>5. \A u \in Task : \A x \in task[u].lease : phase'[x] # "granted"
    BY <1>t, <2>1, LeaseOf, Zenon
  <2>6. Onward /\ UNCHANGED <<provider, channel, worker>>
    BY <1>s, <2>1, Zenon DEF VaultRestarts, Forsake, Onward
  <2> QED
    BY <2>1, <2>3, <2>4, <2>5, <2>6, QuietStep, Zenon
<1>u. CASE UNCHANGED vars
  BY <1>u, <1>e, QuietStep, Zenon DEF vars, Onward, Acquiring, Holders, ProviderInv, EndInv
<1> QED
  BY <1>a, <1>b, <1>c, <1>d, <1>f, <1>g, <1>j, <1>k, <1>l, <1>m, <1>n, <1>o, <1>p, <1>q,
     <1>r, <1>s, <1>u, Zenon DEF Next, WorkerStep

LEMMA ProviderInvariant == Spec => []ProviderInv
<1>1. Init => ProviderInv
  <2> SUFFICES ASSUME Init PROVE ProviderInv
    BY Zenon
  <2>1. /\ \A t \in Caller : task[t].pc = "idle" /\ task[t].lease = {}
        /\ worker.pc = "idle" /\ worker.lease = {} /\ provider /\ Queued = {}
        /\ \A id \in LeaseId : phase[id] = "unborn"
    BY DEF Init, Contract!Init, Idle, At, Queued
  <2>2. (\A h \in Helper : h \in Caller) /\ Len(channel) = 0
    BY Zenon DEF Caller, Init
  <2> QED
    BY <2>1, <2>2 DEF ProviderInv, UsersInv, EndInv, OnlyDroppedRevoked,
                      LeasesAccountedFor, WorkerOutlivesGuards
<1>2. TypeOK /\ ProviderInv /\ [Next]_vars => ProviderInv'
  BY ProviderStep, Zenon
<1> QED
  BY <1>1, <1>2, ProviderTyped, PTL DEF Spec

(* No guard for a lease that is on its way to revocation is held, and each *)
(* lease is on its way once, whatever tasks, helpers and restarts do       *)
(* (CredentialGuard::drop, revocation_worker).                             *)
THEOREM DroppedBeforeRevoked == Spec => []OnlyDroppedRevoked
<1>1. ProviderInv => OnlyDroppedRevoked
  BY Zenon DEF ProviderInv
<1> QED
  BY <1>1, ProviderInvariant, PTL

(* Every lease that runs has a user, is on its way to revocation, or was   *)
(* given up at one of the lines where the code gives up (acquire,          *)
(* CredentialGuard::drop, revocation_worker, handle_get).                  *)
THEOREM NoLeaseForgotten == Spec => []LeasesAccountedFor
<1>1. ProviderInv => LeasesAccountedFor
  BY Zenon DEF ProviderInv
<1> QED
  BY <1>1, ProviderInvariant, PTL

(* The worker ends after the provider, the last guard and the last lease   *)
(* sent: a guard never meets a closed channel (revocation_worker).         *)
THEOREM ChannelOpenToGuards == Spec => []WorkerOutlivesGuards
<1>1. ProviderInv => WorkerOutlivesGuards
  BY Zenon DEF ProviderInv
<1> QED
  BY <1>1, ProviderInvariant, PTL
=============================================================================
