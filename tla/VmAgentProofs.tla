---------------------------- MODULE VmAgentProofs ----------------------------
(***************************************************************************)
(* What TLAPS proves of VmAgent, for any manifests, any number of leases   *)
(* and connections, and any durations.                                     *)
(***************************************************************************)
EXTENDS VmAgent, TLAPS

-----------------------------------------------------------------------------
(* The inductive invariant                                                 *)

Timers == {{}} \cup {{n} : n \in Ticks}

TaskStates ==
    {IdleTask} \cup [pc : {"connect", "open"}, handler : {"connect", "sni"},
                     lease : LeaseId, timer : Timers, waited : 0 .. MaxConnect]

ProvStates ==
    [pc : {"off", "request", "access", "rollback", "env_file", "lease_file", "failed"},
     manifest : Seq(STRING), entry : Nat, up : BOOLEAN, acquired : Seq(LeaseId),
     state : LeaseStates, owed : SUBSET LeaseId]

Typed ==
    /\ vault \in [LeaseId -> {"unused", "live", "rolled_back"}]
    /\ left \in [LeaseId -> Int] /\ \A l \in LeaseId : left[l] >= Gone
    /\ prov \in ProvStates
    /\ file \in SUBSET LeaseStates /\ fresh \in SUBSET LeaseStates
    /\ cached \in LeaseStates
    /\ tasks \in [Task -> TaskStates]

Distinct(s) == \A i, j \in 1 .. Len(s) : s[i] = s[j] => i = j

Acquiring == prov.pc \in {"request", "access"}

Writing == prov.pc \in {"env_file", "lease_file"}

\* the provisioner's locals cover the entries before the current one, then
\* the whole manifest
CoverInv ==
    /\ Acquiring =>
         /\ prov.manifest \in Manifests
         /\ prov.entry \in 1 .. Len(prov.manifest)
         /\ DOMAIN prov.state = {prov.manifest[i] : i \in 1 .. (prov.entry - 1)}
    /\ Writing => \E m \in Manifests : DOMAIN prov.state = Range(m)

\* what it owes is live until the rollback, which reaches all of it
OwedInv ==
    /\ Distinct(prov.acquired) /\ Range(prov.acquired) \subseteq prov.owed
    /\ prov.pc = "access" => prov.acquired # <<>>
    /\ Acquiring => prov.owed \subseteq Range(prov.acquired)
    /\ Acquiring \/ Writing =>
         Range(prov.state) \subseteq prov.owed /\ \A l \in prov.owed : vault[l] = "live"
    /\ prov.pc = "rollback" =>
         \A l \in prov.owed : l \in Range(prov.acquired) \/ vault[l] # "live"
    /\ FailureRevokes

\* the leases in the lease file, in the proxy's copies and behind tunnels
Served ==
    {l \in LeaseId : \/ \E f \in file \cup fresh \cup {cached} : l \in Range(f)
                    \/ \E t \in Task : tasks[t].pc # "idle" /\ tasks[t].lease = l}

\* a lease is either owed by the provisioner or may be served
ServedInv == \A l \in Served : vault[l] = "live" /\ l \notin prov.owed

\* an admitted connection's timer ends with the lease, give or take the wait
TimerInv ==
    \A t \in Task : tasks[t].pc # "idle" =>
        \A n \in tasks[t].timer : n = 0 \/ n <= left[tasks[t].lease] + tasks[t].waited

AgentInv == Typed /\ CoverInv /\ NoPartialFile /\ OwedInv /\ ServedInv /\ TimerInv

-----------------------------------------------------------------------------
(* Lease states and sequences of leases                                    *)

LEMMA StateIs ==
    ASSUME NEW f \in LeaseStates
    PROVE  /\ f = [x \in DOMAIN f |-> f[x]] /\ DOMAIN f \subseteq Domains
           /\ \A x \in DOMAIN f : f[x] \in LeaseId
           /\ Range(f) \subseteq LeaseId
BY DEF LeaseStates, Range

LEMMA IsState ==
    ASSUME NEW f, NEW S \in SUBSET Domains, f \in [S -> LeaseId]
    PROVE  f \in LeaseStates
BY Zenon DEF LeaseStates

LEMMA NoLeasesIs == NoLeases \in LeaseStates /\ Range(NoLeases) = {} /\ DOMAIN NoLeases = {}
<1>1. NoLeases \in [{} -> LeaseId] /\ DOMAIN NoLeases = {}
  BY Zenon DEF NoLeases
<1> QED
  BY <1>1, IsState, Zenon DEF Range

LEMMA PrunedIs ==
    ASSUME NEW f \in LeaseStates
    PROVE  Pruned(f) \in LeaseStates /\ Range(Pruned(f)) \subseteq Range(f)
<1> DEFINE S == {d \in DOMAIN f : Unexpired(f, d)}
<1>1. Pruned(f) = [x \in S |-> f[x]]
  BY Zenon DEF Pruned, Restrict
<1>2. S \in SUBSET Domains /\ \A x \in S : x \in DOMAIN f /\ f[x] \in LeaseId
  BY StateIs, Zenon
<1> HIDE DEF S
<1>3. Pruned(f) \in [S -> LeaseId]
  BY <1>1, <1>2, Zenon
<1> QED
  BY <1>1, <1>2, <1>3, IsState DEF Range

LEMMA ReadIs ==
    ASSUME Typed
    PROVE  /\ ReadOrDefault \in LeaseStates
           /\ ReadOrDefault \in file \/ Range(ReadOrDefault) = {}
BY NoLeasesIs, Zenon DEF Typed, ReadOrDefault

LEMMA AppendIs ==
    ASSUME NEW s \in Seq(LeaseId), NEW l \in LeaseId, Distinct(s), l \notin Range(s)
    PROVE  /\ Append(s, l) \in Seq(LeaseId) /\ Distinct(Append(s, l))
           /\ Range(Append(s, l)) = Range(s) \cup {l} /\ Append(s, l) # <<>>
           /\ Append(s, l)[Len(Append(s, l))] = l
<1> DEFINE a == Append(s, l)
<1>1. /\ a \in Seq(LeaseId) /\ Len(a) = Len(s) + 1 /\ DOMAIN a = 1 .. Len(s) + 1
      /\ DOMAIN s = 1 .. Len(s) /\ Len(s) \in Nat
      /\ \A i \in 1 .. Len(s) : a[i] = s[i]
      /\ a[Len(s) + 1] = l
  OBVIOUS
<1> HIDE DEF a
<1>2. \A i \in 1 .. Len(s) + 1 : i \in 1 .. Len(s) \/ i = Len(s) + 1
  BY <1>1
<1>3. Range(a) = Range(s) \cup {l}
  BY <1>1, <1>2 DEF Range
<1>4. \A i \in 1 .. Len(s) : s[i] # l
  BY <1>1, Zenon DEF Range
<1>5. Distinct(a)
  BY <1>1, <1>2, <1>4, Zenon DEF Distinct
<1> QED
  BY <1>1, <1>3, <1>5 DEF a

LEMMA TailIs ==
    ASSUME NEW s \in Seq(LeaseId), Distinct(s), s # <<>>
    PROVE  /\ Tail(s) \in Seq(LeaseId) /\ Distinct(Tail(s))
           /\ Head(s) \in LeaseId /\ Head(s) \in Range(s)
           /\ Range(Tail(s)) = Range(s) \ {Head(s)}
<1> DEFINE a == Tail(s)
<1>1. /\ a \in Seq(LeaseId) /\ Len(a) = Len(s) - 1 /\ DOMAIN a = 1 .. (Len(s) - 1)
      /\ DOMAIN s = 1 .. Len(s) /\ Len(s) \in Nat /\ Len(s) >= 1
      /\ \A i \in 1 .. (Len(s) - 1) : a[i] = s[i + 1]
      /\ Head(s) = s[1] /\ s[1] \in LeaseId
  OBVIOUS
<1> HIDE DEF a
<1>2. \A i \in 1 .. Len(s) : i = 1 \/ (i - 1 \in 1 .. (Len(s) - 1) /\ s[i] = a[i - 1])
  BY <1>1
<1>3. \A i \in 1 .. (Len(s) - 1) : a[i] # s[1] /\ i + 1 \in 1 .. Len(s)
  BY <1>1 DEF Distinct
<1>4. Range(a) = Range(s) \ {s[1]}
  <2>1. ASSUME NEW x \in Range(a) PROVE x \in Range(s) \ {s[1]}
    <3>1. PICK i \in 1 .. (Len(s) - 1) : x = a[i]
      BY <1>1, <2>1, Zenon DEF Range
    <3> QED
      BY <1>1, <1>3, <3>1, Zenon DEF Range
  <2>2. ASSUME NEW x \in Range(s), x # s[1] PROVE x \in Range(a)
    <3>1. PICK i \in 1 .. Len(s) : x = s[i]
      BY <1>1, <2>2, Zenon DEF Range
    <3>2. x = a[i - 1] /\ i - 1 \in DOMAIN a
      BY <1>1, <1>2, <2>2, <3>1, Zenon
    <3> QED
      BY <3>2, Zenon DEF Range
  <2> QED
    BY <2>1, <2>2, Zenon
<1>5. Distinct(a)
  BY <1>1, <1>3 DEF Distinct
<1>6. s[1] \in Range(s)
  BY <1>1 DEF Range
<1> QED
  BY <1>1, <1>4, <1>5, <1>6, Zenon DEF a

LEMMA Floor ==
    ASSUME NEW a \in Nat, NEW b \in Nat \ {0}
    PROVE  (a \div b) * b \in Nat /\ (a \div b) * b <= a
OBVIOUS

-----------------------------------------------------------------------------
(* Steps of the proxy                                                      *)

\* a connection admitted by a lease that is served, for as long as it lasts
Admissible(s) ==
    s.pc # "idle" => /\ s.lease \in Served
                     /\ \A n \in s.timer : n = 0 \/ n <= left[s.lease] + s.waited

LEMMA ProxyKept ==
    ASSUME AgentInv, UNCHANGED <<vault, left, prov, file>>, cached' \in LeaseStates,
           fresh' \in SUBSET LeaseStates, tasks' \in [Task -> TaskStates],
           Served' \subseteq Served, TimerInv'
    PROVE  AgentInv'
<1>1. Typed'
  BY Zenon DEF AgentInv, Typed, ProvStates, LeaseStates, LeaseId
<1>2. CoverInv' /\ NoPartialFile'
  BY Zenon DEF AgentInv, CoverInv, NoPartialFile, Acquiring, Writing, Range
<1>3. OwedInv'
  BY DEF AgentInv, OwedInv, Distinct, Acquiring, Writing, Range, FailureRevokes
<1>4. ServedInv'
  BY Zenon DEF AgentInv, ServedInv
<1> QED
  BY <1>1, <1>2, <1>3, <1>4 DEF AgentInv

LEMMA TaskStep ==
    ASSUME AgentInv, UNCHANGED <<vault, left, prov, file, cached, fresh>>, NEW t \in Task,
           NEW s \in TaskStates, tasks' = [tasks EXCEPT ![t] = s], Admissible(s)
    PROVE  AgentInv'
<1>1. tasks \in [Task -> TaskStates]
  BY Zenon DEF AgentInv, Typed
<1>2. /\ tasks' \in [Task -> TaskStates]
      /\ \A u \in Task : tasks'[u] = IF u = t THEN s ELSE tasks[u]
  BY <1>1, Zenon
<1>3. Served' \subseteq Served
  <2> SUFFICES ASSUME NEW l \in Served' PROVE l \in Served
    BY Zenon
  <2>1. CASE \E f \in file \cup fresh \cup {cached} : l \in Range(f)
    BY <2>1, Zenon DEF Served, LeaseId
  <2>2. CASE \E u \in Task : tasks'[u].pc # "idle" /\ tasks'[u].lease = l
    BY <1>2, <2>2, Zenon DEF Served, Admissible, LeaseId
  <2> QED
    BY <2>1, <2>2, Zenon DEF Served
<1>4. TimerInv'
  BY <1>2, Zenon DEF AgentInv, TimerInv, Admissible
<1>5. cached' \in LeaseStates /\ fresh' \in SUBSET LeaseStates
  BY Zenon DEF AgentInv, Typed
<1> QED
  BY <1>2, <1>3, <1>4, <1>5, ProxyKept, Zenon

(* A connection the lease check let through.                               *)
LEMMA AdmitStep ==
    ASSUME AgentInv, UNCHANGED <<vault, left, prov, file, cached, fresh>>, NEW t \in Task,
           NEW d \in DOMAIN cached, NEW handler \in {"connect", "sni"}, NEW timer \in Timers,
           \A n \in timer : n <= left[cached[d]], Admit(t, handler, cached[d], timer)
    PROVE  AgentInv'
<1> DEFINE s == [pc |-> "connect", handler |-> handler, lease |-> cached[d],
                 timer |-> timer, waited |-> 0]
<1>1. cached[d] \in LeaseId /\ cached[d] \in Served
  <2>1. cached[d] \in LeaseId /\ cached[d] \in Range(cached)
    BY StateIs, Zenon DEF AgentInv, Typed, Range
  <2> QED
    BY <2>1, Zenon DEF Served
<1>2. s \in TaskStates
  BY <1>1, TimeAssumption DEF TaskStates
<1>3. Admissible(s)
  <2>1. left[cached[d]] \in Int
    BY <1>1, Zenon DEF AgentInv, Typed
  <2>2. \A n \in timer : n \in Int
    BY TimeAssumption DEF Timers, Ticks
  <2> QED
    BY <1>1, <2>1, <2>2 DEF Admissible
<1>4. tasks' = [tasks EXCEPT ![t] = s]
  BY Zenon DEF Admit
<1> HIDE DEF s
<1> QED
  BY <1>2, <1>3, <1>4, TaskStep, ZenonT(40)

LEMMA ConnectStep ==
    ASSUME AgentInv, NEW t \in Task, HandleConnect(t) \/ HandleTransparent(t)
    PROVE  AgentInv'
<1>0. UNCHANGED <<vault, left, prov, file, cached, fresh>>
  BY Zenon DEF HandleConnect, HandleTransparent
<1>1. CASE HandleConnect(t)
  <2>1. PICK d \in DOMAIN cached :
          left[cached[d]] > 0 /\ Admit(t, "connect", cached[d], {TunnelTimeout(cached[d])})
    BY <1>1, Zenon DEF HandleConnect, Unexpired
  <2>2. left[cached[d]] \in Nat
    BY <2>1, StateIs DEF AgentInv, Typed
  <2>3. TunnelTimeout(cached[d]) \in Ticks /\ TunnelTimeout(cached[d]) <= left[cached[d]]
    <3> DEFINE whole == (left[cached[d]] \div Second) * Second
    <3>1. whole \in Nat /\ whole <= left[cached[d]]
      BY <2>2, Floor, TimeAssumption, Zenon
    <3>2. TunnelTimeout(cached[d]) = IF whole > MaxTunnel THEN MaxTunnel ELSE whole
      BY Zenon DEF TunnelTimeout
    <3> HIDE DEF whole
    <3> QED
      BY <2>2, <3>1, <3>2, TimeAssumption DEF Ticks
  <2>4. {TunnelTimeout(cached[d])} \in Timers
    BY <2>3, Zenon DEF Timers
  <2> QED
    BY <1>0, <2>1, <2>3, <2>4, AdmitStep
<1>2. CASE HandleTransparent(t)
  <2>1. PICK d \in DOMAIN cached : Admit(t, "sni", cached[d], {})
    BY <1>2, Zenon DEF HandleTransparent
  <2>2. {} \in Timers
    BY Zenon DEF Timers
  <2> QED
    BY <1>0, <2>1, <2>2, AdmitStep, Zenon
<1> QED
  BY <1>1, <1>2, Zenon

LEMMA TunnelStep ==
    ASSUME AgentInv, NEW t \in Task, ConnectUpstream(t) \/ TunnelEnds(t) \/ TunnelTimesOut(t)
    PROVE  AgentInv'
<1>0. UNCHANGED <<vault, left, prov, file, cached, fresh>>
  BY Zenon DEF ConnectUpstream, TunnelEnds, TunnelTimesOut
<1>1. CASE tasks' = [tasks EXCEPT ![t] = IdleTask]
  <2>1. IdleTask \in TaskStates /\ Admissible(IdleTask)
    BY Zenon DEF TaskStates, IdleTask, Admissible
  <2> QED
    BY <1>0, <1>1, <2>1, TaskStep, Zenon
<1>2. CASE tasks[t].pc = "connect" /\ tasks' = [tasks EXCEPT ![t].pc = "open"]
  <2> DEFINE s == [tasks[t] EXCEPT !.pc = "open"]
  <2>1. tasks[t] \in TaskStates /\ tasks[t] # IdleTask
    BY <1>2 DEF AgentInv, Typed, IdleTask
  <2>2. /\ s \in TaskStates /\ s.lease = tasks[t].lease /\ s.timer = tasks[t].timer
        /\ s.waited = tasks[t].waited
    BY <2>1, Zenon DEF TaskStates
  <2>3. tasks' = [tasks EXCEPT ![t] = s]
    BY <1>2, Zenon
  <2> HIDE DEF s
  <2>4. s.lease \in LeaseId
    BY <2>1, <2>2, Zenon DEF TaskStates
  <2>5. Admissible(s)
    BY <1>2, <2>2, <2>4, Zenon DEF AgentInv, TimerInv, Admissible, Served
  <2> QED
    BY <1>0, <2>2, <2>3, <2>5, TaskStep, ZenonT(40)
<1> QED
  BY <1>1, <1>2, Zenon DEF ConnectUpstream, TunnelEnds, TunnelTimesOut

LEMMA CopyStep ==
    ASSUME AgentInv, StartProxy \/ Reload \/ Install \/ ReloadFails
    PROVE  AgentInv'
<1>0. UNCHANGED <<vault, left, prov, file>>
  BY Zenon DEF StartProxy, Reload, Install, ReloadFails
<1>1. /\ tasks' \in [Task -> TaskStates]
      /\ \A t \in Task : tasks'[t] = tasks[t] \/ tasks'[t].pc = "idle"
  BY DEF StartProxy, Reload, Install, ReloadFails, AgentInv, Typed, TaskStates, IdleTask
<1>2. TimerInv'
  BY <1>0, <1>1, Zenon DEF AgentInv, TimerInv
<1>3. /\ fresh' \in SUBSET LeaseStates /\ fresh' \subseteq file \cup fresh
  BY Zenon DEF StartProxy, Reload, Install, ReloadFails, AgentInv, Typed
<1>4. /\ cached' \in LeaseStates
      /\ \/ Range(cached') = {}
         \/ \E f \in file \cup fresh \cup {cached} : Range(cached') \subseteq Range(f)
  <2>1. CASE StartProxy
    BY <2>1, ReadIs, NoLeasesIs, Zenon DEF StartProxy, AgentInv
  <2>2. CASE Install
    <3>1. PICK f \in fresh : cached' = Pruned(f)
      BY <2>2, Zenon DEF Install
    <3> QED
      BY <3>1, PrunedIs, Zenon DEF AgentInv, Typed
  <2>3. CASE ReloadFails
    BY <2>3, PrunedIs, Zenon DEF ReloadFails, AgentInv, Typed
  <2>4. CASE Reload
    BY <2>4, Zenon DEF Reload, AgentInv, Typed
  <2> QED
    BY <2>1, <2>2, <2>3, <2>4, Zenon
<1>5. Served' \subseteq Served
  <2> SUFFICES ASSUME NEW l \in Served' PROVE l \in Served
    BY Zenon
  <2>1. CASE \E t \in Task : tasks'[t].pc # "idle" /\ tasks'[t].lease = l
    BY <1>1, <2>1, Zenon DEF Served, LeaseId
  <2>2. CASE \E f \in file \cup fresh : l \in Range(f)
    BY <2>2, Zenon DEF Served, LeaseId
  <2>3. CASE l \in Range(cached')
    BY <1>4, <2>3, Zenon DEF Served, LeaseId
  <2> QED
    BY <1>0, <1>3, <2>1, <2>2, <2>3 DEF Served
<1> QED
  BY <1>0, <1>1, <1>2, <1>3, <1>4, <1>5, ProxyKept

(* What a tick does to one connection.                                     *)
LEMMA TaskTickIs ==
    ASSUME NEW s \in TaskStates
    PROVE  /\ TaskTick(s) \in TaskStates
           /\ s.pc = "idle" => TaskTick(s) = s
           /\ TaskTick(s).pc # "idle" =>
                /\ TaskTick(s).lease = s.lease /\ s.pc # "idle"
                /\ \/ /\ TaskTick(s).timer = s.timer
                      /\ TaskTick(s).waited = s.waited + 1
                   \/ /\ TaskTick(s).timer = {IF n = 0 THEN 0 ELSE n - 1 : n \in s.timer}
                      /\ TaskTick(s).waited = s.waited
<1>1. CASE s = IdleTask
  <2>1. TaskTick(s) = s /\ s.pc = "idle"
    BY <1>1, Zenon DEF TaskTick, IdleTask
  <2> QED
    BY <2>1, Zenon
<1>2. CASE s # IdleTask
  <2>0. s \in [pc : {"connect", "open"}, handler : {"connect", "sni"}, lease : LeaseId,
               timer : Timers, waited : 0 .. MaxConnect]
    BY <1>2, Zenon DEF TaskStates
  <2>1. CASE s.pc = "connect" /\ s.waited = MaxConnect
    <3>1. TaskTick(s) = IdleTask /\ IdleTask.pc = "idle" /\ IdleTask \in TaskStates
      BY <2>1, Zenon DEF TaskTick, IdleTask, TaskStates
    <3> QED
      BY <2>1, <3>1, Zenon
  <2>2. CASE s.pc = "connect" /\ s.waited # MaxConnect
    <3> DEFINE r == [s EXCEPT !.waited = @ + 1]
    <3>1. TaskTick(s) = r
      BY <2>2, Zenon DEF TaskTick
    <3>2. s.waited + 1 \in 0 .. MaxConnect
      BY <2>0, <2>2, TimeAssumption
    <3>3. r \in TaskStates
      BY <2>0, <3>2, Zenon DEF TaskStates
    <3>4. r.lease = s.lease /\ r.timer = s.timer /\ r.waited = s.waited + 1 /\ r.pc = s.pc
      BY <2>0, Zenon
    <3> HIDE DEF r
    <3> QED
      BY <2>2, <3>1, <3>3, <3>4
  <2>3. CASE s.pc = "open"
    <3> DEFINE timer == {IF n = 0 THEN 0 ELSE n - 1 : n \in s.timer}
               r == [s EXCEPT !.timer = timer]
    <3>1. TaskTick(s) = r
      BY <2>3, Zenon DEF TaskTick
    <3>2. timer \in Timers
      <4>1. CASE s.timer = {}
        BY <4>1, Zenon DEF Timers
      <4>2. CASE s.timer # {}
        <5>1. PICK n \in Ticks : s.timer = {n}
          BY <2>0, <4>2, Zenon DEF Timers
        <5>2. timer = {IF n = 0 THEN 0 ELSE n - 1} /\ (IF n = 0 THEN 0 ELSE n - 1) \in Ticks
          BY <5>1, TimeAssumption DEF Ticks
        <5> QED
          BY <5>2, Zenon DEF Timers
      <4> QED
        BY <4>1, <4>2, Zenon
    <3> HIDE DEF timer
    <3>3. r \in TaskStates
      BY <2>0, <3>2, Zenon DEF TaskStates
    <3>4. r.lease = s.lease /\ r.timer = timer /\ r.waited = s.waited /\ r.pc = s.pc
      BY <2>0, Zenon
    <3> HIDE DEF r
    <3> QED
      BY <2>3, <3>1, <3>3, <3>4 DEF timer
  <2> QED
    BY <2>0, <2>1, <2>2, <2>3
<1> QED
  BY <1>1, <1>2, Zenon

LEMMA TickStep ==
    ASSUME AgentInv, Tick
    PROVE  AgentInv'
<1>0. UNCHANGED <<vault, prov, file, cached, fresh>> /\ Typed
  BY Zenon DEF Tick, AgentInv
<1>1. \A t \in Task : tasks[t] \in TaskStates /\ tasks'[t] = TaskTick(tasks[t])
  BY Zenon DEF Tick, AgentInv, Typed
<1>2. Typed'
  <2>1. tasks' \in [Task -> TaskStates]
    BY <1>1, TaskTickIs, Zenon DEF Tick
  <2>2. left' \in [LeaseId -> Int] /\ \A l \in LeaseId : left'[l] >= Gone
    BY <1>0, TimeAssumption DEF Tick, Typed, Gone
  <2> QED
    BY <1>0, <2>1, <2>2, Zenon DEF Typed, ProvStates, LeaseStates, LeaseId, TaskStates, Timers, Gone
<1>3. CoverInv' /\ NoPartialFile'
  BY <1>0, Zenon DEF AgentInv, CoverInv, NoPartialFile, Acquiring, Writing, Range
<1>4. OwedInv'
  BY <1>0 DEF AgentInv, OwedInv, Distinct, Acquiring, Writing, Range, FailureRevokes
<1>5. ServedInv'
  <2>1. \A t \in Task : tasks'[t].pc # "idle" =>
          tasks[t].pc # "idle" /\ tasks'[t].lease = tasks[t].lease
    BY <1>1, TaskTickIs
  <2>2. Served' \subseteq Served
    BY <1>0, <2>1, Zenon DEF Served, LeaseId
  <2> QED
    BY <1>0, <2>2, Zenon DEF AgentInv, ServedInv
<1>6. TimerInv'
  <2> SUFFICES ASSUME NEW t \in Task, tasks'[t].pc # "idle", NEW n \in tasks'[t].timer
               PROVE  n = 0 \/ n <= left'[tasks'[t].lease] + tasks'[t].waited
    BY Zenon DEF TimerInv
  <2> DEFINE l == tasks[t].lease
             w == tasks[t].waited
  <2>1. /\ tasks[t].pc # "idle" /\ tasks'[t].lease = l
        /\ \/ tasks'[t].timer = tasks[t].timer /\ tasks'[t].waited = w + 1
           \/ /\ tasks'[t].timer = {IF k = 0 THEN 0 ELSE k - 1 : k \in tasks[t].timer}
              /\ tasks'[t].waited = w
    BY <1>1, TaskTickIs, Zenon
  <2>2. /\ l \in LeaseId /\ w \in 0 .. MaxConnect /\ \A k \in tasks[t].timer : k \in Nat
    BY <1>1, <2>1, TimeAssumption DEF TaskStates, IdleTask, Timers, Ticks
  <2>3. \A k \in tasks[t].timer : k = 0 \/ k <= left[l] + w
    BY <2>1, Zenon DEF AgentInv, TimerInv
  <2>4. /\ left[l] \in Int /\ left[l] >= Gone /\ Gone = -(MaxConnect + 1) /\ MaxConnect \in Nat
        /\ left'[l] = IF left[l] = Gone THEN Gone ELSE left[l] - 1
    BY <1>0, <2>2, TimeAssumption, Zenon DEF Typed, Tick, Gone
  <2>5. \/ n \in tasks[t].timer /\ tasks'[t].waited = w + 1
        \/ /\ tasks'[t].waited = w
           /\ \E k \in tasks[t].timer : n = IF k = 0 THEN 0 ELSE k - 1
    BY <2>1, Zenon
  <2> HIDE DEF l, w
  <2> QED
    BY <2>1, <2>2, <2>3, <2>4, <2>5
<1> QED
  BY <1>2, <1>3, <1>4, <1>5, <1>6 DEF AgentInv

-----------------------------------------------------------------------------
(* Steps of the provisioner                                                *)

LEMMA ProvKept ==
    ASSUME AgentInv, UNCHANGED <<file, proxy>>, prov' \in ProvStates,
           vault' \in [LeaseId -> {"unused", "live", "rolled_back"}],
           left' \in [LeaseId -> Int], \A l \in LeaseId : left'[l] >= Gone,
           CoverInv', OwedInv',
           \A l \in Served : /\ vault'[l] = vault[l] /\ left'[l] = left[l]
                             /\ l \notin prov'.owed
    PROVE  AgentInv'
<1>0. UNCHANGED <<file, cached, fresh, tasks>> /\ Typed
  BY Zenon DEF proxy, AgentInv
<1>1. Typed'
  BY <1>0, Zenon DEF Typed
<1>2. NoPartialFile'
  BY <1>0, Zenon DEF AgentInv, NoPartialFile
<1>3. ServedInv'
  <2>1. Served' = Served
    BY <1>0, Zenon DEF Served
  <2> QED
    BY <2>1, Zenon DEF AgentInv, ServedInv
<1>4. TimerInv'
  <2>1. \A t \in Task : tasks[t].pc # "idle" => tasks[t].lease \in Served
    BY <1>0 DEF Typed, TaskStates, IdleTask, Served
  <2> QED
    BY <1>0, <2>1, Zenon DEF AgentInv, TimerInv
<1> QED
  BY <1>1, <1>2, <1>3, <1>4 DEF AgentInv

(* ... of which most leave the vault alone.                                *)
LEMMA LocalStep ==
    ASSUME AgentInv, UNCHANGED <<vault, left, file, proxy>>, prov' \in ProvStates,
           CoverInv', OwedInv', prov'.owed \subseteq prov.owed
    PROVE  AgentInv'
<1>1. /\ vault' \in [LeaseId -> {"unused", "live", "rolled_back"}]
      /\ left' \in [LeaseId -> Int] /\ \A l \in LeaseId : left'[l] >= Gone
  BY Zenon DEF AgentInv, Typed
<1>2. \A l \in Served : l \notin prov'.owed
  BY Zenon DEF AgentInv, ServedInv
<1> QED
  BY <1>1, <1>2, ProvKept, Zenon

LEMMA ExitedIs ==
    ASSUME NEW how \in {"off", "request", "env_file", "failed"}
    PROVE  /\ Exited(how) \in ProvStates /\ Exited(how).pc = how
           /\ Exited(how).acquired = <<>> /\ Exited(how).owed = {}
           /\ Exited(how).state = NoLeases /\ Exited(how).entry = 1
BY NoLeasesIs DEF Exited, ProvStates

LEMMA NoneAcquired == Range(<<>>) = {} /\ Distinct(<<>>)
BY DEF Range, Distinct

LEMMA ExitStep ==
    ASSUME AgentInv, prov' = Exited("off"), UNCHANGED <<vault, left, file, proxy>>
    PROVE  AgentInv'
<1>1. /\ prov' \in ProvStates /\ prov'.pc = "off" /\ prov'.acquired = <<>> /\ prov'.owed = {}
  BY ExitedIs, Zenon
<1>2. CoverInv'
  BY <1>1, Zenon DEF CoverInv, Acquiring, Writing
<1>3. OwedInv'
  BY <1>1, NoneAcquired, Zenon DEF OwedInv, Acquiring, Writing, FailureRevokes
<1> QED
  BY <1>1, <1>2, <1>3, LocalStep, Zenon

LEMMA StartStep ==
    ASSUME AgentInv, StartRun
    PROVE  AgentInv'
<1>1. PICK m \in Manifests :
        prov' = [Exited(IF m = <<>> THEN "env_file" ELSE "request")
                   EXCEPT !.manifest = m, !.up = TRUE]
  BY Zenon DEF StartRun
<1>2. m \in Seq(STRING)
  BY ManifestAssumption, Zenon
<1>3. /\ prov' \in ProvStates /\ prov'.manifest = m
      /\ prov'.pc = IF m = <<>> THEN "env_file" ELSE "request"
      /\ prov'.acquired = <<>> /\ prov'.owed = {}
      /\ prov'.state = NoLeases /\ prov'.entry = 1
  <2> DEFINE pc == IF m = <<>> THEN "env_file" ELSE "request"
             e == Exited(pc)
  <2>1. /\ e \in ProvStates /\ e.pc = pc /\ e.acquired = <<>> /\ e.owed = {}
        /\ e.state = NoLeases /\ e.entry = 1
    BY ExitedIs, Zenon
  <2>2. prov' = [e EXCEPT !.manifest = m, !.up = TRUE]
    BY <1>1, Zenon
  <2> HIDE DEF e, pc
  <2>3. /\ prov' \in ProvStates /\ prov'.manifest = m /\ prov'.pc = e.pc
        /\ prov'.acquired = e.acquired /\ prov'.owed = e.owed
        /\ prov'.state = e.state /\ prov'.entry = e.entry
    BY <1>2, <2>1, <2>2, ZenonT(40) DEF ProvStates
  <2> QED
    BY <2>1, <2>3, Zenon DEF pc
<1>4. CoverInv'
  <2>1. CASE m = <<>>
    <3>1. Range(m) = {} /\ DOMAIN prov'.state = {}
      BY <1>3, <2>1, NoLeasesIs, NoneAcquired
    <3> QED
      BY <1>3, <2>1, <3>1 DEF CoverInv, Acquiring, Writing
  <2>2. CASE m # <<>>
    <3>1. 1 \in 1 .. Len(m)
      BY <1>2, <2>2
    <3>2. DOMAIN prov'.state = {m[i] : i \in 1 .. (1 - 1)}
      BY <1>3, NoLeasesIs
    <3> QED
      BY <1>3, <2>2, <3>1, <3>2 DEF CoverInv, Acquiring, Writing
  <2> QED
    BY <2>1, <2>2, Zenon
<1>5. OwedInv'
  BY <1>3, NoneAcquired, NoLeasesIs, Zenon DEF OwedInv, Acquiring, Writing, FailureRevokes
<1>6. UNCHANGED <<vault, left, file, proxy>>
  BY Zenon DEF StartRun
<1> QED
  BY <1>3, <1>4, <1>5, <1>6, LocalStep

(* An acquisition that fails turns to the rollback with all it was granted. *)
LEMMA TurnBack ==
    ASSUME AgentInv, Acquiring, NEW up \in BOOLEAN, UNCHANGED <<file, proxy>>,
           prov' = [prov EXCEPT !.pc = "rollback", !.up = up],
           vault' \in [LeaseId -> {"unused", "live", "rolled_back"}],
           left' \in [LeaseId -> Int], \A l \in LeaseId : left'[l] >= Gone,
           \A l \in Served : vault'[l] = vault[l] /\ left'[l] = left[l]
    PROVE  AgentInv'
<1>1. /\ prov' \in ProvStates /\ prov'.pc = "rollback" /\ prov'.acquired = prov.acquired
      /\ prov'.owed = prov.owed
  <2>1. prov \in ProvStates
    BY Zenon DEF AgentInv, Typed
  <2>2. prov' \in ProvStates
    BY <2>1, Zenon DEF ProvStates
  <2>3. prov'.pc = "rollback" /\ prov'.acquired = prov.acquired /\ prov'.owed = prov.owed
    BY <2>1, Zenon DEF ProvStates
  <2> QED
    BY <2>2, <2>3, Zenon
<1>2. CoverInv'
  BY <1>1, Zenon DEF CoverInv, Acquiring, Writing
<1>3. OwedInv'
  BY <1>1, Zenon DEF AgentInv, OwedInv, Acquiring, Writing, FailureRevokes
<1>4. \A l \in Served : l \notin prov'.owed
  BY <1>1, Zenon DEF AgentInv, ServedInv
<1> QED
  BY <1>1, <1>2, <1>3, <1>4, ProvKept, Zenon

LEMMA RequestStep ==
    ASSUME AgentInv, RequestLease
    PROVE  AgentInv'
<1>0. prov.pc = "request" /\ prov \in ProvStates /\ Acquiring /\ UNCHANGED <<file, proxy>> /\ Typed
  BY ZenonT(40) DEF RequestLease, AgentInv, Typed, Acquiring
<1>1. CASE prov' = [prov EXCEPT !.pc = "rollback"] /\ UNCHANGED <<vault, left>>
  <2>1. prov.up \in BOOLEAN /\ prov' = [prov EXCEPT !.pc = "rollback", !.up = prov.up]
    BY <1>0, <1>1, Zenon DEF ProvStates
  <2>2. /\ vault' \in [LeaseId -> {"unused", "live", "rolled_back"}]
        /\ left' \in [LeaseId -> Int] /\ \A l \in LeaseId : left'[l] >= Gone
    BY <1>0, <1>1, Zenon DEF Typed
  <2> QED
    BY <1>0, <1>1, <2>1, <2>2, TurnBack, ZenonT(40)
<1>2. ASSUME NEW l \in LeaseId, NEW ttl \in Ttl,
             \A m \in LeaseId : vault[m] = "unused" <=> m >= l,
             vault' = [vault EXCEPT ![l] = "live"], left' = [left EXCEPT ![l] = ttl],
             \/ prov' = [prov EXCEPT !.pc = "access", !.acquired = Append(@, l),
                                     !.owed = @ \cup {l}]
             \/ prov' = [prov EXCEPT !.pc = "rollback", !.up = FALSE]
      PROVE  AgentInv'
  <2>1. /\ vault' \in [LeaseId -> {"unused", "live", "rolled_back"}]
        /\ \A x \in LeaseId : vault'[x] = IF x = l THEN "live" ELSE vault[x]
        /\ left' \in [LeaseId -> Int] /\ \A x \in LeaseId : left'[x] >= Gone
        /\ \A x \in LeaseId : x # l => left'[x] = left[x]
    BY <1>0, <1>2, TimeAssumption DEF Typed, Gone
  <2>2. vault[l] = "unused"
    BY <1>2 DEF LeaseId
  <2>3. /\ \A x \in Served : x \in LeaseId /\ x # l /\ x \notin prov.owed
    BY <2>2, Zenon DEF AgentInv, ServedInv, Served
  <2>4. \A x \in Served : vault'[x] = vault[x] /\ left'[x] = left[x]
    BY <2>1, <2>3, Zenon
  <2>5. CASE prov' = [prov EXCEPT !.pc = "rollback", !.up = FALSE]
    BY <1>0, <2>1, <2>4, <2>5, TurnBack, ZenonT(40)
  <2>6. CASE prov' = [prov EXCEPT !.pc = "access", !.acquired = Append(@, l),
                                  !.owed = @ \cup {l}]
    <3>1. /\ prov.acquired \in Seq(LeaseId) /\ prov.owed \subseteq LeaseId
          /\ Distinct(prov.acquired) /\ Range(prov.acquired) = prov.owed
          /\ \A x \in prov.owed : vault[x] = "live"
          /\ Range(prov.state) \subseteq prov.owed
      BY <1>0, Zenon DEF AgentInv, OwedInv, ProvStates
    <3>2. l \notin Range(prov.acquired)
      BY <2>2, <3>1, Zenon
    <3>3. /\ prov' \in ProvStates /\ prov'.pc = "access" /\ prov'.owed = prov.owed \cup {l}
          /\ prov'.acquired = Append(prov.acquired, l) /\ prov'.manifest = prov.manifest
          /\ prov'.entry = prov.entry /\ prov'.state = prov.state
      BY <1>0, <2>6, <3>1, <3>2, AppendIs, ZenonT(40) DEF ProvStates
    <3>4. CoverInv'
      BY <1>0, <3>3, Zenon DEF AgentInv, CoverInv, Acquiring, Writing
    <3>5. OwedInv'
      <4>1. /\ Distinct(prov'.acquired) /\ Range(prov'.acquired) = prov'.owed
            /\ prov'.acquired # <<>>
        BY <3>1, <3>2, <3>3, AppendIs
      <4>2. \A x \in prov'.owed : vault'[x] = "live"
        BY <2>1, <3>1, <3>3, Zenon
      <4> QED
        BY <3>1, <3>3, <4>1, <4>2 DEF OwedInv, Acquiring, Writing, FailureRevokes
    <3>6. \A x \in Served : x \notin prov'.owed
      BY <2>3, <3>3, Zenon
    <3> QED
      BY <1>0, <2>1, <2>4, <3>3, <3>4, <3>5, <3>6, ProvKept
  <2> QED
    BY <1>2, <2>5, <2>6, Zenon
<1> QED
  BY <1>1, <1>2, Zenon DEF RequestLease

(* The entry's secret was injected: its domain is covered by its lease.    *)
LEMMA EntryStep ==
    ASSUME AgentInv, prov.pc = "access", UNCHANGED <<vault, left, file, proxy>>,
           prov' = [prov EXCEPT !.pc = NextEntry, !.entry = @ + 1, !.state = WithEntry]
    PROVE  AgentInv'
<1> DEFINE m == prov.manifest
           d == m[prov.entry]
           n == prov.entry
<1>0. prov \in ProvStates /\ Acquiring
  BY Zenon DEF AgentInv, Typed, Acquiring
<1>1. /\ m \in Manifests /\ n \in 1 .. Len(m) /\ m \in Seq(STRING)
      /\ DOMAIN prov.state = {m[i] : i \in 1 .. (n - 1)}
  BY <1>0, ManifestAssumption, Zenon DEF AgentInv, CoverInv
<1>2. /\ prov.acquired \in Seq(LeaseId) /\ prov.acquired # <<>>
      /\ Distinct(prov.acquired) /\ Range(prov.acquired) = prov.owed
      /\ \A x \in prov.owed : vault[x] = "live"
      /\ Range(prov.state) \subseteq prov.owed /\ prov.owed \subseteq LeaseId
      /\ prov.state \in LeaseStates
  BY <1>0, Zenon DEF AgentInv, OwedInv, ProvStates
<1>3. Current \in prov.owed
  <2>1. Current \in Range(prov.acquired)
    BY <1>2 DEF Current, Range
  <2> QED
    BY <1>2, <2>1, Zenon
<1>4. /\ DOMAIN WithEntry = {m[i] : i \in 1 .. n}
      /\ WithEntry \in LeaseStates /\ Range(WithEntry) \subseteq prov.owed
  <2> DEFINE S == {d} \cup DOMAIN prov.state
  <2>1. WithEntry = [x \in S |-> IF x = d THEN Current ELSE prov.state[x]]
    BY Zenon DEF WithEntry
  <2>2. S = {m[i] : i \in 1 .. n}
    <3>1. \A i \in 1 .. n : i = n \/ i \in 1 .. (n - 1)
      BY <1>1
    <3>2. \A i \in 1 .. (n - 1) : i \in 1 .. n
      BY <1>1
    <3>3. n \in 1 .. n
      BY <1>1
    <3> QED
      BY <1>1, <3>1, <3>2, <3>3
  <2>3. S \in SUBSET Domains
    <3>1. d \in Range(m)
      BY <1>1 DEF Range
    <3>2. d \in Domains
      BY <1>1, <3>1, Zenon DEF Domains
    <3> QED
      BY <1>2, <3>2, StateIs, Zenon
  <2>4. \A x \in DOMAIN prov.state : prov.state[x] \in prov.owed
    BY <1>2, Zenon DEF Range
  <2> HIDE DEF S
  <2>5. WithEntry \in [S -> prov.owed]
    <3>1. \A x \in S : x = d \/ x \in DOMAIN prov.state
      BY Zenon DEF S
    <3> QED
      BY <1>3, <2>1, <2>4, <3>1
  <2>6. WithEntry \in LeaseStates
    BY <1>2, <2>3, <2>5, IsState
  <2>7. Range(WithEntry) \subseteq prov.owed /\ DOMAIN WithEntry = S
    BY <2>5, Zenon DEF Range
  <2> QED
    BY <2>2, <2>6, <2>7, Zenon
<1>5. /\ prov' \in ProvStates /\ prov'.pc = NextEntry /\ prov'.entry = n + 1
      /\ prov'.state = WithEntry /\ prov'.acquired = prov.acquired
      /\ prov'.owed = prov.owed /\ prov'.manifest = m
  <2>1. NextEntry \in {"env_file", "request"}
    BY Zenon DEF NextEntry
  <2>2. prov.entry + 1 \in Nat /\ WithEntry \in LeaseStates
    BY <1>0, <1>4 DEF ProvStates
  <2>3. prov' \in ProvStates
    BY <1>0, <2>1, <2>2, Zenon DEF ProvStates
  <2>4. /\ prov'.pc = NextEntry /\ prov'.entry = prov.entry + 1
        /\ prov'.state = WithEntry /\ prov'.acquired = prov.acquired
        /\ prov'.owed = prov.owed /\ prov'.manifest = prov.manifest
    BY <1>0, Zenon DEF ProvStates
  <2> QED
    BY <2>3, <2>4, Zenon
<1>6. CoverInv'
  <2>1. CASE n = Len(m)
    <3>1. NextEntry = "env_file" /\ DOMAIN WithEntry = Range(m)
      BY <1>1, <1>4, <2>1 DEF NextEntry, Range
    <3> QED
      BY <1>1, <1>5, <3>1, Zenon DEF CoverInv, Acquiring, Writing
  <2>2. CASE n # Len(m)
    <3>1. NextEntry = "request" /\ n + 1 \in 1 .. Len(m) /\ (n + 1) - 1 = n
      BY <1>1, <2>2 DEF NextEntry
    <3> QED
      BY <1>1, <1>4, <1>5, <3>1 DEF CoverInv, Acquiring, Writing
  <2> QED
    BY <2>1, <2>2, Zenon
<1>7. OwedInv'
  <2>1. NextEntry \in {"env_file", "request"}
    BY Zenon DEF NextEntry
  <2> QED
    BY <1>2, <1>4, <1>5, <2>1, Zenon DEF OwedInv, Acquiring, Writing, FailureRevokes
<1> QED
  BY <1>5, <1>6, <1>7, LocalStep

LEMMA AccessStep ==
    ASSUME AgentInv, AccessSecret
    PROVE  AgentInv'
<1>0. prov.pc = "access" /\ UNCHANGED <<vault, left, file, proxy>>
  BY ZenonT(40) DEF AccessSecret
<1>1. CASE \E up \in BOOLEAN : prov' = [prov EXCEPT !.pc = "rollback", !.up = up]
  <2>1. /\ vault' \in [LeaseId -> {"unused", "live", "rolled_back"}]
        /\ left' \in [LeaseId -> Int] /\ \A l \in LeaseId : left'[l] >= Gone
    BY <1>0, Zenon DEF AgentInv, Typed
  <2> QED
    BY <1>0, <1>1, <2>1, TurnBack, Zenon DEF Acquiring
<1>2. CASE prov' = [prov EXCEPT !.pc = NextEntry, !.entry = @ + 1, !.state = WithEntry]
  BY <1>0, <1>2, EntryStep, Zenon
<1> QED
  BY <1>1, <1>2, ZenonT(40) DEF AccessSecret

LEMMA RollbackStep ==
    ASSUME AgentInv, Rollback
    PROVE  AgentInv'
<1>0. prov.pc = "rollback" /\ UNCHANGED <<left, file, proxy>> /\ prov \in ProvStates /\ Typed
  BY Zenon DEF Rollback, AgentInv, Typed
<1>1. /\ prov.acquired \in Seq(LeaseId) /\ Distinct(prov.acquired)
      /\ Range(prov.acquired) \subseteq prov.owed /\ prov.owed \subseteq LeaseId
      /\ \A x \in prov.owed : x \in Range(prov.acquired) \/ vault[x] # "live"
  BY <1>0, Zenon DEF AgentInv, OwedInv, ProvStates
<1>2. CASE prov.acquired = <<>> /\ prov' = RolledBack /\ UNCHANGED vault
  <2>1. /\ prov' \in ProvStates /\ prov'.pc = "failed" /\ prov'.acquired = <<>>
        /\ prov'.owed = prov.owed
    <3>1. Exited("failed") \in ProvStates /\ Exited("failed").pc = "failed"
          /\ Exited("failed").acquired = <<>>
      BY ExitedIs, Zenon
    <3> QED
      BY <1>1, <1>2, <3>1, Zenon DEF RolledBack, ProvStates
  <2>2. CoverInv'
    BY <2>1, Zenon DEF CoverInv, Acquiring, Writing
  <2>3. OwedInv'
    BY <1>1, <1>2, <2>1, NoneAcquired DEF OwedInv, Acquiring, Writing, FailureRevokes
  <2> QED
    BY <1>0, <1>2, <2>1, <2>2, <2>3, LocalStep
<1>3. CASE prov.acquired # <<>>
  <2> DEFINE l == Head(prov.acquired)
  <2>1. /\ Tail(prov.acquired) \in Seq(LeaseId) /\ Distinct(Tail(prov.acquired))
        /\ l \in LeaseId /\ l \in Range(prov.acquired)
        /\ Range(Tail(prov.acquired)) = Range(prov.acquired) \ {l}
    BY <1>1, <1>3, TailIs, Zenon
  <2>2. /\ vault' = Revoked(l) \/ UNCHANGED vault
        /\ \/ vault' = Revoked(l) /\ prov' = [prov EXCEPT !.acquired = Tail(@)]
           \/ \E up \in BOOLEAN :
                prov' = [prov EXCEPT !.acquired = Tail(@), !.up = up, !.owed = @ \ {l}]
    BY <1>0, <1>3, ZenonT(40) DEF Rollback, ProvStates
  <2> HIDE DEF l
  <2>3. /\ vault' \in [LeaseId -> {"unused", "live", "rolled_back"}]
        /\ \A x \in LeaseId : x # l => vault'[x] = vault[x]
        /\ vault' = Revoked(l) => vault'[l] # "live"
    <3>1. vault \in [LeaseId -> {"unused", "live", "rolled_back"}]
      BY <1>0, Zenon DEF Typed
    <3>2. CASE UNCHANGED vault
      BY <2>1, <3>1, <3>2, Zenon DEF Revoked
    <3>3. CASE vault' = Revoked(l)
      BY <2>1, <3>1, <3>3, Zenon DEF Revoked
    <3> QED
      BY <2>2, <3>2, <3>3, Zenon
  <2>4. /\ prov' \in ProvStates /\ prov'.pc = "rollback"
        /\ prov'.acquired = Tail(prov.acquired)
        /\ \/ vault' = Revoked(l) /\ prov'.owed = prov.owed
           \/ prov'.owed = prov.owed \ {l}
    <3>1. CASE vault' = Revoked(l) /\ prov' = [prov EXCEPT !.acquired = Tail(@)]
      BY <1>0, <2>1, <3>1, Zenon DEF ProvStates
    <3>2. CASE \E up \in BOOLEAN :
                 prov' = [prov EXCEPT !.acquired = Tail(@), !.up = up, !.owed = @ \ {l}]
      <4>1. PICK up \in BOOLEAN :
              prov' = [prov EXCEPT !.acquired = Tail(@), !.up = up, !.owed = @ \ {l}]
        BY <3>2, Zenon
      <4>2. prov' \in ProvStates
        BY <1>0, <2>1, <4>1, Zenon DEF ProvStates
      <4>3. /\ prov'.pc = "rollback" /\ prov'.acquired = Tail(prov.acquired)
            /\ prov'.owed = prov.owed \ {l}
        BY <1>0, <4>1, Zenon DEF ProvStates
      <4> QED
        BY <4>2, <4>3, Zenon
    <3> QED
      BY <2>2, <3>1, <3>2, Zenon
  <2>5. CoverInv'
    BY <2>4, Zenon DEF CoverInv, Acquiring, Writing
  <2>6. OwedInv'
    <3>1. Distinct(prov'.acquired) /\ Range(prov'.acquired) \subseteq prov'.owed
      BY <1>1, <2>1, <2>4, Zenon
    <3>2. \A x \in prov'.owed : x \in Range(prov'.acquired) \/ vault'[x] # "live"
      BY <1>1, <2>1, <2>3, <2>4, Zenon
    <3> QED
      BY <2>4, <3>1, <3>2, Zenon DEF OwedInv, Acquiring, Writing, FailureRevokes
  <2>7. \A x \in Served : /\ vault'[x] = vault[x] /\ left'[x] = left[x]
                          /\ x \notin prov'.owed
    <3>1. \A x \in Served : x \in LeaseId /\ x \notin prov.owed
      BY Zenon DEF AgentInv, ServedInv, Served
    <3> QED
      BY <1>0, <1>1, <2>1, <2>3, <2>4, <3>1
  <2>8. left' \in [LeaseId -> Int] /\ \A x \in LeaseId : left'[x] >= Gone
    BY <1>0, Zenon DEF Typed
  <2> QED
    BY <1>0, <2>3, <2>4, <2>5, <2>6, <2>7, <2>8, ProvKept
<1> QED
  BY <1>2, <1>3, Zenon DEF Rollback

(* Publication: what the file gains is no longer owed.                     *)
LEMMA PublishStep ==
    ASSUME AgentInv, WriteLeaseFile
    PROVE  AgentInv'
<1>0. /\ prov.pc = "lease_file" /\ prov' = Exited("off") /\ Typed
      /\ UNCHANGED <<vault, left, cached, fresh, tasks>>
  BY Zenon DEF WriteLeaseFile, proxy, AgentInv
<1>1. CASE UNCHANGED file
  BY <1>0, <1>1, ExitStep, Zenon DEF proxy
<1>2. CASE file' = {prov.state}
  <2>1. /\ prov' \in ProvStates /\ prov'.pc = "off" /\ prov'.acquired = <<>> /\ prov'.owed = {}
    BY <1>0, ExitedIs, Zenon
  <2>2. /\ prov.state \in LeaseStates /\ Range(prov.state) \subseteq prov.owed
        /\ \A x \in prov.owed : vault[x] = "live"
    BY <1>0, Zenon DEF Typed, ProvStates, AgentInv, OwedInv, Writing
  <2>3. Typed'
    BY <1>0, <1>2, <2>1, <2>2, Zenon DEF Typed
  <2>4. CoverInv'
    BY <2>1, Zenon DEF CoverInv, Acquiring, Writing
  <2>5. OwedInv'
    BY <2>1, NoneAcquired, Zenon DEF OwedInv, Acquiring, Writing, FailureRevokes
  <2>6. NoPartialFile'
    BY <1>0, <1>2, Zenon DEF AgentInv, CoverInv, Writing, NoPartialFile
  <2>7. \A x \in Served' : x \in Served \/ x \in Range(prov.state)
    BY <1>0, <1>2, Zenon DEF Served
  <2>8. ServedInv'
    BY <1>0, <2>1, <2>2, <2>7, Zenon DEF AgentInv, ServedInv
  <2>9. TimerInv'
    BY <1>0, Zenon DEF AgentInv, TimerInv
  <2> QED
    BY <2>3, <2>4, <2>5, <2>6, <2>8, <2>9, Zenon DEF AgentInv
<1> QED
  BY <1>1, <1>2, Zenon DEF WriteLeaseFile

LEMMA EnvStep ==
    ASSUME AgentInv, WriteEnvFile
    PROVE  AgentInv'
<1>0. prov.pc = "env_file" /\ UNCHANGED <<vault, left, file, proxy>>
  BY Zenon DEF WriteEnvFile
<1>1. CASE prov' = [prov EXCEPT !.pc = "lease_file"]
  <2>1. /\ prov' \in ProvStates /\ prov'.pc = "lease_file" /\ prov'.state = prov.state
        /\ prov'.acquired = prov.acquired /\ prov'.owed = prov.owed
    BY <1>1, Zenon DEF AgentInv, Typed, ProvStates
  <2>2. CoverInv'
    BY <1>0, <2>1, Zenon DEF AgentInv, CoverInv, Acquiring, Writing
  <2>3. OwedInv'
    BY <1>0, <2>1, Zenon DEF AgentInv, OwedInv, Acquiring, Writing, FailureRevokes
  <2> QED
    BY <1>0, <2>1, <2>2, <2>3, LocalStep
<1>2. CASE prov' = Exited("off")
  BY <1>0, <1>2, ExitStep, Zenon
<1> QED
  BY <1>1, <1>2, Zenon DEF WriteEnvFile

-----------------------------------------------------------------------------
(* The invariant, and what follows from it                                 *)

LEMMA AgentStep ==
    ASSUME AgentInv, [Next]_vars
    PROVE  AgentInv'
<1>1. CASE Provisioner
  BY <1>1, StartStep, RequestStep, AccessStep, RollbackStep, EnvStep, PublishStep, ExitStep
     DEF Provisioner, Killed
<1>2. CASE Proxy
  BY <1>2, CopyStep, ConnectStep, TunnelStep, Zenon DEF Proxy
<1>3. CASE Tick
  BY <1>3, TickStep, Zenon
<1>4. CASE UNCHANGED vars
  <2>1. UNCHANGED <<vault, left, prov, file, cached, fresh, tasks>>
    BY <1>4, Zenon DEF vars
  <2>2. /\ cached' \in LeaseStates /\ fresh' \in SUBSET LeaseStates
        /\ tasks' \in [Task -> TaskStates]
    BY <2>1, Zenon DEF AgentInv, Typed
  <2>3. TimerInv' /\ Served' = Served
    BY <2>1, Zenon DEF AgentInv, TimerInv, Served
  <2> QED
    BY <2>1, <2>2, <2>3, ProxyKept
<1> QED
  BY <1>1, <1>2, <1>3, <1>4, Zenon DEF Next

LEMMA AgentInvariant == Spec => []AgentInv
<1>1. Init => AgentInv
  <2> SUFFICES ASSUME Init PROVE AgentInv
    BY Zenon
  <2>1. /\ prov \in ProvStates /\ prov.pc = "off" /\ prov.acquired = <<>> /\ prov.owed = {}
    BY ExitedIs, Zenon DEF Init
  <2>2. /\ tasks \in [Task -> TaskStates] /\ \A t \in Task : tasks[t].pc = "idle"
    BY Zenon DEF Init, TaskStates, IdleTask
  <2>3. left \in [LeaseId -> Int] /\ \A l \in LeaseId : left[l] >= Gone
    BY TimeAssumption DEF Init, Gone
  <2>4. Typed
    BY <2>1, <2>2, <2>3, NoLeasesIs, Zenon DEF Typed, Init
  <2>5. CoverInv /\ NoPartialFile
    BY <2>1, Zenon DEF CoverInv, Acquiring, Writing, NoPartialFile, Init
  <2>6. OwedInv
    BY <2>1, NoneAcquired, Zenon DEF OwedInv, Acquiring, Writing, FailureRevokes
  <2>7. ServedInv
    BY <2>2, NoLeasesIs, Zenon DEF ServedInv, Served, Init
  <2>8. TimerInv
    BY <2>2, Zenon DEF TimerInv
  <2> QED
    BY <2>4, <2>5, <2>6, <2>7, <2>8 DEF AgentInv
<1>2. AgentInv /\ [Next]_vars => AgentInv'
  BY AgentStep, Zenon
<1> QED
  BY <1>1, <1>2, PTL DEF Spec

(* The state of provisioner and proxy keeps its types.                     *)
THEOREM AgentTyped == Spec => []TypeOK
<1>1. AgentInv => TypeOK
  <2> SUFFICES ASSUME AgentInv PROVE TypeOK
    BY Zenon
  <2>1. Typed /\ prov \in ProvStates
    BY Zenon DEF AgentInv, Typed
  <2>2. Acquiring => prov.entry \in DOMAIN prov.manifest
    BY <2>1 DEF AgentInv, CoverInv, ProvStates
  <2>3. Range(prov.acquired) \subseteq prov.owed
    BY Zenon DEF AgentInv, OwedInv
  <2>4. ASSUME NEW t \in Task, tasks[t].pc # "idle"
        PROVE  /\ tasks[t].pc \in {"connect", "open"}
               /\ tasks[t].handler \in {"connect", "sni"}
               /\ tasks[t].lease \in LeaseId
               /\ tasks[t].timer \in {{}} \cup {{n} : n \in Ticks}
               /\ tasks[t].waited \in 0 .. MaxConnect
    <3>1. tasks[t] \in TaskStates /\ tasks[t] # IdleTask
      BY <2>1, <2>4 DEF Typed, IdleTask
    <3> QED
      BY <3>1, Zenon DEF TaskStates, Timers
  <2>5. {prov.state, cached} \cup file \cup fresh \subseteq LeaseStates
    BY <2>1, Zenon DEF Typed, ProvStates
  <2>6. /\ prov.pc \in {"off", "request", "access", "rollback", "env_file", "lease_file",
                        "failed"}
        /\ prov.up \in BOOLEAN /\ prov.owed \subseteq LeaseId
    BY <2>1, Zenon DEF ProvStates
  <2> QED
    BY <2>1, <2>2, <2>3, <2>4, <2>5, <2>6 DEF TypeOK, Typed, Acquiring
<1> QED
  BY <1>1, AgentInvariant, PTL

(* Whatever fails and whenever the provisioner is killed, the lease file   *)
(* covers a whole manifest (provision::run, write_atomic).                 *)
THEOREM FileCoversManifest == Spec => []NoPartialFile
<1>1. AgentInv => NoPartialFile
  BY Zenon DEF AgentInv
<1> QED
  BY <1>1, AgentInvariant, PTL

(* A rolled back lease is in no file, no copy of it and behind no tunnel   *)
(* (acquire_credentials, lease_refresh_loop, handle_connect).              *)
THEOREM RollbackBeforePublication == Spec => []RolledBackNeverServed
<1>1. AgentInv => RolledBackNeverServed
  BY Zenon DEF AgentInv, ServedInv, Served, RolledBackNeverServed
<1> QED
  BY <1>1, AgentInvariant, PTL

(* A failed provisioning leaves no lease live whose grant and revocation   *)
(* were acknowledged (acquire_credentials, rollback).                      *)
THEOREM RollbackReachesAll == Spec => []FailureRevokes
<1>1. AgentInv => FailureRevokes
  BY Zenon DEF AgentInv, OwedInv
<1> QED
  BY <1>1, AgentInvariant, PTL

(* The timer of an open tunnel runs no longer than the lease that admitted *)
(* it and the time connecting took (handle_connect).                       *)
THEOREM TimerWithinLease == Spec => []TunnelWithinLease
<1>1. AgentInv => TunnelWithinLease
  BY Zenon DEF AgentInv, TimerInv, TunnelWithinLease
<1> QED
  BY <1>1, AgentInvariant, PTL
=============================================================================
