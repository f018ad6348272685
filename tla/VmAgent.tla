------------------------------- MODULE VmAgent -------------------------------
(***************************************************************************)
(* The agent inside a VM: the provisioner acquires a lease per manifest    *)
(* entry and publishes them in a lease file; the proxy keeps a copy of the *)
(* file and opens tunnels to leased domains.  Expiry is kept as the time   *)
(* left of each lease, which is the same for every copy of its expires_at. *)
(* The vault is external: a lease is granted, refused or revoked.          *)
(***************************************************************************)
EXTENDS Integers, Sequences, Functions

CONSTANTS
    MaxLeases,   \* bound: leases the vault grants
    Manifests,   \* credential manifests: their target domains, in order
    Task,        \* proxy connections
    Ttl,         \* times to live the vault grants
    Second,      \* ticks of the clock per second
    MaxTunnel,   \* MAX_TUNNEL_DURATION, in ticks
    MaxConnect   \* ticks after which the system gives up a connection attempt

ASSUME ManifestAssumption == Manifests \subseteq Seq(STRING)
ASSUME TimeAssumption ==
    /\ Ttl \subseteq Nat /\ MaxLeases \in Nat
    /\ Second \in Nat \ {0} /\ MaxTunnel \in Nat /\ MaxConnect \in Nat

VARIABLES
    vault,   \* per lease id: "unused", "live" or "rolled_back"; what others
             \* do to a lease the agent sees only in the failure of its calls
    left,    \* per lease: expires_at - now, not followed below Gone
    prov,    \* the provisioner: its step, entry, connection and locals, and as
             \* history the leases it owes a revocation should it fail: those
             \* it was granted, less those whose revocation was not confirmed
    file,    \* the lease file, {} if there is none: {domain -> lease}
    cached,  \* the proxy's LeaseState: domain -> lease
    fresh,   \* the reloaded file while the refresh loop waits for the lock
    tasks    \* per proxy connection, the handler's step and locals

vars == <<vault, left, prov, file, cached, fresh, tasks>>
proxy == <<cached, fresh, tasks>>

-----------------------------------------------------------------------------
\* lease ids are told apart only, so they are numbered in the order of granting
LeaseId == 1 .. MaxLeases

NoLeases == [d \in {} |-> {}]

Gone == -(MaxConnect + 1)

Domains == UNION {Range(m) : m \in Manifests}

\* LeaseState::is_allowed and prune_expired
Unexpired(state, d) == left[state[d]] > 0

Pruned(state) == Restrict(state, {d \in DOMAIN state : Unexpired(state, d)})

\* LeaseState::read_from, with unwrap_or_default
ReadOrDefault == IF file = {} THEN NoLeases ELSE CHOOSE f \in file : TRUE

-----------------------------------------------------------------------------
(* provision::run                                                          *)

\* a provisioner that has exited has no locals; the model keeps apart an exit
\* after a rollback ("failed") from every other ("off")
Exited(how) == [pc |-> how, manifest |-> <<>>, entry |-> 1, up |-> FALSE,
                acquired |-> <<>>, state |-> NoLeases, owed |-> {}]

Running == prov.pc \in {"request", "access", "rollback", "env_file", "lease_file"}

\* the manifest is read and the connection made; failing there has no effect
StartRun ==
    /\ ~Running
    /\ \E m \in Manifests :
         prov' = [Exited(IF m = <<>> THEN "env_file" ELSE "request")
                    EXCEPT !.manifest = m, !.up = TRUE]
    /\ UNCHANGED <<vault, left, file, proxy>>

\* acquire_credentials, the lease of one entry: granted, refused, or granted
\* with the reply cut off
RequestLease ==
    /\ prov.pc = "request"
    /\ \/ \E l \in LeaseId, ttl \in Ttl :
            /\ \A m \in LeaseId : vault[m] = "unused" <=> m >= l
            /\ vault' = [vault EXCEPT ![l] = "live"]
            /\ left' = [left EXCEPT ![l] = ttl]
            /\ \/ prov' = [prov EXCEPT !.pc = "access", !.acquired = Append(@, l),
                                       !.owed = @ \cup {l}]
               \/ prov' = [prov EXCEPT !.pc = "rollback", !.up = FALSE]
       \/ /\ prov' = [prov EXCEPT !.pc = "rollback"]
          /\ UNCHANGED <<vault, left>>
    /\ UNCHANGED <<file, proxy>>

\* the lease the current entry was granted, and what the step records of it
Current == prov.acquired[Len(prov.acquired)]

WithEntry ==
    LET d == prov.manifest[prov.entry]
    IN  [x \in {d} \cup DOMAIN prov.state |-> IF x = d THEN Current ELSE prov.state[x]]

NextEntry == IF prov.entry = Len(prov.manifest) THEN "env_file" ELSE "request"

\* faulty: an entry whose secret cannot be accessed is skipped
AccessOrSkip ==
    /\ prov.pc = "access"
    /\ \/ /\ vault[Current] = "live" /\ left[Current] >= 0
          /\ prov' = [prov EXCEPT !.pc = NextEntry, !.entry = @ + 1, !.state = WithEntry]
       \/ prov' = [prov EXCEPT !.pc = NextEntry, !.entry = @ + 1]
    /\ UNCHANGED <<vault, left, file, proxy>>

\* ... its secret, injected into env_lines and config files; a refusal, a
\* lost reply, a secret that is not UTF-8 or a failing file write roll back
AccessSecret ==
    /\ prov.pc = "access"
    /\ \/ /\ vault[Current] = "live" /\ left[Current] >= 0
          /\ prov' = [prov EXCEPT !.pc = NextEntry, !.entry = @ + 1, !.state = WithEntry]
       \/ \E up \in BOOLEAN : prov' = [prov EXCEPT !.pc = "rollback", !.up = up]
    /\ UNCHANGED <<vault, left, file, proxy>>

Revoked(l) == [vault EXCEPT ![l] = IF @ = "live" THEN "rolled_back" ELSE @]

RolledBack == [Exited("failed") EXCEPT !.owed = prov.owed]

\* faulty: the first revocation that fails ends the rollback
RollbackUntilError ==
    /\ prov.pc = "rollback"
    /\ IF prov.acquired = <<>>
       THEN prov' = RolledBack /\ UNCHANGED vault
       ELSE LET l == Head(prov.acquired) IN
            \/ /\ prov.up
               /\ vault' = Revoked(l)
               /\ prov' = [prov EXCEPT !.acquired = Tail(@)]
            \/ /\ prov' = [RolledBack EXCEPT !.owed = @ \ {l}]
               /\ UNCHANGED vault
    /\ UNCHANGED <<left, file, proxy>>

\* revokes the acquired leases one by one.  A revocation is answered, or the
\* vault reports an error, or the connection breaks before or after it
Rollback ==
    /\ prov.pc = "rollback"
    /\ IF prov.acquired = <<>>
       THEN prov' = RolledBack /\ UNCHANGED vault
       ELSE LET l == Head(prov.acquired)
                Failed(up) == [prov EXCEPT !.acquired = Tail(@), !.up = up, !.owed = @ \ {l}]
            IN
            \/ /\ prov.up
               /\ vault' = Revoked(l)
               /\ prov' \in {[prov EXCEPT !.acquired = Tail(@)], Failed(FALSE)}
            \/ /\ prov' \in {Failed(prov.up), Failed(FALSE)}
               /\ UNCHANGED vault
    /\ UNCHANGED <<left, file, proxy>>

\* write_env_file, and write_atomic of the lease file: a temporary file is
\* renamed, so that readers see the old content or the new.  A failure of
\* either write exits without rollback
WriteEnvFile ==
    /\ prov.pc = "env_file"
    /\ prov' \in {[prov EXCEPT !.pc = "lease_file"], Exited("off")}
    /\ UNCHANGED <<vault, left, file, proxy>>

\* faulty: an error after the rename rolls back what is already published
PublishThenRollback ==
    /\ prov.pc = "lease_file"
    /\ file' = {prov.state}
    /\ prov' \in {Exited("off"), [prov EXCEPT !.pc = "rollback"]}
    /\ UNCHANGED <<vault, left, proxy>>

WriteLeaseFile ==
    /\ prov.pc = "lease_file"
    /\ \/ file' = {prov.state} /\ prov' = Exited("off")
       \/ prov' = Exited("off") /\ UNCHANGED file
    /\ UNCHANGED <<vault, left, proxy>>

\* the process is killed
Killed ==
    /\ Running
    /\ prov' = Exited("off")
    /\ UNCHANGED <<vault, left, file, proxy>>

-----------------------------------------------------------------------------
(* proxy::run                                                              *)

IdleTask == [pc |-> "idle"]

\* the proxy starts, or is started again; a file it cannot read is no file
StartProxy ==
    /\ cached' \in {ReadOrDefault, NoLeases}
    /\ fresh' = {}
    /\ tasks' = [t \in Task |-> IdleTask]
    /\ UNCHANGED <<vault, left, prov, file>>

\* lease_refresh_loop reads the file and waits for the write lock ...
Reload ==
    /\ fresh = {} /\ file # {}
    /\ fresh' = file
    /\ UNCHANGED <<vault, left, prov, file, cached, tasks>>

\* ... and installs what it read, which may no longer be the file
Install ==
    /\ fresh # {}
    /\ cached' = Pruned(CHOOSE f \in fresh : TRUE)
    /\ fresh' = {}
    /\ UNCHANGED <<vault, left, prov, file, tasks>>

\* there is no file or it cannot be read: the copy is kept and pruned
ReloadFails ==
    /\ fresh = {}
    /\ cached' = Pruned(cached)
    /\ UNCHANGED <<vault, left, prov, file, fresh, tasks>>

\* num_seconds().max(0), capped
TunnelTimeout(l) ==
    LET whole == (left[l] \div Second) * Second
    IN  IF whole > MaxTunnel THEN MaxTunnel ELSE whole

\* timer: at most one element, none for no timeout
Admit(t, handler, l, timer) ==
    tasks' = [tasks EXCEPT ![t] = [pc |-> "connect", handler |-> handler, lease |-> l,
                                   timer |-> timer, waited |-> 0]]

\* faulty: the cap alone bounds the tunnel
HandleConnectCapOnly(t) ==
    /\ tasks[t].pc = "idle"
    /\ \E d \in DOMAIN cached :
         /\ Unexpired(cached, d)
         /\ Admit(t, "connect", cached[d], {MaxTunnel})
    /\ UNCHANGED <<vault, left, prov, file, cached, fresh>>

\* faulty: a timeout of zero seconds counts as no timeout
HandleConnectZeroIsNone(t) ==
    /\ tasks[t].pc = "idle"
    /\ \E d \in DOMAIN cached :
         /\ Unexpired(cached, d)
         /\ Admit(t, "connect", cached[d], {TunnelTimeout(cached[d])} \ {0})
    /\ UNCHANGED <<vault, left, prov, file, cached, fresh>>

\* handle_connect up to the lease check, which yields the tunnel's timeout
\* (a bad request line, port or host is refused without effect)
HandleConnect(t) ==
    /\ tasks[t].pc = "idle"
    /\ \E d \in DOMAIN cached :
         /\ Unexpired(cached, d)
         /\ Admit(t, "connect", cached[d], {TunnelTimeout(cached[d])})
    /\ UNCHANGED <<vault, left, prov, file, cached, fresh>>

\* handle_transparent up to the lease check: no timeout
HandleTransparent(t) ==
    /\ tasks[t].pc = "idle"
    /\ \E d \in DOMAIN cached : Unexpired(cached, d) /\ Admit(t, "sni", cached[d], {})
    /\ UNCHANGED <<vault, left, prov, file, cached, fresh>>

\* name resolution and connection: the tunnel is open, or the client gets 502
ConnectUpstream(t) ==
    /\ tasks[t].pc = "connect"
    /\ \/ tasks' = [tasks EXCEPT ![t].pc = "open"]
       \/ tasks' = [tasks EXCEPT ![t] = IdleTask]
    /\ UNCHANGED <<vault, left, prov, file, cached, fresh>>

\* one side closes
TunnelEnds(t) ==
    /\ tasks[t].pc = "open"
    /\ tasks' = [tasks EXCEPT ![t] = IdleTask]
    /\ UNCHANGED <<vault, left, prov, file, cached, fresh>>

\* tokio::time::timeout elapses
TunnelTimesOut(t) ==
    /\ tasks[t].pc = "open" /\ tasks[t].timer = {0}
    /\ tasks' = [tasks EXCEPT ![t] = IdleTask]
    /\ UNCHANGED <<vault, left, prov, file, cached, fresh>>

\* external: time passes for leases, connection attempts (which the system
\* gives up after MaxConnect) and open tunnels
TaskTick(task) ==
    CASE task.pc = "connect" -> IF task.waited = MaxConnect THEN IdleTask
                                ELSE [task EXCEPT !.waited = @ + 1]
      [] task.pc = "open" -> [task EXCEPT !.timer = {IF n = 0 THEN 0 ELSE n - 1 : n \in @}]
      [] OTHER -> task

Tick ==
    /\ left' = [l \in LeaseId |-> IF left[l] = Gone THEN Gone ELSE left[l] - 1]
    /\ tasks' = [t \in Task |-> TaskTick(tasks[t])]
    /\ UNCHANGED <<vault, prov, file, cached, fresh>>

-----------------------------------------------------------------------------
Init ==
    /\ vault = [l \in LeaseId |-> "unused"]
    /\ left = [l \in LeaseId |-> Gone]
    /\ prov = Exited("off")
    /\ file = {}
    /\ cached = NoLeases
    /\ fresh = {}
    /\ tasks = [t \in Task |-> IdleTask]

Provisioner ==
    StartRun \/ RequestLease \/ AccessSecret \/ Rollback
    \/ WriteEnvFile \/ WriteLeaseFile \/ Killed

Proxy ==
    \/ StartProxy \/ Reload \/ Install \/ ReloadFails
    \/ \E t \in Task :
         \/ HandleConnect(t) \/ HandleTransparent(t) \/ ConnectUpstream(t)
         \/ TunnelEnds(t) \/ TunnelTimesOut(t)

Next == Provisioner \/ Proxy \/ Tick

Spec == Init /\ [][Next]_vars

\* time passes and timers fire; nobody need close a tunnel, reload the file
\* or restart anything
FairSpec == Spec /\ WF_vars(Tick) /\ \A t \in Task : WF_vars(TunnelTimesOut(t))

-----------------------------------------------------------------------------
(* Properties                                                              *)

LeaseStates == UNION {[ds -> LeaseId] : ds \in SUBSET Domains}

Ticks == 0 .. MaxTunnel

\* Type correctness: lease states map manifest domains to lease ids, a task
\* past the check has a timer of at most MAX_TUNNEL_DURATION or none, and the
\* provisioner's cursor stays within the manifest.
TypeOK ==
    /\ vault \in [LeaseId -> {"unused", "live", "rolled_back"}]
    /\ left \in [LeaseId -> Int] /\ \A l \in LeaseId : left[l] >= Gone
    /\ prov.pc \in {"off", "request", "access", "rollback", "env_file", "lease_file",
                    "failed"}
    /\ prov.pc \in {"request", "access"} => prov.entry \in DOMAIN prov.manifest
    /\ prov.up \in BOOLEAN
    /\ Range(prov.acquired) \subseteq prov.owed /\ prov.owed \subseteq LeaseId
    /\ {prov.state, cached} \cup file \cup fresh \subseteq LeaseStates
    /\ \A t \in Task :
         tasks[t].pc = "idle" \/ /\ tasks[t].pc \in {"connect", "open"}
                                 /\ tasks[t].handler \in {"connect", "sni"}
                                 /\ tasks[t].lease \in LeaseId
                                 /\ tasks[t].timer \in {{}} \cup {{n} : n \in Ticks}
                                 /\ tasks[t].waited \in 0 .. MaxConnect

\* The lease file always covers a whole manifest: whatever fails and
\* whenever the provisioner is killed, run writes it only after
\* acquire_credentials went through every entry.
NoPartialFile == \A f \in file : \E m \in Manifests : DOMAIN f = Range(m)

\* A lease that the provisioner rolled back is in no lease file, in no copy
\* the proxy holds and behind no tunnel: publication comes after the last
\* point where run may roll back.
RolledBackNeverServed ==
    \A l \in LeaseId : vault[l] = "rolled_back" =>
        /\ \A f \in file \cup fresh \cup {cached} : l \notin Range(f)
        /\ \A t \in Task : tasks[t].pc # "idle" => tasks[t].lease # l

\* When acquisition fails, every lease of this provisioning is gone by the
\* time the process exits, except those whose grant or revocation the vault
\* did not acknowledge: one failing revocation does not spare the others.
FailureRevokes ==
    prov.pc = "failed" => \A l \in prov.owed : vault[l] # "live"

\* The timer of an open CONNECT tunnel outlasts the lease that admitted it by
\* no more than the time that resolving and connecting took, whatever reloads,
\* new leases for the domain or pruning happened since the check.
TunnelWithinLease ==
    \A t \in Task : tasks[t].pc = "open" =>
        \A n \in tasks[t].timer : n = 0 \/ n <= left[tasks[t].lease] + tasks[t].waited

\* Every CONNECT tunnel closes, even if neither side ever does (handle_connect
\* wraps it in a timeout; handle_transparent does not).
TunnelsClose ==
    \A t \in Task :
        (tasks[t].pc = "open" /\ tasks[t].handler = "connect") ~> (tasks[t].pc # "open")
=============================================================================
