------------------------------ MODULE Provider ------------------------------
(***************************************************************************)
(* Credential guards and who revokes their leases: ZeroleaseProvider with  *)
(* its background worker, StaticProvider, and the git credential helper.   *)
(*                                                                         *)
(* The vault behind the socket is LeaseContract: it may refuse, end any    *)
(* lease at any time (expiry, revocation by others) and restart.  Tasks    *)
(* call acquire and drop the guards they get; the guard of a dropped lease *)
(* goes through a bounded channel to one worker.  A caller may drop the    *)
(* future of acquire at any await; what the vault was asked by then it     *)
(* does all the same.  forsaken is a history variable: leases nobody is    *)
(* going to revoke any more.                                               *)
(***************************************************************************)
EXTENDS Naturals, Sequences, FiniteSets

CONSTANTS LeaseId,    \* leases the vault can grant
          Task,       \* tool tasks that use a provider
          Helper,     \* runs of the git credential helper
          Capacity    \* of the revocation channel (64 in the code)

ASSUME CapacityAssumption == Capacity \in Nat \ {0}
ASSUME CallerAssumption == Task \cap Helper = {}

VARIABLES phase, pending, served,  \* the vault: LeaseContract
          task,       \* per task and helper: position and lease
          static,     \* StaticProvider holds the credential
          provider,   \* the ZeroleaseProvider has not been dropped
          channel,    \* mpsc::channel of lease ids
          worker,     \* revocation_worker: position and lease
          forsaken

vaultVars == <<phase, pending, served>>
vars == <<phase, pending, served, task, static, provider, channel, worker,
          forsaken>>

Caller == Task \cup Helper

Contract == INSTANCE LeaseContract

-----------------------------------------------------------------------------
(* A task's lease is an option; a guard of StaticProvider has none.        *)
At(pc, lease) == [pc |-> pc, lease |-> lease]

Idle == At("idle", {})

Goto(t, pc, lease) == task' = [task EXCEPT ![t] = At(pc, lease)]

Forsake(lease) == forsaken' = forsaken \cup lease

(* The guards that are held, and with them the senders of the channel.     *)
Holders == {t \in Task : task[t].pc = "holding" /\ task[t].lease # {}}

Acquiring == {t \in Task : task[t].pc \in {"asked", "granted", "fetched"}}

-----------------------------------------------------------------------------
(* ZeroleaseProvider::acquire                                              *)

\* connect and send request_lease; a failed connection changes nothing
BeginAcquire(t) ==
    /\ provider
    /\ task[t] = Idle
    /\ Goto(t, "asked", {})
    /\ UNCHANGED <<vaultVars, static, provider, channel, worker, forsaken>>

\* the vault answers with a grant ...
Granted(t) ==
    /\ task[t].pc = "asked"
    /\ \E id \in LeaseId : Contract!Grant(id) /\ Goto(t, "granted", {id})
    /\ UNCHANGED <<static, provider, channel, worker, forsaken>>

\* ... or an error
Refused(t) ==
    /\ task[t].pc = "asked"
    /\ Goto(t, "idle", {})
    /\ UNCHANGED <<vaultVars, static, provider, channel, worker, forsaken>>

\* access_secret is let in ...
Access(t) ==
    /\ task[t].pc = "granted"
    /\ \E id \in task[t].lease : Contract!Authorize(id, t)
    /\ Goto(t, "fetched", task[t].lease)
    /\ UNCHANGED <<static, provider, channel, worker, forsaken>>

\* faulty: the guard does not know its lease
GuardedStatic(t) ==
    /\ task[t].pc = "fetched"
    /\ \E id \in task[t].lease : Contract!Deliver(id, t)
    /\ Goto(t, "holding", {})
    /\ UNCHANGED <<static, provider, channel, worker, forsaken>>

\* ... and the bytes become a guard with a sender of its own
Guarded(t) ==
    /\ task[t].pc = "fetched"
    /\ \E id \in task[t].lease : Contract!Deliver(id, t)
    /\ Goto(t, "holding", task[t].lease)
    /\ UNCHANGED <<static, provider, channel, worker, forsaken>>

\* access fails, before or after validation, or the secret is not UTF-8:
\* acquire returns an error and the lease id is gone with it
AcquireFails(t) ==
    /\ \/ /\ task[t].pc = "granted"
          /\ UNCHANGED vaultVars
       \/ /\ task[t].pc = "fetched"
          /\ \E id \in task[t].lease :
                Contract!Withdraw(id, t) \/ Contract!Deliver(id, t)
    /\ Goto(t, "idle", {})
    /\ Forsake(task[t].lease)
    /\ UNCHANGED <<static, provider, channel, worker>>

\* the future of acquire is dropped while it waits for the grant, which the
\* vault may still make (later, dropping it is AcquireFails without an error)
Cancelled(t) ==
    /\ task[t].pc = "asked"
    /\ \/ \E id \in LeaseId : Contract!Grant(id) /\ Forsake({id})
       \/ UNCHANGED <<vaultVars, forsaken>>
    /\ Goto(t, "idle", {})
    /\ UNCHANGED <<static, provider, channel, worker>>

-----------------------------------------------------------------------------
(* StaticProvider                                                          *)

InsertStatic ==
    /\ ~static
    /\ static' = TRUE
    /\ UNCHANGED <<vaultVars, task, provider, channel, worker, forsaken>>

AcquireStatic(t) ==
    /\ static
    /\ task[t] = Idle
    /\ Goto(t, "holding", {})
    /\ UNCHANGED <<vaultVars, static, provider, channel, worker, forsaken>>

-----------------------------------------------------------------------------
(* Dropping a guard, and the worker                                        *)

\* the receiver is gone once the worker has ended
ChannelOpen == worker.pc # "ended"

HasRoom == ChannelOpen /\ Len(channel) < Capacity

\* CredentialGuard::drop: try_send, which does not wait for room
DropGuard(t) ==
    /\ task[t].pc = "holding"
    /\ \/ /\ task[t].lease = {}
          /\ UNCHANGED <<channel, forsaken>>
       \/ /\ HasRoom
          /\ \E id \in task[t].lease : channel' = Append(channel, id)
          /\ UNCHANGED forsaken
       \/ /\ task[t].lease # {} /\ ~HasRoom
          /\ Forsake(task[t].lease)
          /\ UNCHANGED channel
    /\ Goto(t, "idle", {})
    /\ UNCHANGED <<vaultVars, static, provider, worker>>

\* the provider is dropped, and its sender with it; an acquire borrows it
DropProvider ==
    /\ provider
    /\ Acquiring = {}
    /\ provider' = FALSE
    /\ UNCHANGED <<vaultVars, task, static, channel, worker, forsaken>>

\* faulty: the lease id stays in the channel
ReceivePeeks ==
    /\ worker.pc = "idle"
    /\ channel # <<>>
    /\ worker' = At("revoking", {Head(channel)})
    /\ UNCHANGED <<vaultVars, task, static, provider, channel, forsaken>>

\* recv: the next lease id ...
Receive ==
    /\ worker.pc = "idle"
    /\ channel # <<>>
    /\ worker' = At("revoking", {Head(channel)})
    /\ channel' = Tail(channel)
    /\ UNCHANGED <<vaultVars, task, static, provider, forsaken>>

\* faulty: guards do not keep the channel open
WorkerEndsWithProvider ==
    /\ worker.pc = "idle"
    /\ channel = <<>>
    /\ ~provider
    /\ worker' = At("ended", {})
    /\ UNCHANGED <<vaultVars, task, static, provider, channel, forsaken>>

\* faulty: the worker, too, has a sender
WorkerEndsWithoutSender ==
    /\ worker.pc = "idle"
    /\ channel = <<>>
    /\ ~provider
    /\ Holders = {} /\ ~ChannelOpen
    /\ worker' = At("ended", {})
    /\ UNCHANGED <<vaultVars, task, static, provider, channel, forsaken>>

\* ... or None, once the channel is empty and every sender gone
WorkerEnds ==
    /\ worker.pc = "idle"
    /\ channel = <<>>
    /\ ~provider
    /\ Holders = {}
    /\ worker' = At("ended", {})
    /\ UNCHANGED <<vaultVars, task, static, provider, channel, forsaken>>

\* connect and revoke_lease: a lease that is over stays as it is ...
RevokeOne ==
    /\ worker.pc = "revoking"
    /\ Contract!End({id \in worker.lease : phase[id] = "granted"})
    /\ worker' = At("idle", {})
    /\ UNCHANGED <<task, static, provider, channel, forsaken>>

\* faulty: the lease goes to the end of the channel to be tried again
RevokeFailsRequeues ==
    /\ worker.pc = "revoking"
    /\ HasRoom
    /\ \E id \in worker.lease : channel' = Append(channel, id)
    /\ worker' = At("idle", {})
    /\ UNCHANGED <<vaultVars, task, static, provider, forsaken>>

\* ... or the connection or the call fails, which is logged
RevokeFails ==
    /\ worker.pc = "revoking"
    /\ Forsake(worker.lease)
    /\ worker' = At("idle", {})
    /\ UNCHANGED <<vaultVars, task, static, provider, channel>>

-----------------------------------------------------------------------------
(* git_credential::handle_get, once per process                            *)

HelperAsks(h) ==
    /\ task[h] = Idle
    /\ \/ /\ \E id \in LeaseId : /\ Contract!Grant(id)
                                 /\ Goto(h, "granted", {id})
                                 /\ Forsake({id})
       \/ (* host not in the map, no connection, or refused *)
          /\ Goto(h, "exited", {})
          /\ UNCHANGED <<vaultVars, forsaken>>
    /\ UNCHANGED <<static, provider, channel, worker>>

\* access_secret, the credential on stdout, and the process ends; or it
\* ends in an error
HelperAnswers(h) ==
    /\ \/ /\ task[h].pc = "granted"
          /\ \/ /\ \E id \in task[h].lease : Contract!Authorize(id, h)
                /\ Goto(h, "fetched", task[h].lease)
             \/ /\ Goto(h, "exited", {})
                /\ UNCHANGED vaultVars
       \/ /\ task[h].pc = "fetched"
          /\ \E id \in task[h].lease :
                Contract!Deliver(id, h) \/ Contract!Withdraw(id, h)
          /\ Goto(h, "exited", {})
    /\ UNCHANGED <<static, provider, channel, worker, forsaken>>

-----------------------------------------------------------------------------
(* The vault ends leases by itself, and restarts.                          *)

Expire ==
    /\ \E id \in LeaseId : Contract!End({id})
    /\ UNCHANGED <<task, static, provider, channel, worker, forsaken>>

\* the connections of those that were being answered break: their callers
\* see an error
VaultRestarts ==
    /\ Contract!Crash
    /\ task' = [t \in Caller |->
                  IF task[t].pc \in {"asked", "granted", "fetched"}
                  THEN At(IF t \in Task THEN "idle" ELSE "exited", {})
                  ELSE task[t]]
    /\ Forsake(UNION {task[t].lease : t \in Acquiring})
    /\ UNCHANGED <<static, provider, channel, worker>>

-----------------------------------------------------------------------------
Init ==
    /\ Contract!Init
    /\ task = [t \in Caller |-> Idle]
    /\ static = FALSE
    /\ provider = TRUE
    /\ channel = <<>>
    /\ worker = Idle
    /\ forsaken = {}

WorkerStep == Receive \/ WorkerEnds \/ RevokeOne \/ RevokeFails

Next ==
    \/ \E t \in Task :
         \/ BeginAcquire(t) \/ Granted(t) \/ Refused(t) \/ Access(t)
         \/ Guarded(t) \/ AcquireFails(t) \/ Cancelled(t)
         \/ AcquireStatic(t) \/ DropGuard(t)
    \/ \E h \in Helper : HelperAsks(h) \/ HelperAnswers(h)
    \/ InsertStatic \/ DropProvider \/ WorkerStep
    \/ Expire \/ VaultRestarts

Spec == Init /\ [][Next]_vars

\* the runtime polls the worker, and no call to the vault hangs
FairSpec == Spec /\ WF_vars(WorkerStep)

-----------------------------------------------------------------------------
(* Properties.                                                             *)

Queued == {channel[i] : i \in 1 .. Len(channel)}

(* Type invariant, with the bound of the channel.                          *)
TypeOK ==
    /\ phase \in [LeaseId -> {"unborn", "granted", "over"}]
    /\ pending \in [LeaseId -> SUBSET Caller]
    /\ served \in [LeaseId -> Nat]
    /\ task \in [Caller -> [pc : {"idle", "asked", "granted", "fetched",
                                  "holding", "exited"},
                            lease : SUBSET LeaseId]]
    /\ static \in BOOLEAN
    /\ provider \in BOOLEAN
    /\ channel \in Seq(LeaseId) /\ Len(channel) <= Capacity
    /\ worker \in [pc : {"idle", "revoking", "ended"}, lease : SUBSET LeaseId]
    /\ forsaken \subseteq LeaseId

(* A lease on its way to revocation belongs to nobody: no guard for it is  *)
(* held, no acquire still works with it, and it is on its way once         *)
(* (CredentialGuard::drop, revocation_worker).                             *)
OnlyDroppedRevoked ==
    /\ \A i, j \in 1 .. Len(channel) : channel[i] = channel[j] => i = j
    /\ Queued \cap worker.lease = {}
    /\ \A t \in Caller : task[t].lease \cap (Queued \cup worker.lease) = {}
    /\ \A id \in Queued \cup worker.lease : phase[id] # "unborn"

(* No lease is forgotten without a reason: one that runs is used by a      *)
(* task, on its way to revocation, or was given up where the code gives    *)
(* up (an acquire that failed or was cancelled after the grant, a full     *)
(* channel, a failed revocation, the git helper), and then only expiry     *)
(* ends it.                                                                *)
LeasesAccountedFor ==
    \A id \in LeaseId :
        phase[id] = "granted" =>
            \/ \E t \in Task : id \in task[t].lease
            \/ id \in Queued \cup worker.lease
            \/ id \in forsaken

(* A guard never finds the channel closed, however late it is dropped: the *)
(* worker ends after the provider and the last guard are gone and every    *)
(* lease sent has been taken out.                                          *)
WorkerOutlivesGuards ==
    worker.pc = "ended" => ~provider /\ Holders = {} /\ channel = <<>>

(* Every lease sent to the worker comes to an end or to a failed call,     *)
(* also when the provider has been dropped.                                *)
SentLeasesHandled ==
    \A id \in LeaseId :
        id \in Queued ~> (phase[id] = "over" \/ id \in forsaken)

(* Once the provider and every guard are dropped, the worker ends.         *)
WorkerStops == (~provider /\ Holders = {}) ~> worker.pc = "ended"
=============================================================================
