# zerolease in TLA+

A TLA+ model of zerolease, a credential vault that hands agents time-limited,
domain-scoped *leases* instead of credentials. TLC checks the modules on small
instances; TLAPS proves all but five of the safety properties, and both
refinements, for all instances.

Paths are relative to the repository root. `PROJECT.json` lists every run, the
source lines of every definition, the findings, the hazards and the theorems.

## The system

| Part | Source | Model |
|---|---|---|
| vault core: leases | `src/vault.rs`, `src/lease.rs` | `Lease`, `Vault`, `LeaseContract` |
| sessions | `src/session.rs`, `src/vault.rs` | `Session`, `Vault` |
| policy engine | `src/policy/mod.rs` | `Policy` (fixed policy) |
| domain scopes | `crates/zerolease-types/src/identity.rs` | `DomainScope`, `DomainText` |
| DEK, key sources, rotation | `src/vault.rs`, `src/keysource/` | `Rotation` |
| cipher | `src/crypto.rs` | `Cipher` |
| secret stores (SQLite, PostgreSQL, AWS) | `crates/zerolease-store-*/src/store.rs` | `Stores`, `StoreContract`; as used by a rotation in `Rotation` |
| audit tables and tracing backend | `src/audit/`, `crates/zerolease-store-*/src/audit.rs` | `AuditEvents`, `AuditChain` |
| audit log as the vault uses it | `src/vault.rs` | variable `audit` of `Vault` |
| server, authentication | `src/server.rs`, `src/auth.rs` | `Wire` |
| client, wire protocol | `src/client.rs`, `src/protocol/` | `Wire` |
| credential provider | `crates/zerolease-provider/` | `Provider` |
| git credential helper | `crates/zerolease-agent/src/git_credential.rs` | `Provider` |
| agent provisioner and proxy | `crates/zerolease-agent/` | `VmAgent`, `Sni` |
| transports | `src/transport/` | the peer identities they report (`Wire`) |

Agents reach the vault through a client, a stream and one server task per
connection, which authenticates once and then answers one request after the
other. A lease request passes the policy (and for a scoped request the session
and its tool bindings), the per-agent cap and the store, is audited, and becomes
a record in an in-memory map. Accessing a secret validates and counts the use,
fetches, decrypts, audits and returns a guard. Leases end by revocation (singly,
by agent, by session, with their secret), by expiry, by collection or by a
restart. The secrets are sealed under one data encryption key (DEK), which a key
source holds and `rotate_dek` replaces. Tools get credentials from a provider,
whose guards give their lease back through a background worker. In a VM the
provisioner acquires a lease per manifest entry and publishes them in a lease
file; the proxy keeps a copy of that file and lets connections through to leased
domains.

How the modules fit together:

    Wire        client | stream | server      what an answer means, to whom
      dispatch
    Vault       calls, split at their awaits  what an operation does
      implements LeaseContract
    Provider    a client of LeaseContract     who revokes a lease
    VmAgent     a client of the vault         who serves a lease in a VM
    Rotation    DEK and ciphertexts           uses Cipher and a simple store
    Stores      the real stores, implement StoreContract
    AuditChain  the audit tables, one INSERT at a time

## The modules

**`DomainScope`** defines `Matches` on domains as sequences of labels.
**`DomainText`** defines it on characters, as the code does; the run
`domain_text` shows the two agree, which justifies the labels everywhere else.

**`Policy`**, **`Lease`**, **`Session`** translate the data types and their pure
methods. An `Option` is a set of at most one element; agent and secret names are
sequences of pieces, so that prefix patterns are prefixes.

**`Vault`** is the core. State: the clock, the lease and session maps, the names
in the store, the audit records, the call in flight per connection, and the
history variable `guards` (guards returned per lease). A handler is split where
it awaits: each lock scope is one step, and `calls[c]` holds the next step and
the locals carried over. `request_lease` is `RequestLease`, `CheckCap`,
`CheckExists`, `Grant`, `InsertLease`; the scoped form adds `LinkLease` and
`CountLease`; `access_secret` is `AccessSecret`, `Fetch`, `Deliver`;
`renew_lease` is `RenewLease` and `FinishRenew`, between which it keeps the lease
map locked while it waits for the session map; a scoped request whose tool binding
is denied keeps the session map locked while it records that (`Holding`).
`BackendFails` is a failing store or audit log, `Restart` the loss of
everything in memory. A call that fails without effect is a stuttering step.
**`VaultProperties`** states the properties, **`MCVault`** the instances.

**`LeaseContract`** is what a lease is to those who hold one: granted once, open
to callers let in while it runs, and over for good. **`VaultRefinement`** maps
the vault to it: a lease is granted when its `LeaseGranted` record is written,
over from the moment nothing can bring it back, and the callers let in are the
calls between `validate` and the guard.

**`Wire`** models both ends of a connection. The client connects, says hello,
writes a request and takes the next response. Its caller may drop the call while it
waits, before or in the middle of reading the response (`Abandon`), or in the
middle of the write (`AbandonWrite`); a response cut in this way leaves the client
reading from its middle (`Misaligned`, `ReadMisaligned`). The history variables
`unanswered`, `torn` and `registered` count the calls that ended without a response
on a stream that went on, mark torn writes, and keep the identities a connection's
token stood for while it was being admitted. The server accepts,
compares the hello, authenticates, checks version, method, role and parameters,
dispatches, answers, and may be told to stop accepting. Tokens are registered
and removed while connections run. A frame is there whole, cut or not at all; a
result that does not fit in a frame ends the connection.

**`Provider`** composes `LeaseContract` with the tasks that acquire and drop
guards, `StaticProvider`, the bounded revocation channel with its worker, and the
git helper, which never revokes. `Cancelled` drops the future of an `acquire` at
any await; what the vault was asked by then it does all the same. The history
variable `forsaken` holds the leases given up, each at a line where the code
gives up.

**`Stores`** models `put`, `update`, `batch_update`, `delete` and `list` of the
three backends. In SQL each takes effect in one statement, a batch in one
transaction, some time after it was asked for (`AskBatch`, `Commit`, `Rollback`). On
Secrets Manager an update is a read, a write of the value and a write of the
tags, one name after the other in a batch; a deletion is two calls, and the
secret lingers for the recovery window unless `with_force_delete` is set. Rows
carry kind and algorithm as text, in the spelling of this and of earlier
releases; a row that does not parse fails `get`, makes `list` fail in SQL, and is
skipped by `list` on Secrets Manager. **`StoreContract`** is the promise of the trait.

**`Cipher`** has two ideal algorithms: what is sealed opens under its key, its
algorithm and a nonce of the right length, and under nothing else.

**`Rotation`** models `initialize`, `store_secret`, `delete_secret` and
`rotate_dek` against each kind of key source (env, keychain, KMS) and store
(transactional SQL, sequential Secrets Manager), for both default algorithms. The
KMS blob is overwritten in two steps (truncate, fill). Failures and crashes are
possible at every step. Any connection may store, delete and rotate. The history
variables are `written` (last plaintext stored per name), `torn` (a rotation was cut
off between its first write to the store and the end of its write to the key
source), `crossed` (a rotation overlapped a `store_secret` or another rotation) and
`restored` (names deleted and stored again while a rotation carried the plaintext
they had before).

**`AuditEvents`** lists the events with the fields the tables index.
**`AuditChain`** models the three backends: on SQLite an entry is stamped when it
is built, and linked and inserted later under the connection mutex; PostgreSQL
inserts without a chain; the tracing backend stores nothing and answers queries
with an error. A digest is the list of what went into it.

**`VmAgent`** models the provisioner (`StartRun`, `RequestLease`, `AccessSecret`,
`Rollback`, `WriteEnvFile`, `WriteLeaseFile`, `Killed`) and the proxy
(`StartProxy`, the refresh loop as `Reload`, `Install` and `ReloadFails`, and per
connection a handler from the lease check over `ConnectUpstream` to the end of
the tunnel). Every copy of a lease's `expires_at` is the same instant, so the
model keeps the time left per lease, which needs no bound on the clock.

**`Sni`** is the proxy's reading of the server name, byte by byte with the
offsets of the code, on every prefix of a hello that may have arrived. Its
clients are external: they send well-formed hellos.

Definitions commented *faulty* are deliberate bugs, each next to the definition
it distorts. Substituting one must break the property `PROJECT.json` pairs it
with, which shows that the property depends on the code.

### Abstractions

- `Vault`: bulk revocation is one step, with an arbitrary subset of its
  best-effort audit records, since the code holds the lease map locked
  throughout and waits for no other lock. A call that waits for its first lock is
  idle; which of several waiting calls is served first is left open, where tokio
  serves them in order. Of the
  audit events only the four that properties mention are kept; for the others the
  await and its possible failure remain. An audit write that fails leaves no
  record.
- `Wire`: a frame arrives whole unless its writer was dropped in the middle, and
  is read whole unless its reader was; buffers of the socket do not fill up. JSON
  either parses or does not. What follows a torn frame is read misaligned, which
  ends the connection or waits for more bytes. Bytes from the middle of a frame are
  assumed not to parse as a request or as a response, of which they would have to be
  the whole JSON text behind its length. What the vault does is `Vault`'s; here it is the answer.
- `Provider`: a refused connection has no effect, as has a refused request.
- `Stores`: reads of Secrets Manager are strongly consistent, and nobody restores
  a secret from its recovery window. The row PostgreSQL reads back after an
  update may already be another caller's, or gone; the model keeps only the
  update. A transaction is the instant it commits: that it blocks other writers of
  its rows before is left out, and so are deadlocks between two of them, which end
  one of them as `Rollback` does.
- `Rotation`: a store is a function from names to ciphertexts. Secrets Manager
  deletes without a recovery window here; with one, a later `put` of the name
  fails, which `BackendFails` covers.
- `AuditChain`: the clock does not step back, and equal timestamps come out of
  the timestamp index in insertion order. The width of the query limit is a
  constant.
- `VmAgent`: manifest domains are in lower case, as the proxy looks them up; the
  version field of the lease file is left out, since one version is written; a
  revocation by someone else is invisible to the agent except that its calls fail.
- `Sni`: host names are ASCII, and the hello fits into the 16 KiB that are peeked.

## What TLC checks

| Run | Bounds | Shows | Distinct states |
|---|---|---|---|
| `leases` | 2 connections, 2 leases, 3 domains, clock 0..2 | `TypeOK`, `NothingUnaudited`, `PolicyConfinement`, `GuardsWithinUses`, `HorizonBounded`, `CapOvershootBounded`, `DeadStaysDead` | 1,367,532 |
| `admin` | 2 connections, 1 lease, 1 session, 1 domain, clock 0..1, restarts | `RevokedRecordsAreTrue`, `CallsReturn`, `ContractHeld` | 136,694 |
| `sessions` | 2 connections, 3 leases, 1 session, clock 0..3, restarts | `BindingConfinement`, `SessionLimitOvershootBounded`, `RenewalLimitHeld` | 61,483 |
| `domain_text` | strings of up to 5 characters over `*`, `.`, `a`; hellos with up to 3 extensions, in one record or two | `LabelsAgree`, `NamedOrDropped` | 255,168 |
| `audit_chain` | 2 tasks, 4 entries, 2 legacy rows, clock 1..3, limits of 3 bits | `ValidExactlyInOrder`, `QueriesAnswerNewest`, `LeaseTrailComplete` | 55,170 |
| `rotation` | 2 connections, 2 names, 2 values, 3 keys, all stores, sources and algorithms | `KeyAgreement`, `PlaintextKept`, `AloneRotationReachesAll` | 173,362 |
| `agent` | 2 manifests (two domains, one domain), 3 leases of 3 ticks, 2 ticks a second, 1 proxy connection | `NoPartialFile`, `RolledBackNeverServed`, `FailureRevokes`, `TunnelWithinLease`, `TunnelsClose` | 565,179 |
| `wire` | 1 connection, 3 requests of 4 methods, 1 token, 2 agents, 2 roles | `RepliesInOrder`, `AnswerLagBounded`, `OkMeansDone`, `ServedAsAuthenticated`, `RequestsResolved`, `HandlersEnd` | 655,920 |
| `provider` | 2 tasks, 1 run of the git helper, 3 leases, a channel of 1 | `OnlyDroppedRevoked`, `LeasesAccountedFor`, `WorkerOutlivesGuards`, `SentLeasesHandled`, `WorkerStops` | 121,248 |
| `stores` | 3 backends, 2 callers, 2 names, 2 kinds, versions up to 2 | `RowsReadable`, `ListedVersionsTrue`, `StoreContractHeld` | 945,858 |

Each property is explained where it is defined. `TypeOK` is a property of
`leases` only; those of `Rotation`, `VmAgent`, `Wire`, `Provider` and `Stores` are
proved, and no run lists them.

Bounds. Two connections suffice for every race below, which are all between a
call past its check and one other call. The cap is 1 and the session limit 1, so
that they are reached; the clock outlasts the longest ttl; one domain is outside
every grant, one matches two grants with different terms. Three keys allow a
first key and two rotations, so that a rotation follows a torn one or overlaps
another. `admin` has one lease and one session, enough for every pair of calls that
meet at the two locks. In
`audit_chain` half of the limits are negative as signed numbers. In `agent`,
three leases allow a whole provisioning after or before a shorter one; the tick
is half a second, so that a lease may have less than a second left, which the
proxy rounds to a timeout of zero. One proxy connection is enough because
handlers only read what they share. The cap on tunnels equals the longest
whole-second timeout, so that within these bounds the time left of the lease
always decides. In `wire`, connections share nothing but the tokens and the
accept loop, which other actors change at any time anyway, so one connection
stands for all; three requests leave room for two unanswered ones before an
answered one. In `provider` a channel of one is full after one guard. In `stores`
version 2 is the first an update writes, and two overlapping updates both write
it; the two kinds are OAuth2 with refresh fields, which no text carries in full and
whose old text does not parse, and one whose texts all parse.

Connections, lease ids and session ids are interchangeable in `leases` and
`sessions`, names in `stores`, and names, plaintexts, keys and connections in
`rotation`, which is the symmetry used. The runs that check liveness use none.

Fairness. `admin` assumes strong fairness of the steps of a call in flight: the
runtime polls every ready task, and tokio's locks serve waiters in order, so that
a call waiting for one of the maps is not passed over for ever. It does not assume
that clients call, that time passes, that backends succeed or that the process
restarts. `agent` assumes weak fairness of the clock and of elapsed timers, and
not that anyone closes a tunnel or that the file is reloaded. `wire` assumes weak
fairness of the server's task and of a client that reads: tasks with something to
read are polled, and dispatched operations return, which is what `CallsReturn`
says of them. A read on a misaligned stream (`ReadMisaligned`) has no fairness: the
bytes it waits for may never come. It does not assume that callers call, stay or close. `provider`
assumes weak fairness of the revocation worker, which includes that no call to
the vault hangs; nothing is assumed of tasks.

`domain_text` and `audit_chain` stop when their bounds are used up; in `wire`,
`provider` and `stores` the system may come to rest (every client gone, every
lease granted, every version used). These runs do not check for deadlock; the
others do.

### Where documents and code disagree

Two runs refute a sentence of a comment; the findings in `PROJECT.json` quote it.

| Run | What happens |
|---|---|
| `revoked_session` | a scoped request links its lease after the session's sweep |
| `rotation_store` | a secret stored during a rotation keeps the discarded key |

Six more sentences are stated as definitions and refuted by TLC if they take
the place of the properties in the configuration named, but have no run:

| Definition | Configuration | What happens |
|---|---|---|
| `ActiveLeaseCountExact` (`src/session.rs:34`) | `MCVault_revoked_session.cfg` | `active_lease_count` is never decremented |
| `SafelyRetried` (`crates/zerolease-store-aws-sm/src/store.rs:338`) | `MCRotation.cfg` | a half-applied batch makes every retry fail |
| `RefusedRotationHarmless` (`src/vault.rs:453`) | `MCRotation.cfg` | env and keychain sources refuse after the store was re-encrypted under the new key |
| `DeletedPlaintextGone` (`src/vault.rs:448`) | `MCRotation.cfg` | a name deleted and stored again while a rotation runs gets the deleted plaintext back |
| `RevokedTokenServesNothing` (`docs/guide-vm-deployment.md:169`, `docs/design.md:158`) | `MCWire.cfg` | a connection admitted before its token was revoked is served until it ends; leases have no link to a token, and live on |
| `AgentFieldIgnored` (`src/auth.rs:25`) | `MCWire.cfg` | an agent registered without an `agent_id` acts as whomever its request names (`src/server.rs:279`) |

What holds instead is checked too: the cap and the session limit are overshot by
less than the number of connections, the renewal limit holds while the session is
in memory, the keys agree unless a rotation was torn or crossed by a `store_secret`
or another rotation, and an operation has the rights its connection was admitted
with.

The models contain further behaviours of this kind that no run singles out:

- a request may insert its lease after the deletion of its secret swept the
  leases; every access through it fails at the fetch;
- an expired session's leases are swept by nobody;
- a lease with under a second left is collected while valid;
- a short renewal moves the expiry closer;
- the pattern `*.` matches hosts that end in a dot;
- two concurrent rotations may leave different keys in memory and in the key
  source, which is why `KeyAgreement` excepts rotations that overlap;
- `src/store/mod.rs:99` accepts "legacy JSON-quoted values for backward
  compatibility", but not the JSON object that stood for OAuth2: such a row cannot be
  read, in SQL it makes `list` fail for all secrets, and an update of it is committed
  and then answered with an error (`RowsReadable` says that there are no other
  unreadable rows);
- `crates/zerolease-provider/src/credential.rs:17` says the lease "is revoked on
  drop", and `docs/design-credential-sidecar-embedded.md:225` calls this "automatic,
  deterministic", while a full channel loses the revocation (`credential.rs:89`) and
  the lease lives until it expires; `LeasesAccountedFor` lists all such places;
- a lease that expires while `renew_lease` waits for the session map is renewed;
- audit entries inserted against their timestamps break the chain
  (`ValidExactlyInOrder` says that nothing else does);
- a provisioner that fails to write its files exits without rollback;
- a transparent tunnel has no timer;
- `src/protocol/mod.rs:3` speaks of pairs identified by request ids, while
  `src/client.rs:92` takes the next response for the answer: after a cancelled
  call answers lag behind (`AnswerLagBounded` says by how much at most), and after
  one cancelled within a response the client reads from its middle, where it may
  fail any number of calls or wait for ever;
- a client is told that the handshake succeeded before its token is looked at
  (`src/server.rs:150`), and learns of the refusal from the closed stream.

## What TLAPS proves

The theorems hold for every value of the constants that satisfies the named
assumptions: any number of leases, sessions, domains, agents, keys, tasks and
requests, any policy and any bound. Each proof that a step preserves an invariant
has one case per action of the module.

| Module | Theorems about |
|---|---|
| `VaultProofs` | types, confinement to the policy, audit records, the end of leases, the contract |
| `VaultLimitProofs` | horizons, uses, the cap, sessions |
| `RotationProofs` | keys and plaintexts |
| `ProviderProofs` | who revokes a lease |
| `VmAgentProofs` | what the agent publishes and serves |
| `StoresProofs` | the stores and their contract |
| `WirePairingProofs` | lemmas on one connection: what can happen to it keeps responses paired with requests |
| `WireProofs` | `Wire`: its actions do nothing else to a connection, and whose rights are used |

The assumptions: `Vault` has a well-typed policy, well-typed session policies and
numbers, and finitely many connections; `Rotation` a value for a damaged blob that
is no key, and callers that are connections; `Provider` a channel of at least one place and helpers that are not
tasks; `VmAgent` a second of at least one tick; `Stores` a bound on versions of
at least one; `Wire` well-typed calls, identities and hellos. TLC evaluates all of
them.

| Theorem | States | Inductive invariant and why it is needed |
|---|---|---|
| `TypeCorrect` | `TypeOK` of `Vault` | itself; lemmas give the type of each operation on leases and of each way a call moves on |
| `MatchesTransitive` | if a scope matches a second scope and that one a host, the first matches the host; domains of any length | none |
| `Confinement` | `PolicyConfinement` | `ConfinementInv`: the property speaks of accesses, the policy saw only the requested scope; so every lease, in the map or about to enter it, has scopes the policy permits, and `MatchesTransitive` carries this to the host |
| `AuditFirst` | `NothingUnaudited` | `AuditInv`: leases about to be inserted and leases being accessed have their grant on record |
| `RecordsTrue` | `RevokedRecordsAreTrue` | `LifeInv` = `IdInv` (an id belongs to at most one request until it returns, and is in the log before it is anywhere else) and `ReportInv` (a lease whose revocation is recorded or about to be is not waiting to be inserted) |
| `Finality` | `DeadStaysDead` | `LifeInv`, and that `renew_lease` keeps the map locked between its check and its write |
| `VaultImplementsContract` | `ContractHeld` | `TypeOK` and `LifeInv`: each action maps to one step of `LeaseContract` or to a stutter |
| `Horizon` | `HorizonBounded` | `HorizonInv`: the same of leases waiting to be inserted, and a renewal in progress asks for an allowed extension |
| `UseLimit` | `GuardsWithinUses` | `UsesInv`: an id not yet in the map has neither guards nor accesses |
| `CapOvershoot` | `CapOvershootBounded` | `CapInv`: the map is finite, and a lease waiting to be inserted belongs to the agent that asked |
| `SessionConfinement`, `RenewalLimit` | `BindingConfinement`, `RenewalLimitHeld` | `SessionInv`: linked leases and requests under way lie within the bindings of their session (`LinkedInv`, `RequestInv`), and a lease keeps the scope of its request until it is linked, since nobody else knows its id (`DrawnInv`) |
| `SessionLimit` | `SessionLimitOvershootBounded` | `SessionLimitInv`: the children are counted or about to be, and the counter with the requests in flight stays below limit plus connections |
| `PlaintextsSurvive`, `KeysAgree`, `RotationComplete` | `PlaintextKept`, `KeyAgreement`, `AloneRotationReachesAll` | `RotationInv`, below |
| `DroppedBeforeRevoked`, `NoLeaseForgotten`, `ChannelOpenToGuards` | `OnlyDroppedRevoked`, `LeasesAccountedFor`, `WorkerOutlivesGuards` | `ProviderInv`: the three together, that a lease has one user at a time, who was granted it (`UsersInv`), and that nothing is acquired from a dropped provider (`EndInv`) |
| `FileCoversManifest` | `NoPartialFile` | `CoverInv`: the provisioner's locals cover the entries before the current one, and from the files on the whole manifest |
| `RollbackBeforePublication` | `RolledBackNeverServed` | `ServedInv`: a lease is owed by the provisioner or may be served, never both |
| `RollbackReachesAll` | `FailureRevokes` | `OwedInv`: what is owed is live until the rollback, and what the rollback has passed is not |
| `TimerWithinLease` | `TunnelWithinLease` | `TimerInv`: the same of a connection that is still connecting |
| `KindsParse`, `AlgorithmsParse` | the parsers read what this and earlier releases write, except the OAuth2 kind of earlier ones | none |
| `AllReadable` | `RowsReadable` | itself, with the types: what a call on Secrets Manager carries from its read to its write is one parsed kind |
| `ListAgrees` | `ListedVersionsTrue` | `TagInv`: the version tag is that of the value unless a tag call excuses it; `OnlyOnAws`: in SQL a call is a statement or a batch that waits for its transaction, and nothing is scheduled for deletion |
| `StoresKeepPromise` | `StoreContractHeld` | `StoresInv`, the conjunction of the above and `OnceAsked` (a name leaves the list when its update begins): each action maps to one step of `StoreContract`, to a stutter, or is the write after a stale read |
| `AnsweredInOrder`, `LagWithinUnanswered`, `OkIsCarriedOut` | `RepliesInOrder`, `AnswerLagBounded`, `OkMeansDone` | `PairInv`, below |
| `RightsOfAdmission` | `ServedAsAuthenticated` | `RightsInv`: nothing is carried out before the connection is authenticated, and its peer names the token presented from then on; `KnownInv`: what the token stands for while authentication is due is recorded, and who is admitted was recorded |

The theorems on `Rotation` hold for any connections that store, delete and rotate.
`RotationInv` has two parts. `TextInv` holds always: what a rotation has read and
not yet written is the plaintext last stored, unless the name was deleted and stored
again, so that no batch, whole or torn, changes a plaintext. `AloneInv` holds until
a rotation overlaps a `store_secret` or another rotation, and says for each point of
a rotation how the three places of the key relate: while it reads, memory holds the
old key, and every secret is read, still to be read, or already under the new key;
from the end of the batch on all are under the new key; from the end of the write to
the key source on that key is the persisted one. Between rotations, unless one was
torn, all three agree. Without the condition `RotationReachesAll` is false (run
`rotation_store`).

`PairInv` follows the frames of a connection through the three places they can be
in: the stream to the client, the request being dispatched, the stream to the
server. Read in this order their ids are increasing (`IdOf`), which is
`RepliesInOrder`. A frame with *n* frames before it is at least *n* short of the
newest request, apart from the unanswered requests and the one waited for, and a
torn frame takes the next one with it (`LagOf`); the response at the front of the
stream is then behind by at most the unanswered requests. A response of success
belongs to the last operation, and the newest id to the method that was called
(`DoneOf`). `PhaseOf` says how far apart the two ends can be: before the handshake
there is nothing but the hello, and at most one frame is torn. The proof that the
step of one connection keeps all this works on the values of that connection alone
(`WirePairingProofs`), and `WireProofs` shows for each action of `Wire` that it is
such a step and leaves the other connections as they are.

`RotationTyped`, `ProviderTyped`, `AgentTyped`, `StoresTyped` and `WireTyped` prove
`TypeOK` of their modules along the way.

Only model-checked are:

- liveness, and with it fairness and `ENABLED`, which are out of the prover's
  reach: `CallsReturn`, `TunnelsClose`, `RequestsResolved`, `HandlersEnd`,
  `SentLeasesHandled`, `WorkerStops`;
- what needs an induction over data, which the prover cannot do for an arbitrary
  predicate: `ValidExactlyInOrder`, `QueriesAnswerNewest` and `LeaseTrailComplete`
  of `AuditChain`, which sort and filter tables of any length, `LabelsAgree` of
  `DomainText`, which relates labels to the characters they are split from, and
  `NamedOrDropped` of `Sni`, a parser that loops over bytes. What the vault's
  proofs use of `DomainScope`, the labels, is proved (`MatchesTransitive`).

## Refinement and composition

`LeaseContract` stands between the vault and its users. `Vault` implements it
(`ContractHeld`, checked by `admin` and proved for all instances), and `Provider`
is built from its actions, so that its safety properties, proved for all instances
as well, use of the vault only what the vault is shown to implement, restarts and
expiry included.

`Stores` implements `StoreContract` with one exception, which
`StoreContractHeld` names: on Secrets Manager, the write of an update whose read
is stale. SQLite and PostgreSQL have no exception. `stores` checks it, and
`StoresKeepPromise` proves it for any names, clients and versions.

## Not modelled

- Transports: listening, TLS set-up and file permissions are I/O without state in
  this code; only the peer identity each reports is in `Wire`.
- Policy: `reload` takes the engine mutably, and a vault owns its engine, so no
  caller can reach it; loading from JSON, introspection and warnings have no
  effect on decisions.
- Key material: hex decoding, lengths and zeroing; the ciphers are ideal.
- The agent's command line, its env and config writers, request-line parsing and
  the git helper's text protocol: formatting and parsing without shared state.
- Error types and crate roots: declarations.

Hazards without a property are listed in `PROJECT.json` with the reason: a
request racing the deletion of its secret, files that
cannot be written after all leases were acquired, and transparent tunnels, for
which the code promises nothing that could be checked.
