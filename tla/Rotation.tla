------------------------------- MODULE Rotation -------------------------------
(***************************************************************************)
(* The data encryption key: Vault::initialize, store_secret, delete_secret *)
(* and rotate_dek against a KeySource and a SecretStore.  Secrets are      *)
(* sealed and opened as in Cipher; a restart may bring another default     *)
(* algorithm.  A call is a record with the step it takes next and the      *)
(* locals it carries across the await, as in Vault.                        *)
(***************************************************************************)
EXTENDS Cipher, Functions, FiniteSets

CONSTANTS
    Conn,     \* connections (or in-process callers)
    Storers, Deleters, Rotators,  \* the connections that call each operation
    Name,     \* secret names
    Value,    \* plaintexts
    Key,      \* keys the random generator may yield
    Backend,  \* kinds of SecretStore, subset of {"sql", "aws_sm"}
    Source,   \* kinds of KeySource, subset of {"env", "keychain", "kms"}
    Damaged   \* a key blob cut short while it was written

ASSUME KeyAssumption == Damaged \notin Key
ASSUME CallersAssumption == Storers \cup Deleters \cup Rotators \subseteq Conn
ASSUME KindAssumption ==
    Backend \subseteq {"sql", "aws_sm"} /\ Source \subseteq {"env", "keychain", "kms"}

VARIABLES
    config,     \* store, key source and default algorithm of this vault
    secrets,    \* the secrets table: name -> sealed
    persisted,  \* the DEK as the key source holds it, {} if there is none
    dek,        \* Vault::dek, {} before initialize
    calls,      \* per connection, the call in flight
    drawn,      \* keys drawn so far
    torn,       \* history: a rotation was cut off between its first write
                \* to the store and the end of its write to the key source
    crossed,    \* history: a rotation overlapped a store_secret or a rotation
    written,    \* history: the plaintext last stored under each name
    restored    \* history: names put again, after a delete, while a rotation
                \* carried the plaintext they had before

vars == <<config, secrets, persisted, dek, calls, drawn, torn, crossed, written,
          restored>>

-----------------------------------------------------------------------------
Idle(c) == calls[c].pc = "idle"

Quiet == \A c \in Conn : Idle(c)

Rotating(c) == calls[c].pc \in {"read", "rotate_key", "write_blob", "swap"}

Return(c) == calls' = [calls EXCEPT ![c] = [pc |-> "idle"]]

Goto(c, call) == calls' = [calls EXCEPT ![c] = call]

\* rows updated by name with what was sealed earlier
Reseal(updates) ==
    [n \in DOMAIN secrets |->
        IF n \in DOMAIN updates THEN updates[n] ELSE secrets[n]]

\* the call has begun to replace the old key and cannot yet be resumed from
\* what the key source holds
HalfRotated(c) ==
    \/ /\ calls[c].pc \in {"read", "rotate_key"}
       /\ \E n \in DOMAIN secrets : secrets[n].ciphertext.key = calls[c].new
    \/ calls[c].pc = "write_blob" /\ dek # {}

-----------------------------------------------------------------------------
(* initialize: once, before the vault serves requests                      *)

\* load_or_create_dek finds a key (an env var must be set)
LoadDek ==
    /\ Quiet /\ dek = {}
    /\ persisted \notin {{}, {Damaged}}
    /\ dek' = persisted
    /\ UNCHANGED <<config, secrets, persisted, calls, drawn, torn, crossed, written, restored>>

\* ... or creates one: the keychain stores it in one operation
CreateInKeychain ==
    /\ Quiet /\ dek = {}
    /\ config.source = "keychain" /\ persisted = {}
    /\ \E k \in Key \ drawn :
         /\ drawn' = drawn \cup {k}
         /\ persisted' = {k}
         /\ dek' = {k}
    /\ UNCHANGED <<config, secrets, calls, torn, crossed, written, restored>>

\* ... KMS encrypts it and writes a file, which exists from here on
CreateWithKms(c) ==
    /\ Quiet /\ dek = {}
    /\ config.source = "kms" /\ persisted = {}
    /\ \E k \in Key \ drawn :
         /\ drawn' = drawn \cup {k}
         /\ Goto(c, [pc |-> "write_blob", new |-> k])
    /\ persisted' = {Damaged}
    /\ UNCHANGED <<config, secrets, dek, torn, crossed, written, restored>>

-----------------------------------------------------------------------------
(* store_secret and delete_secret                                          *)

\* encrypt under the DEK of the moment
Encrypt(c) ==
    /\ c \in Storers /\ Idle(c)
    /\ \E n \in Name, v \in Value, k \in dek :
         Goto(c, [pc |-> "put", name |-> n, value |-> v,
                  sealed |-> Seal(config.algorithm, v, k)])
    /\ crossed' = (crossed \/ \E d \in Conn : Rotating(d))
    /\ UNCHANGED <<config, secrets, persisted, dek, drawn, torn, written, restored>>

\* some rotation has read the secret and not yet written it
Carried(n) ==
    \E d \in Conn : calls[d].pc = "read" /\ n \in DOMAIN calls[d].updates

\* store.put refuses a name that exists
Put(c) ==
    /\ calls[c].pc = "put"
    /\ LET n == calls[c].name IN
       IF n \in DOMAIN secrets
       THEN UNCHANGED <<secrets, written, restored>>
       ELSE /\ secrets' = [m \in DOMAIN secrets \cup {n} |->
                             IF m = n THEN calls[c].sealed ELSE secrets[m]]
            /\ written' = [written EXCEPT ![n] = {calls[c].value}]
            /\ restored' = IF Carried(n) THEN restored \cup {n} ELSE restored
    /\ Return(c)
    /\ UNCHANGED <<config, persisted, dek, drawn, torn, crossed>>

Delete(c) ==
    /\ c \in Deleters /\ Idle(c) /\ dek # {}
    /\ \E n \in DOMAIN secrets :
         /\ secrets' = Restrict(secrets, DOMAIN secrets \ {n})
         /\ written' = [written EXCEPT ![n] = {}]
         /\ restored' = restored \ {n}
    /\ UNCHANGED <<config, persisted, dek, calls, drawn, torn, crossed>>

-----------------------------------------------------------------------------
(* rotate_dek                                                              *)

\* 1. the old DEK, 2. a new one, 3. store.list
BeginRotate(c) ==
    /\ c \in Rotators /\ Idle(c)
    /\ \E old \in dek, k \in Key \ drawn :
         /\ drawn' = drawn \cup {k}
         /\ Goto(c, [pc |-> "read", old |-> old, new |-> k, todo |-> DOMAIN secrets,
                     updates |-> [n \in {} |-> {}]])
    /\ crossed' = (crossed \/ ~Quiet)
    /\ UNCHANGED <<config, secrets, persisted, dek, torn, written, restored>>

Rekeyed(c, n) ==
    Seal(config.algorithm, secrets[n].ciphertext.value, calls[c].new)

\* faulty: a secret that does not decrypt is skipped
SkipUnreadable(c) ==
    /\ calls[c].pc = "read"
    /\ \E n \in calls[c].todo :
         Goto(c, [calls[c] EXCEPT
                    !.todo = @ \ {n},
                    !.updates = [m \in DOMAIN @ \cup
                                    {x \in {n} \cap DOMAIN secrets :
                                        Decrypt(secrets[x], calls[c].old) # {}} |->
                                   IF m = n THEN Rekeyed(c, n) ELSE @[m]]])
    /\ UNCHANGED <<config, secrets, persisted, dek, drawn, torn, crossed, written, restored>>

\* get one secret, decrypt it with the old DEK, collect the update; a name
\* that is gone or does not decrypt ends the rotation
ReadOne(c) ==
    /\ calls[c].pc = "read"
    /\ \E n \in calls[c].todo :
         IF n \in DOMAIN secrets /\ Decrypt(secrets[n], calls[c].old) # {}
         THEN Goto(c, [calls[c] EXCEPT
                         !.todo = @ \ {n},
                         !.updates = [m \in DOMAIN @ \cup {n} |->
                                        IF m = n THEN Rekeyed(c, n) ELSE @[m]]])
         ELSE Return(c)
    /\ UNCHANGED <<config, secrets, persisted, dek, drawn, torn, crossed, written, restored>>

\* faulty: rows that are gone are inserted again
BatchUpsert(c) ==
    /\ calls[c].pc = "read" /\ calls[c].todo = {}
    /\ config.store = "sql"
    /\ secrets' = [n \in DOMAIN secrets \cup DOMAIN calls[c].updates |->
                     IF n \in DOMAIN calls[c].updates
                     THEN calls[c].updates[n]
                     ELSE secrets[n]]
    /\ Goto(c, [pc |-> "rotate_key", new |-> calls[c].new])
    /\ UNCHANGED <<config, persisted, dek, drawn, torn, crossed, written, restored>>

\* 4. batch_update in a transaction: a missing row rolls it back
BatchTransaction(c) ==
    /\ calls[c].pc = "read" /\ calls[c].todo = {}
    /\ config.store = "sql"
    /\ IF DOMAIN calls[c].updates \subseteq DOMAIN secrets
       THEN /\ secrets' = Reseal(calls[c].updates)
            /\ Goto(c, [pc |-> "rotate_key", new |-> calls[c].new])
       ELSE Return(c) /\ UNCHANGED secrets
    /\ UNCHANGED <<config, persisted, dek, drawn, torn, crossed, written, restored>>

\* 4. batch_update one secret after the other, without rollback
BatchOne(c) ==
    /\ calls[c].pc = "read" /\ calls[c].todo = {}
    /\ config.store = "aws_sm"
    /\ LET updates == calls[c].updates IN
       \/ /\ updates = [n \in {} |-> {}]
          /\ Goto(c, [pc |-> "rotate_key", new |-> calls[c].new])
          /\ UNCHANGED <<secrets, torn>>
       \/ \E n \in DOMAIN updates :
            IF n \in DOMAIN secrets
            THEN /\ secrets' = Reseal(Restrict(updates, {n}))
                 /\ Goto(c, [calls[c] EXCEPT
                               !.updates = Restrict(@, DOMAIN @ \ {n})])
                 /\ UNCHANGED torn
            ELSE /\ Return(c)
                 /\ torn' = (torn \/ HalfRotated(c))
                 /\ UNCHANGED secrets
    /\ UNCHANGED <<config, persisted, dek, drawn, crossed, written, restored>>

\* env and keychain sources answer rotate_dek with an error
CanRotate == config.source \notin {"env", "keychain"}

\* 5. key_source.rotate_dek: only KMS can, by overwriting its blob
RotateKey(c) ==
    /\ calls[c].pc = "rotate_key"
    /\ IF CanRotate
       THEN /\ persisted' = {Damaged}
            /\ Goto(c, [pc |-> "write_blob", new |-> calls[c].new])
            /\ UNCHANGED torn
       ELSE /\ Return(c)
            /\ torn' = (torn \/ HalfRotated(c))
            /\ UNCHANGED persisted
    /\ UNCHANGED <<config, secrets, dek, drawn, crossed, written, restored>>

\* fs::write truncates the file first and fills it afterwards
WriteBlob(c) ==
    /\ calls[c].pc = "write_blob"
    /\ persisted' = {calls[c].new}
    /\ Goto(c, [pc |-> "swap", new |-> calls[c].new])
    /\ UNCHANGED <<config, secrets, dek, drawn, torn, crossed, written, restored>>

\* faulty: the new key is persisted and forgotten
SwapForgotten(c) ==
    /\ calls[c].pc = "swap"
    /\ Return(c)
    /\ UNCHANGED <<config, secrets, persisted, dek, drawn, torn, crossed, written, restored>>

\* 6. dek.write(), here and at the end of initialize
SwapDek(c) ==
    /\ calls[c].pc = "swap"
    /\ dek' = {calls[c].new}
    /\ Return(c)
    /\ UNCHANGED <<config, secrets, persisted, drawn, torn, crossed, written, restored>>

-----------------------------------------------------------------------------
\* a `?` on the store, the cipher or the key source; after a step that wrote
\* it is also the answer that got lost
BackendFails(c) ==
    /\ calls[c].pc \in {"put", "read", "rotate_key", "write_blob"}
    /\ torn' = (torn \/ HalfRotated(c))
    /\ Return(c)
    /\ UNCHANGED <<config, secrets, persisted, dek, drawn, crossed, written, restored>>

\* the process dies; what the store and the key source hold remains; it may
\* be started with another default algorithm
Restart ==
    /\ torn' = (torn \/ \E c \in Conn : HalfRotated(c))
    /\ dek' = {}
    /\ calls' = [c \in Conn |-> [pc |-> "idle"]]
    /\ \E a \in CipherAlgorithms : config' = [config EXCEPT !.algorithm = a]
    /\ UNCHANGED <<secrets, persisted, drawn, crossed, written, restored>>

Init ==
    /\ config \in [store : Backend, source : Source, algorithm : CipherAlgorithms]
    /\ secrets = [n \in {} |-> {}]
    /\ \/ config.source # "env" /\ persisted = {} /\ drawn = {}
       \/ config.source = "env" /\ \E k \in Key : persisted = {k} /\ drawn = {k}
    /\ dek = {}
    /\ calls = [c \in Conn |-> [pc |-> "idle"]]
    /\ torn = FALSE /\ crossed = FALSE
    /\ written = [n \in Name |-> {}]
    /\ restored = {}

Next ==
    \/ \E c \in Conn :
         \/ CreateWithKms(c) \/ Encrypt(c) \/ Put(c) \/ Delete(c)
         \/ BeginRotate(c) \/ ReadOne(c) \/ BatchTransaction(c) \/ BatchOne(c)
         \/ RotateKey(c) \/ WriteBlob(c) \/ SwapDek(c) \/ BackendFails(c)
    \/ LoadDek \/ CreateInKeychain \/ Restart

Spec == Init /\ [][Next]_vars

-----------------------------------------------------------------------------
(* The state is well formed.                                               *)
TypeOK ==
    /\ config \in [store : Backend, source : Source, algorithm : CipherAlgorithms]
    /\ DOMAIN secrets \subseteq Name
    /\ \A n \in DOMAIN secrets :
         \E a \in CipherAlgorithms, v \in Value, k \in Key :
             secrets[n] = Seal(a, v, k)
    /\ \A set \in {persisted, dek} : \A k, l \in set : k = l
    /\ persisted \subseteq drawn \cup {Damaged}
    /\ dek \subseteq drawn
    /\ drawn \subseteq Key
    /\ torn \in BOOLEAN /\ crossed \in BOOLEAN
    /\ restored \subseteq Name
    /\ written \in [Name -> SUBSET Value]

Opens(keys) ==
    \A n \in DOMAIN secrets : \E k \in keys : Decrypt(secrets[n], k) # {}

(* Key agreement, whoever stores, deletes and rotates: unless a rotation   *)
(* was cut off between its first write to the store and the end of its     *)
(* write to the key source, or overlapped a store_secret or another        *)
(* rotation, the persisted key opens every secret whenever no call is in   *)
(* flight, and the key in memory is the persisted one.  A failure or a     *)
(* crash anywhere else in rotate_dek therefore loses no secret, and        *)
(* neither does a delete in its middle or another default algorithm.       *)
KeyAgreement ==
    ~torn /\ ~crossed /\ Quiet => Opens(persisted) /\ dek \in {{}, persisted}

\* the step in which a rotation, or initialize, has its key swapped in
SwapsIn(c) == calls[c].pc = "swap" /\ calls'[c].pc = "idle" /\ dek' # {}

(* src/vault.rs:448, rotate_dek "re-encrypts every secret in the store     *)
(* with the new key": when a rotation swaps its key in, every secret is    *)
(* under that key.  Refuted by a store_secret that overlaps the rotation.  *)
RotationReachesAll ==
    [][\A c \in Conn : SwapsIn(c) => Opens(dek')]_vars

(* The same of rotations that overlap neither a store_secret nor another   *)
(* rotation, whatever is deleted while they run.  Secrets left behind by a *)
(* torn rotation make the next one fail before it writes.                  *)
AloneRotationReachesAll ==
    [][\A c \in Conn : SwapsIn(c) /\ ~crossed => Opens(dek')]_vars

(* src/vault.rs:448, rotate_dek re-encrypts: it changes keys, never        *)
(* plaintexts.  However calls overlap and wherever a rotation is torn,     *)
(* what is stored under a name is what store_secret put there last, and a  *)
(* deleted secret stays deleted.  The one exception are names deleted and  *)
(* stored again between the read and the write of a rotation, which then   *)
(* writes the plaintext it read.                                           *)
PlaintextKept ==
    \A n \in DOMAIN secrets \ restored : written[n] = {secrets[n].ciphertext.value}

-----------------------------------------------------------------------------
(* What documents say and TLC refutes on the instance of MCRotation.cfg if *)
(* one of these is made its invariant; no run of the project does.         *)

(* crates/zerolease-store-aws-sm/src/store.rs:338, "batch_update is used   *)
(* for DEK rotation, which is idempotent and can be safely retried": when  *)
(* no call is in flight the vault's key opens every secret, so that a      *)
(* retry can read them.                                                    *)
SafelyRetried == Quiet /\ dek # {} => Opens(dek)

(* src/vault.rs:453, "Only works with key sources that support rotation    *)
(* (e.g., KMS).  EnvVar and Keychain sources will return an error": with   *)
(* such a source a rotation that returned has left every secret readable.  *)
RefusedRotationHarmless ==
    Quiet /\ ~CanRotate /\ dek # {} => Opens(dek)

(* src/vault.rs:448 again, without the exception of PlaintextKept: a       *)
(* secret never gets back a plaintext that was deleted.                    *)
DeletedPlaintextGone ==
    \A n \in DOMAIN secrets : written[n] = {secrets[n].ciphertext.value}
=============================================================================
