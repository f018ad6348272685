------------------------------- MODULE Stores -------------------------------
(***************************************************************************)
(* The three SecretStore backends under concurrent callers: SQLite behind  *)
(* one mutex, a PostgreSQL pool, and AWS Secrets Manager, where an update  *)
(* is three calls, list reads tags, and a deleted secret lingers for a     *)
(* recovery window.                                                        *)
(*                                                                         *)
(* A secret is a set of at most one row.  A client stands for the          *)
(* ciphertexts it writes; with them it writes its own cipher algorithm.    *)
(* Calls that fail without an effect are stuttering steps.  In a row,      *)
(* `given` (the kind its put was called with) and `mixed` (a write with a  *)
(* stale read met it) are history, and so is disturbed.                    *)
(***************************************************************************)
EXTENDS Naturals, FiniteSets

CONSTANTS Name, Client,
          Backends,     \* subset of {"sqlite", "postgres", "aws"}
          Kinds,        \* the SecretKinds that callers put
          AlgorithmOf,  \* the CipherAlgorithm each client uses
          MaxVersion    \* bound: no updates beyond this version

VARIABLES backend,      \* which implementation; never changes
          force,        \* with_force_delete; never changes
          rows,         \* the table, or the secrets in Secrets Manager
          calls,        \* per client, the call in flight
          disturbed     \* names with a tag call that failed or overlapped

vars == <<backend, force, rows, calls, disturbed>>

-----------------------------------------------------------------------------
(* Kinds and algorithms as text                                            *)

SecretKind == {"Pat", "OAuth2", "OAuth2Refresh", "ApiKey", "BasicAuth",
               "SshKey", "ClientCert", "Opaque"}

(* SecretKind::as_str: the fields of OAuth2 are not part of it             *)
KindStr(k) ==
    CASE k = "Pat" -> "pat"
      [] k \in {"OAuth2", "OAuth2Refresh"} -> "oauth2"
      [] k = "ApiKey" -> "apikey"
      [] k = "BasicAuth" -> "basicauth"
      [] k = "SshKey" -> "sshkey"
      [] k = "ClientCert" -> "clientcert"
      [] k = "Opaque" -> "opaque"

(* what earlier versions wrote: the JSON text of the variant, its name in  *)
(* double quotes (single ones stand for them here) or, with the fields of  *)
(* OAuth2, an object                                                       *)
LegacyKindStr(k) ==
    CASE k = "Pat" -> "'Pat'"
      [] k \in {"OAuth2", "OAuth2Refresh"} -> "{'OAuth2': ...}"
      [] k = "ApiKey" -> "'ApiKey'"
      [] k = "BasicAuth" -> "'BasicAuth'"
      [] k = "SshKey" -> "'SshKey'"
      [] k = "ClientCert" -> "'ClientCert'"
      [] k = "Opaque" -> "'Opaque'"

ParseSecretKind(s) ==
    CASE s \in {"pat", "'Pat'"} -> {"Pat"}
      [] s = "oauth2" -> {"OAuth2"}
      [] s \in {"apikey", "'ApiKey'"} -> {"ApiKey"}
      [] s \in {"basicauth", "'BasicAuth'"} -> {"BasicAuth"}
      [] s \in {"sshkey", "'SshKey'"} -> {"SshKey"}
      [] s \in {"clientcert", "'ClientCert'"} -> {"ClientCert"}
      [] s \in {"opaque", "'Opaque'"} -> {"Opaque"}
      [] OTHER -> {}

CipherAlgorithm == {"Aes256Gcm", "XChaCha20Poly1305"}

AlgorithmStr(a) ==
    CASE a = "Aes256Gcm" -> "aes256gcm"
      [] a = "XChaCha20Poly1305" -> "xchacha20poly1305"

LegacyAlgorithmStr(a) ==
    CASE a = "Aes256Gcm" -> "'Aes256Gcm'"
      [] a = "XChaCha20Poly1305" -> "'XChaCha20Poly1305'"

ParseCipherAlgorithm(s) ==
    CASE s \in {"aes256gcm", "'Aes256Gcm'"} -> {"Aes256Gcm"}
      [] s \in {"xchacha20poly1305", "'XChaCha20Poly1305'"} ->
           {"XChaCha20Poly1305"}
      [] OTHER -> {}

(* the kind without what as_str leaves out                                 *)
Plain(k) == IF k = "OAuth2Refresh" THEN "OAuth2" ELSE k

ASSUME ParametersAssumption ==
    /\ Backends \subseteq {"sqlite", "postgres", "aws"}
    /\ Kinds \subseteq SecretKind
    /\ AlgorithmOf \in [Client -> CipherAlgorithm]
    /\ MaxVersion \in Nat \ {0}

-----------------------------------------------------------------------------
(* Rows: tag is the version tag of Secrets Manager, scheduled its deletion *)

Row(value, version, kind, alg, tag, given) ==
    [value |-> value, version |-> version, kind |-> kind, alg |-> alg,
     tag |-> tag, scheduled |-> FALSE, given |-> given, mixed |-> FALSE]

NewRow(c, k) == Row(c, 1, KindStr(k), AlgorithmStr(AlgorithmOf[c]), 1, k)

\* faulty: the algorithm column is not written
RewrittenOldAlgorithm(r, c) == [r EXCEPT !.value = c, !.version = @ + 1]

(* UPDATE ... SET version = version + 1: the kind is kept                  *)
Rewritten(r, c) ==
    [r EXCEPT !.value = c, !.version = @ + 1,
              !.alg = AlgorithmStr(AlgorithmOf[c])]

(* get finds nothing for a secret marked for deletion, and a row with a    *)
(* text it cannot parse is an error                                        *)
Visible(n) == {r \in rows[n] : ~r.scheduled}

Parses(r) == ParseSecretKind(r.kind) # {} /\ ParseCipherAlgorithm(r.alg) # {}

SetRow(n, r) == rows' = [rows EXCEPT ![n] = {r}]

Idle == [pc |-> "idle"]

Return(c) == calls' = [calls EXCEPT ![c] = Idle]

WithinBound(names) ==
    \A n \in names : \A r \in rows[n] : r.version < MaxVersion

-----------------------------------------------------------------------------
(* put: a name that is taken is refused, on Secrets Manager also while it  *)
(* waits for its deletion                                                  *)

InsertRow(c, n) ==
    /\ calls[c] = Idle
    /\ rows[n] = {}
    /\ \E k \in Kinds : SetRow(n, NewRow(c, k))
    /\ disturbed' = disturbed \ {n}
    /\ UNCHANGED <<backend, force, calls>>

SqlitePut(c, n) == backend = "sqlite" /\ InsertRow(c, n)

PostgresPut(c, n) == backend = "postgres" /\ InsertRow(c, n)

AwsPut(c, n) == backend = "aws" /\ InsertRow(c, n)

-----------------------------------------------------------------------------
(* update and batch_update in SQL                                          *)

\* one statement; reading the row back for the caller changes nothing
UpdateRow(c, n) ==
    /\ calls[c] = Idle
    /\ WithinBound({n})
    /\ \E r \in rows[n] : SetRow(n, Rewritten(r, c))
    /\ UNCHANGED <<backend, force, calls, disturbed>>

SqliteUpdate(c, n) == backend = "sqlite" /\ UpdateRow(c, n)

PostgresUpdate(c, n) == backend = "postgres" /\ UpdateRow(c, n)

\* the call waits for the mutex, or for a connection of the pool
AskBatch(c, names) ==
    /\ calls[c] = Idle
    /\ calls' = [calls EXCEPT ![c] = [pc |-> "batch", left |-> names]]
    /\ UNCHANGED <<backend, force, rows, disturbed>>

SqliteBatch(c, names) == backend = "sqlite" /\ AskBatch(c, names)

PostgresBatch(c, names) == backend = "postgres" /\ AskBatch(c, names)

\* faulty: each UPDATE commits by itself, those before a missing row remain
CommitEach(c) ==
    /\ calls[c].pc = "batch"
    /\ WithinBound(calls[c].left)
    /\ rows' = [n \in Name |-> IF n \in calls[c].left
                               THEN {Rewritten(r, c) : r \in rows[n]}
                               ELSE rows[n]]
    /\ Return(c)
    /\ UNCHANGED <<backend, force, disturbed>>

\* one transaction, which others see when it commits
Commit(c) ==
    /\ calls[c].pc = "batch"
    /\ WithinBound(calls[c].left)
    /\ \A n \in calls[c].left : rows[n] # {}
    /\ rows' = [n \in Name |-> IF n \in calls[c].left
                               THEN {Rewritten(r, c) : r \in rows[n]}
                               ELSE rows[n]]
    /\ Return(c)
    /\ UNCHANGED <<backend, force, disturbed>>

\* a name without a row, or an error, rolls it back
Rollback(c) ==
    /\ calls[c].pc = "batch"
    /\ Return(c)
    /\ UNCHANGED <<backend, force, rows, disturbed>>

-----------------------------------------------------------------------------
(* update and batch_update on Secrets Manager: one secret after the other, *)
(* three calls each                                                        *)

AwsBatch(c, names) ==
    /\ backend = "aws"
    /\ calls[c] = Idle
    /\ calls' = [calls EXCEPT ![c] = [pc |-> "next", left |-> names]]
    /\ UNCHANGED <<backend, force, rows, disturbed>>

\* what into_stored_secret makes of the payload and the update keeps
Existing(r) == [value |-> r.value, version |-> r.version,
                kind |-> ParseSecretKind(r.kind)]

\* get the existing secret; none, or one that does not parse, ends the call
\* and with it the batch
AwsRead(c) ==
    /\ calls[c].pc = "next"
    /\ \E n \in calls[c].left :
         /\ WithinBound({n})
         /\ \/ \E r \in Visible(n) :
                 /\ Parses(r)
                 /\ calls' = [calls EXCEPT ![c] =
                       [pc |-> "value", name |-> n, read |-> Existing(r),
                        left |-> calls[c].left \ {n}]]
            \/ ~(\E r \in Visible(n) : Parses(r)) /\ Return(c)
    /\ UNCHANGED <<backend, force, rows, disturbed>>

\* what another caller did since the read is overwritten
Stale(c) ==
    /\ calls[c].pc = "value"
    /\ \A r \in Visible(calls[c].name) : Existing(r) # calls[c].read

\* the payload put_secret_value writes over r, of which only the tag (and
\* history) remains: SecretPayload::from_stored, as_str of what was parsed
Payload(c, r) ==
    [r EXCEPT !.value = c, !.version = calls[c].read.version + 1,
              !.kind = KindStr(CHOOSE k \in calls[c].read.kind : TRUE),
              !.alg = AlgorithmStr(AlgorithmOf[c]),
              !.mixed = @ \/ Stale(c)]

AwsPutValue(c) ==
    /\ calls[c].pc = "value"
    /\ LET n == calls[c].name IN
       \/ \E r \in Visible(n) :
            /\ SetRow(n, Payload(c, r))
            /\ calls' = [calls EXCEPT ![c] =
                  [pc |-> "tag", name |-> n, left |-> calls[c].left,
                   version |-> Payload(c, r).version]]
       \/ Return(c) /\ UNCHANGED rows   \* deleted by now, or the call fails
    /\ UNCHANGED <<backend, force, disturbed>>

NextOrReturn(c) ==
    calls' = [calls EXCEPT ![c] =
                IF calls[c].left = {} THEN Idle
                ELSE [pc |-> "next", left |-> calls[c].left]]

\* faulty: the tags of the secret that was read
AwsTagBefore(c) ==
    /\ calls[c].pc = "tag"
    /\ \E r \in Visible(calls[c].name) :
         /\ SetRow(calls[c].name, [r EXCEPT !.tag = calls[c].version - 1])
         /\ disturbed' = IF r.version = calls[c].version THEN disturbed
                         ELSE disturbed \cup {calls[c].name}
    /\ NextOrReturn(c)
    /\ UNCHANGED <<backend, force>>

\* tag_resource with the version this call wrote, whatever is there by now
AwsTag(c) ==
    /\ calls[c].pc = "tag"
    /\ \E r \in Visible(calls[c].name) :
         /\ SetRow(calls[c].name, [r EXCEPT !.tag = calls[c].version])
         /\ disturbed' = IF r.version = calls[c].version THEN disturbed
                         ELSE disturbed \cup {calls[c].name}
    /\ NextOrReturn(c)
    /\ UNCHANGED <<backend, force>>

\* it fails, which is logged
AwsTagFails(c) ==
    /\ calls[c].pc = "tag"
    /\ disturbed' = disturbed \cup {calls[c].name}
    /\ NextOrReturn(c)
    /\ UNCHANGED <<backend, force, rows>>

-----------------------------------------------------------------------------
(* delete                                                                  *)

DeleteRow(c, n) ==
    /\ calls[c] = Idle
    /\ rows[n] # {}
    /\ rows' = [rows EXCEPT ![n] = {}]
    /\ UNCHANGED <<backend, force, calls, disturbed>>

SqliteDelete(c, n) == backend = "sqlite" /\ DeleteRow(c, n)

PostgresDelete(c, n) == backend = "postgres" /\ DeleteRow(c, n)

\* describe_secret finds a secret in its recovery window, too
AwsDescribe(c, n) ==
    /\ backend = "aws"
    /\ calls[c] = Idle
    /\ rows[n] # {}
    /\ calls' = [calls EXCEPT ![c] = [pc |-> "delete", name |-> n]]
    /\ UNCHANGED <<backend, force, rows, disturbed>>

\* delete_secret: at once with force_delete, otherwise after the window; a
\* secret that is gone or waiting by now is left as it is; or the call fails
AwsDelete(c) ==
    /\ calls[c].pc = "delete"
    /\ \/ rows' = [rows EXCEPT ![calls[c].name] =
             IF force THEN {} ELSE {[r EXCEPT !.scheduled = TRUE] : r \in @}]
       \/ UNCHANGED rows
    /\ Return(c)
    /\ UNCHANGED <<backend, force, disturbed>>

\* the recovery window ends
Purge(n) ==
    /\ backend = "aws"
    /\ \E r \in rows[n] : r.scheduled
    /\ rows' = [rows EXCEPT ![n] = {}]
    /\ UNCHANGED <<backend, force, calls, disturbed>>

-----------------------------------------------------------------------------
(* list: name and version of what is there; in SQL a row that does not     *)
(* parse makes it fail; Secrets Manager answers from the tags and skips    *)
(* such a secret                                                           *)

ListFails == backend # "aws" /\ \E n \in Name : \E r \in rows[n] : ParseSecretKind(r.kind) = {}

SqlListed == UNION {{<<n, r.version>> : r \in rows[n]} : n \in Name}

AwsListed ==
    UNION {{<<n, r.tag>> : r \in {q \in Visible(n) : ParseSecretKind(q.kind) # {}}} :
           n \in Name}

Listed == IF ListFails THEN {} ELSE IF backend = "aws" THEN AwsListed ELSE SqlListed

-----------------------------------------------------------------------------
(* A database may hold rows of an earlier version.                         *)
LegacyRow(c, k) == Row(c, 1, LegacyKindStr(k), LegacyAlgorithmStr(AlgorithmOf[c]), 1, k)

InitialRows ==
    {{}} \cup {{NewRow(c, k)} : c \in Client, k \in Kinds}
         \cup {{LegacyRow(c, k)} : c \in Client, k \in Kinds}

Init ==
    /\ backend \in Backends
    /\ force \in IF backend = "aws" THEN BOOLEAN ELSE {FALSE}
    /\ rows \in [Name -> InitialRows]
    /\ calls = [c \in Client |-> Idle]
    /\ disturbed = {}

SqlNext(c) ==
    \/ \E n \in Name :
         \/ SqlitePut(c, n) \/ SqliteUpdate(c, n) \/ SqliteDelete(c, n)
         \/ PostgresPut(c, n) \/ PostgresUpdate(c, n) \/ PostgresDelete(c, n)
    \/ \E names \in SUBSET Name : SqliteBatch(c, names) \/ PostgresBatch(c, names)
    \/ Commit(c) \/ Rollback(c)

AwsNext(c) ==
    \/ \E n \in Name : AwsPut(c, n) \/ AwsDescribe(c, n)
    \/ \E names \in SUBSET Name \ {{}} : AwsBatch(c, names)
    \/ AwsRead(c) \/ AwsPutValue(c) \/ AwsTag(c) \/ AwsTagFails(c) \/ AwsDelete(c)

Next ==
    \/ \E c \in Client : SqlNext(c) \/ AwsNext(c)
    \/ \E n \in Name : Purge(n)

Spec == Init /\ [][Next]_vars

-----------------------------------------------------------------------------
(* Properties                                                              *)

KindText == {KindStr(k) : k \in SecretKind} \cup {LegacyKindStr(k) : k \in SecretKind}

AlgorithmText == {AlgorithmStr(a) : a \in CipherAlgorithm}
                 \cup {LegacyAlgorithmStr(a) : a \in CipherAlgorithm}

RowType ==
    [value : Client, version : 1..MaxVersion, tag : 1..MaxVersion,
     kind : KindText, alg : AlgorithmText, scheduled : BOOLEAN,
     given : SecretKind, mixed : BOOLEAN]

ReadType ==
    [value : Client, version : 1..(MaxVersion - 1), kind : {{Plain(k)} : k \in SecretKind}]

CallType ==
    {Idle}
    \cup [pc : {"delete"}, name : Name]
    \cup [pc : {"batch", "next"}, left : SUBSET Name]
    \cup [pc : {"value"}, name : Name, left : SUBSET Name, read : ReadType]
    \cup [pc : {"tag"}, name : Name, left : SUBSET Name, version : 1..MaxVersion]

(* The state keeps its types: in particular a name never has two rows, and *)
(* versions start at one.                                                  *)
TypeOK ==
    /\ backend \in Backends
    /\ force \in BOOLEAN
    /\ rows \in [Name -> SUBSET RowType]
    /\ \A n \in Name : \A r, s \in rows[n] : r = s
    /\ calls \in [Client -> CallType]
    /\ disturbed \subseteq Name

(* Whatever a version of the code wrote, get and list can read: the kind   *)
(* text of a row parses to the kind its put was called with (without the   *)
(* refresh fields of OAuth2), and the algorithm text to the algorithm of   *)
(* the client whose ciphertext the row holds (parse_secret_kind,           *)
(* parse_cipher_algorithm, as_str).  Where updates on Secrets Manager      *)
(* overlapped with a delete and a put, the kind may be that of the earlier *)
(* secret, but row and algorithm remain readable.  The one exception are   *)
(* OAuth2 secrets of an earlier version: their kind, a JSON object, is no  *)
(* text that parse_secret_kind knows, and no update repairs it.            *)
OldOAuth2(r) == r.kind = LegacyKindStr("OAuth2") /\ Plain(r.given) = "OAuth2"

Readable(r) ==
    /\ ParseCipherAlgorithm(r.alg) = {AlgorithmOf[r.value]}
    /\ \/ ParseSecretKind(r.kind) = {Plain(r.given)}
       \/ r.mixed /\ \E k \in SecretKind : ParseSecretKind(r.kind) = {k}
       \/ OldOAuth2(r)

RowsReadable == \A n \in Name : \A r \in rows[n] : Readable(r)

\* the names a call has still to write
Asked(k) ==
    CASE k.pc \in {"batch", "next", "tag"} -> k.left
      [] k.pc = "value" -> k.left \cup {k.name}
      [] OTHER -> {}

Contract == INSTANCE StoreContract
    WITH Kind <- {{}} \cup {{k} : k \in SecretKind},
         transactional <- (backend # "aws"),
         asked <- [c \in Client |-> Asked(calls[c])],
         secrets <- [n \in Name |->
            {[value |-> r.value, version |-> r.version, kind |-> ParseSecretKind(r.kind)] :
               r \in Visible(n)}]

(* Every backend keeps the trait's promise: one put per name, each update  *)
(* adds one to the version and keeps the kind, a batch writes the names it *)
(* was asked to and on SQL all of them at once or none.  The exception is  *)
(* Secrets Manager writing over what another caller did since its read: it *)
(* can repeat or lose a version and a kind, of the one name it writes.     *)
StoreContractHeld ==
    /\ Contract!Init
    /\ [][\/ UNCHANGED (Contract!vars)
          \/ Contract!Next
          \/ \E c \in Client : Stale(c) /\ Contract!Overwrite(c, calls[c].name)]_vars

(* list shows the version get returns, unless the tag call of an update is *)
(* outstanding, failed, or met a row that another caller had replaced; on  *)
(* SQL, one row of an earlier version that does not parse makes it fail    *)
(* for all.                                                                *)
ListedVersionsTrue ==
    \A n \in Name : \A r \in Visible(n) : Parses(r) =>
        \/ <<n, r.version>> \in Listed
        \/ n \in disturbed
        \/ \E c \in Client : calls[c].pc = "tag" /\ calls[c].name = n
        \/ backend # "aws" /\ \E m \in Name : \E q \in rows[m] : OldOAuth2(q)
=============================================================================
