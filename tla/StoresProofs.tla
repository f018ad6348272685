---------------------------- MODULE StoresProofs ----------------------------
(***************************************************************************)
(* What TLAPS proves of the three stores, for any names, clients and kinds *)
(* they put, whatever algorithm each has, and any bound on versions.       *)
(***************************************************************************)
EXTENDS Stores, TLAPS

-----------------------------------------------------------------------------
(* Texts                                                                   *)

(* parse_secret_kind reads what as_str writes (OAuth2 comes back without   *)
(* its refresh fields) and what earlier versions wrote, except for OAuth2: *)
(* the JSON object they wrote for it is refused.                           *)
THEOREM KindsParse ==
    \A k \in SecretKind :
        /\ ParseSecretKind(KindStr(k)) = {Plain(k)}
        /\ ParseSecretKind(LegacyKindStr(k)) =
             IF Plain(k) = "OAuth2" THEN {} ELSE {Plain(k)}
<1>1. /\ KindStr("Pat") = "pat"
      /\ KindStr("ApiKey") = "apikey"
      /\ KindStr("BasicAuth") = "basicauth"
      /\ KindStr("SshKey") = "sshkey"
      /\ KindStr("ClientCert") = "clientcert"
      /\ KindStr("Opaque") = "opaque"
      /\ KindStr("OAuth2") = "oauth2"
      /\ KindStr("OAuth2Refresh") = "oauth2"
  BY Zenon DEF KindStr
<1>2. /\ LegacyKindStr("Pat") = "'Pat'"
      /\ LegacyKindStr("ApiKey") = "'ApiKey'"
      /\ LegacyKindStr("BasicAuth") = "'BasicAuth'"
      /\ LegacyKindStr("SshKey") = "'SshKey'"
      /\ LegacyKindStr("ClientCert") = "'ClientCert'"
      /\ LegacyKindStr("Opaque") = "'Opaque'"
      /\ LegacyKindStr("OAuth2") = "{'OAuth2': ...}"
      /\ LegacyKindStr("OAuth2Refresh") = "{'OAuth2': ...}"
  BY Zenon DEF LegacyKindStr
<1>3. /\ ParseSecretKind("pat") = {"Pat"}
      /\ ParseSecretKind("apikey") = {"ApiKey"}
      /\ ParseSecretKind("basicauth") = {"BasicAuth"}
      /\ ParseSecretKind("sshkey") = {"SshKey"}
      /\ ParseSecretKind("clientcert") = {"ClientCert"}
      /\ ParseSecretKind("opaque") = {"Opaque"}
      /\ ParseSecretKind("oauth2") = {"OAuth2"}
  BY Zenon DEF ParseSecretKind
<1>4. /\ ParseSecretKind("'Pat'") = {"Pat"}
      /\ ParseSecretKind("'ApiKey'") = {"ApiKey"}
      /\ ParseSecretKind("'BasicAuth'") = {"BasicAuth"}
      /\ ParseSecretKind("'SshKey'") = {"SshKey"}
      /\ ParseSecretKind("'ClientCert'") = {"ClientCert"}
      /\ ParseSecretKind("'Opaque'") = {"Opaque"}
      /\ ParseSecretKind("{'OAuth2': ...}") = {}
  BY Zenon DEF ParseSecretKind
<1>5. ASSUME NEW k \in SecretKind
      PROVE  ParseSecretKind(KindStr(k)) = {Plain(k)}
  BY <1>1, <1>3 DEF SecretKind, Plain
<1>6. ASSUME NEW k \in SecretKind
      PROVE  ParseSecretKind(LegacyKindStr(k)) =
               IF Plain(k) = "OAuth2" THEN {} ELSE {Plain(k)}
  <2>1. CASE k \in {"OAuth2", "OAuth2Refresh"}
    BY <1>2, <1>4, <2>1, Zenon DEF Plain
  <2>2. CASE k \in {"Pat", "ApiKey", "BasicAuth"}
    BY <1>2, <1>4, <2>2, Zenon DEF Plain
  <2>3. CASE k \in {"SshKey", "ClientCert", "Opaque"}
    BY <1>2, <1>4, <2>3, Zenon DEF Plain
  <2> QED
    BY <2>1, <2>2, <2>3, Zenon DEF SecretKind
<1> QED
  BY <1>5, <1>6, Zenon

(* parse_cipher_algorithm reads what as_str writes, and what earlier       *)
(* versions wrote.                                                         *)
THEOREM AlgorithmsParse ==
    \A a \in CipherAlgorithm :
        /\ ParseCipherAlgorithm(AlgorithmStr(a)) = {a}
        /\ ParseCipherAlgorithm(LegacyAlgorithmStr(a)) = {a}
<1>1. /\ AlgorithmStr("Aes256Gcm") = "aes256gcm"
      /\ AlgorithmStr("XChaCha20Poly1305") = "xchacha20poly1305"
      /\ LegacyAlgorithmStr("Aes256Gcm") = "'Aes256Gcm'"
      /\ LegacyAlgorithmStr("XChaCha20Poly1305") = "'XChaCha20Poly1305'"
  BY Zenon DEF AlgorithmStr, LegacyAlgorithmStr
<1>2. /\ ParseCipherAlgorithm("aes256gcm") = {"Aes256Gcm"}
      /\ ParseCipherAlgorithm("'Aes256Gcm'") = {"Aes256Gcm"}
      /\ ParseCipherAlgorithm("xchacha20poly1305") = {"XChaCha20Poly1305"}
      /\ ParseCipherAlgorithm("'XChaCha20Poly1305'") = {"XChaCha20Poly1305"}
  BY Zenon DEF ParseCipherAlgorithm
<1> QED
  BY <1>1, <1>2, Zenon DEF CipherAlgorithm

-----------------------------------------------------------------------------
(* The inductive invariant                                                 *)

\* recovery windows and calls that are not one transaction exist on Secrets
\* Manager only
OnlyOnAws ==
    IF backend = "aws"
    THEN \A c \in Client : calls[c].pc # "batch"
    ELSE /\ \A c \in Client : calls[c].pc \in {"idle", "batch"}
         /\ \A n \in Name : \A r \in rows[n] : ~r.scheduled

\* a secret is taken off the list when its update begins
OnceAsked ==
    \A c \in Client : calls[c].pc = "value" => calls[c].name \notin calls[c].left

Tagging(n) == \E c \in Client : calls[c].pc = "tag" /\ calls[c].name = n

TagInv ==
    backend = "aws" => \A n \in Name : \A r \in Visible(n) :
        r.tag = r.version \/ n \in disturbed \/ Tagging(n)

StoresInv == RowsReadable /\ OnlyOnAws /\ OnceAsked /\ TagInv

-----------------------------------------------------------------------------
(* Rows and calls                                                          *)

LEMMA MaxVersionIs == MaxVersion \in Nat /\ MaxVersion >= 1 /\ 1 \in 1 .. MaxVersion
BY ParametersAssumption

LEMMA Texts ==
    /\ \A k \in SecretKind : KindStr(k) \in KindText /\ LegacyKindStr(k) \in KindText
    /\ \A c \in Client : /\ AlgorithmOf[c] \in CipherAlgorithm
                         /\ AlgorithmStr(AlgorithmOf[c]) \in AlgorithmText
                         /\ LegacyAlgorithmStr(AlgorithmOf[c]) \in AlgorithmText
    /\ \A k \in SecretKind : Plain(k) \in SecretKind /\ Plain(Plain(k)) = Plain(k)
<1>1. \A k \in SecretKind : Plain(k) \in SecretKind /\ Plain(Plain(k)) = Plain(k)
  BY Zenon DEF SecretKind, Plain
<1> QED
  BY <1>1, ParametersAssumption, Zenon DEF KindText, AlgorithmText

LEMMA NewRowIs ==
    ASSUME NEW c \in Client, NEW k \in SecretKind
    PROVE  /\ NewRow(c, k) \in RowType /\ Readable(NewRow(c, k)) /\ ~NewRow(c, k).scheduled
           /\ NewRow(c, k).version = 1 /\ NewRow(c, k).tag = 1 /\ NewRow(c, k).value = c
           /\ ParseSecretKind(NewRow(c, k).kind) = {Plain(k)}
<1> DEFINE r == NewRow(c, k)
<1>1. /\ r \in RowType /\ r.value = c /\ r.version = 1 /\ r.tag = 1 /\ r.given = k
      /\ r.kind = KindStr(k) /\ r.alg = AlgorithmStr(AlgorithmOf[c]) /\ r.scheduled = FALSE
  <2>1. /\ KindStr(k) \in KindText /\ AlgorithmStr(AlgorithmOf[c]) \in AlgorithmText
        /\ 1 \in 1 .. MaxVersion
    BY MaxVersionIs, Texts, Zenon
  <2> QED
    BY <2>1, Zenon DEF NewRow, Row, RowType
<1> HIDE DEF r
<1>2. Readable(r) /\ ParseSecretKind(r.kind) = {Plain(k)}
  BY <1>1, Texts, KindsParse, AlgorithmsParse, Zenon DEF Readable
<1> QED
  BY <1>1, <1>2, Zenon DEF r

LEMMA LegacyRowIs ==
    ASSUME NEW c \in Client, NEW k \in SecretKind
    PROVE  /\ LegacyRow(c, k) \in RowType /\ Readable(LegacyRow(c, k))
           /\ ~LegacyRow(c, k).scheduled
           /\ LegacyRow(c, k).version = 1 /\ LegacyRow(c, k).tag = 1
           /\ LegacyRow(c, k).value = c
           /\ \/ ParseSecretKind(LegacyRow(c, k).kind) = {}
              \/ ParseSecretKind(LegacyRow(c, k).kind) = {Plain(k)}
<1> DEFINE r == LegacyRow(c, k)
<1>1. /\ r \in RowType /\ r.value = c /\ r.version = 1 /\ r.tag = 1 /\ r.given = k
      /\ r.kind = LegacyKindStr(k) /\ r.alg = LegacyAlgorithmStr(AlgorithmOf[c])
      /\ r.scheduled = FALSE
  <2>1. /\ LegacyKindStr(k) \in KindText /\ LegacyAlgorithmStr(AlgorithmOf[c]) \in AlgorithmText
        /\ 1 \in 1 .. MaxVersion
    BY MaxVersionIs, Texts, Zenon
  <2> QED
    BY <2>1, Zenon DEF LegacyRow, Row, RowType
<1> HIDE DEF r
<1>2. ParseCipherAlgorithm(r.alg) = {AlgorithmOf[r.value]}
  BY <1>1, Texts, AlgorithmsParse, Zenon
<1>3. CASE Plain(k) = "OAuth2"
  <2>1. LegacyKindStr(k) = LegacyKindStr("OAuth2")
    BY <1>3, Zenon DEF Plain, LegacyKindStr
  <2>2. ParseSecretKind(r.kind) = {}
    BY <1>1, <1>3, KindsParse, Zenon
  <2> QED
    BY <1>1, <1>2, <1>3, <2>1, <2>2, Zenon DEF Readable, OldOAuth2, r
<1>4. CASE Plain(k) # "OAuth2"
  <2>1. ParseSecretKind(r.kind) = {Plain(k)}
    BY <1>1, <1>4, KindsParse, Zenon
  <2> QED
    BY <1>1, <1>2, <2>1, Zenon DEF Readable, r
<1> QED
  BY <1>3, <1>4, Zenon

LEMMA RewrittenIs ==
    ASSUME NEW c \in Client, NEW r \in RowType, r.version < MaxVersion
    PROVE  /\ Rewritten(r, c) \in RowType
           /\ Readable(r) => Readable(Rewritten(r, c))
           /\ Rewritten(r, c).kind = r.kind /\ Rewritten(r, c).scheduled = r.scheduled
           /\ Rewritten(r, c).version = r.version + 1 /\ Rewritten(r, c).value = c
<1> DEFINE q == Rewritten(r, c)
<1>1. r.version + 1 \in 1 .. MaxVersion
  BY MaxVersionIs DEF RowType
<1>2. q \in RowType
  BY <1>1, Texts, Zenon DEF Rewritten, RowType
<1>3. /\ q.given = r.given /\ q.scheduled = r.scheduled /\ q.version = r.version + 1
      /\ q.value = c /\ q.kind = r.kind /\ q.alg = AlgorithmStr(AlgorithmOf[c])
      /\ q.mixed = r.mixed
  BY Zenon DEF Rewritten, RowType
<1> HIDE DEF q
<1>4. Readable(r) => Readable(q)
  BY <1>3, Texts, AlgorithmsParse, Zenon DEF Readable, OldOAuth2
<1> QED
  BY <1>2, <1>3, <1>4, Zenon DEF q

LEMMA RetaggedIs ==
    ASSUME NEW r \in RowType, NEW v \in 1 .. MaxVersion
    PROVE  LET q == [r EXCEPT !.tag = v] IN
           /\ q \in RowType /\ Readable(q) = Readable(r) /\ q.kind = r.kind
           /\ q.scheduled = r.scheduled /\ q.version = r.version /\ q.value = r.value
           /\ q.tag = v
BY Zenon DEF RowType, Readable, OldOAuth2

LEMMA ScheduledIs ==
    ASSUME NEW r \in RowType
    PROVE  LET q == [r EXCEPT !.scheduled = TRUE] IN
           /\ q \in RowType /\ Readable(q) = Readable(r) /\ q.scheduled
BY Zenon DEF RowType, Readable, OldOAuth2

(* The shape of a call follows from its step.                              *)
LEMMA CallIs ==
    ASSUME NEW k \in CallType
    PROVE  /\ k.pc \in {"idle", "delete", "batch", "next", "value", "tag"}
           /\ k.pc = "idle" => k = Idle
           /\ k.pc = "delete" => k.name \in Name
           /\ k.pc \in {"batch", "next"} => k.left \in SUBSET Name
           /\ k.pc = "value" => /\ k.name \in Name /\ k.left \in SUBSET Name
                                /\ k.read \in ReadType
           /\ k.pc = "tag" => /\ k.name \in Name /\ k.left \in SUBSET Name
                              /\ k.version \in 1 .. MaxVersion
BY DEF CallType, Idle

LEMMA IdleIs == Idle \in CallType /\ Idle.pc = "idle"
BY Zenon DEF CallType, Idle

LEMMA CallsAfter ==
    ASSUME TypeOK, NEW c \in Client, NEW k \in CallType, calls' = [calls EXCEPT ![c] = k]
    PROVE  /\ calls' \in [Client -> CallType]
           /\ \A d \in Client : calls'[d] = IF d = c THEN k ELSE calls[d]
BY Zenon DEF TypeOK

LEMMA RowsAfter ==
    ASSUME TypeOK, NEW n \in Name, NEW R \in SUBSET RowType, \A r, s \in R : r = s,
           rows' = [rows EXCEPT ![n] = R]
    PROVE  /\ rows' \in [Name -> SUBSET RowType]
           /\ \A m \in Name : rows'[m] = IF m = n THEN R ELSE rows[m]
           /\ \A m \in Name : \A r, s \in rows'[m] : r = s
BY Zenon DEF TypeOK

-----------------------------------------------------------------------------
(* Steps.  Where only rows change, it suffices to look at the row ...      *)

LEMMA RowStep ==
    ASSUME TypeOK, StoresInv, NEW n \in Name, NEW R \in SUBSET RowType,
           \A r, s \in R : r = s, rows' = [rows EXCEPT ![n] = R],
           UNCHANGED <<backend, force, calls>>, disturbed' \in SUBSET Name,
           \A m \in Name : m # n /\ m \in disturbed => m \in disturbed',
           \A r \in R : /\ Readable(r)
                        /\ backend # "aws" => ~r.scheduled
                        /\ backend = "aws" => r.scheduled \/ r.tag = r.version
    PROVE  TypeOK' /\ StoresInv'
<1>1. /\ rows' \in [Name -> SUBSET RowType]
      /\ \A m \in Name : rows'[m] = IF m = n THEN R ELSE rows[m]
      /\ \A m \in Name : \A r, s \in rows'[m] : r = s
  BY RowsAfter, Zenon
<1>2. TypeOK'
  BY <1>1, Zenon DEF TypeOK
<1>3. RowsReadable'
  <2>1. \A m \in Name : \A r \in rows'[m] : Readable(r)
    BY <1>1 DEF StoresInv, RowsReadable
  <2> QED
    BY <2>1, Zenon DEF RowsReadable, Readable, OldOAuth2
<1>5. OnlyOnAws'
  BY <1>1 DEF StoresInv, OnlyOnAws
<1>4. OnceAsked'
  BY Zenon DEF StoresInv, OnceAsked
<1>6. TagInv'
  <2> SUFFICES ASSUME backend = "aws", NEW m \in Name, NEW r \in rows'[m], ~r.scheduled
               PROVE  r.tag = r.version \/ m \in disturbed' \/ Tagging(m)
    BY Zenon DEF TagInv, Visible, Tagging
  <2>1. CASE m = n
    BY <1>1, <2>1
  <2>2. CASE m # n
    BY <1>1, <2>2 DEF StoresInv, TagInv, Visible
  <2> QED
    BY <2>1, <2>2, Zenon
<1> QED
  BY <1>2, <1>3, <1>4, <1>5, <1>6, Zenon DEF StoresInv

LEMMA InsertStep ==
    ASSUME TypeOK, StoresInv, NEW c \in Client, NEW n \in Name, InsertRow(c, n)
    PROVE  TypeOK' /\ StoresInv'
<1>0. PICK k \in SecretKind : SetRow(n, NewRow(c, k))
  BY ParametersAssumption, Zenon DEF InsertRow
<1> DEFINE R == {NewRow(c, k)}
<1>1. /\ R \in SUBSET RowType
      /\ \A r \in R : /\ Readable(r)
                      /\ backend # "aws" => ~r.scheduled
                      /\ backend = "aws" => r.scheduled \/ r.tag = r.version
  BY NewRowIs
<1>2. rows' = [rows EXCEPT ![n] = R] /\ UNCHANGED <<backend, force, calls>>
  BY <1>0, Zenon DEF InsertRow, SetRow
<1>3. /\ disturbed' \in SUBSET Name
      /\ \A m \in Name : m # n /\ m \in disturbed => m \in disturbed'
  BY Zenon DEF InsertRow, TypeOK
<1>4. \A r, s \in R : r = s
  BY Zenon
<1> HIDE DEF R
<1> QED
  BY <1>1, <1>2, <1>3, <1>4, RowStep, Zenon

LEMMA EmptyStep ==
    ASSUME TypeOK, StoresInv, NEW n \in Name, rows' = [rows EXCEPT ![n] = {}],
           UNCHANGED <<backend, force, calls, disturbed>>
    PROVE  TypeOK' /\ StoresInv'
<1> DEFINE R == {}
<1>1. /\ R \in SUBSET RowType /\ \A r, s \in R : r = s
      /\ \A r \in R : /\ Readable(r)
                      /\ backend # "aws" => ~r.scheduled
                      /\ backend = "aws" => r.scheduled \/ r.tag = r.version
      /\ rows' = [rows EXCEPT ![n] = R]
  BY Zenon
<1>2. disturbed' \in SUBSET Name
  BY Zenon DEF TypeOK
<1> HIDE DEF R
<1> QED
  BY <1>1, <1>2, RowStep, ZenonT(40)

(* UPDATE in one statement, or of several rows in one transaction.         *)
LEMMA SqlUpdateStep ==
    ASSUME TypeOK, StoresInv, NEW c \in Client, NEW names \in SUBSET Name, backend # "aws",
           \A n \in names : \A r \in rows[n] : r.version < MaxVersion,
           rows' \in [Name -> SUBSET RowType],
           \A n \in Name : rows'[n] = IF n \in names THEN {Rewritten(r, c) : r \in rows[n]}
                                      ELSE rows[n],
           UNCHANGED <<backend, force, disturbed>>, calls' \in [Client -> CallType],
           \A d \in Client : calls'[d] \in {Idle, calls[d]}
    PROVE  TypeOK' /\ StoresInv'
<1>1. \A n \in Name : \A r \in rows[n] : r \in RowType
  BY Zenon DEF TypeOK
<1>2. ASSUME NEW n \in Name, NEW q \in rows'[n]
      PROVE  \/ q \in rows[n]
             \/ \E r \in rows[n] : q = Rewritten(r, c) /\ r.version < MaxVersion
  <2>1. CASE n \in names
    <3>1. q \in {Rewritten(r, c) : r \in rows[n]}
      BY <1>2, <2>1, Zenon
    <3> QED
      BY <2>1, <3>1, Zenon
  <2>2. CASE n \notin names
    BY <1>2, <2>2, Zenon
  <2> QED
    BY <2>1, <2>2, Zenon
<1>3. \A n \in Name : \A q, s \in rows'[n] : q = s
  BY DEF TypeOK
<1>4. TypeOK'
  BY <1>3, Zenon DEF TypeOK
<1>5. \A n \in Name : \A q \in rows'[n] : /\ Readable(q)
                                          /\ ~q.scheduled
  <2> SUFFICES ASSUME NEW n \in Name, NEW q \in rows'[n]
               PROVE  Readable(q) /\ ~q.scheduled
    BY Zenon
  <2>1. \A r \in rows[n] : Readable(r) /\ ~r.scheduled
    BY Zenon DEF StoresInv, RowsReadable, OnlyOnAws
  <2>2. CASE q \in rows[n]
    BY <2>1, <2>2, Zenon
  <2>3. CASE \E r \in rows[n] : q = Rewritten(r, c) /\ r.version < MaxVersion
    BY <1>1, <2>1, <2>3, RewrittenIs
  <2> QED
    BY <1>2, <2>2, <2>3, Zenon
<1>6. RowsReadable'
  BY <1>5, Zenon DEF RowsReadable, Readable, OldOAuth2
<1>7. OnlyOnAws' /\ OnceAsked' /\ TagInv'
  BY <1>5, IdleIs, Zenon DEF StoresInv, OnlyOnAws, OnceAsked, TagInv
<1> QED
  BY <1>4, <1>6, <1>7, Zenon DEF StoresInv

(* ... and where only a call changes, at the call ...                      *)
LEMMA CallStep ==
    ASSUME TypeOK, StoresInv, NEW c \in Client, NEW k \in CallType,
           calls' = [calls EXCEPT ![c] = k], UNCHANGED <<backend, force, rows>>,
           disturbed' \in SUBSET Name, disturbed \subseteq disturbed',
           calls[c].pc = "tag" => calls[c].name \in disturbed',
           IF backend = "aws" THEN k.pc # "batch" ELSE k.pc \in {"idle", "batch"},
           k.pc = "value" => k.name \notin k.left
    PROVE  TypeOK' /\ StoresInv'
<1>1. /\ calls' \in [Client -> CallType]
      /\ \A d \in Client : calls'[d] = IF d = c THEN k ELSE calls[d]
  BY CallsAfter, Zenon
<1>2. TypeOK'
  BY <1>1, Zenon DEF TypeOK
<1>3. RowsReadable' /\ OnlyOnAws' /\ OnceAsked'
  BY <1>1, Zenon DEF StoresInv, RowsReadable, Readable, OldOAuth2, OnlyOnAws, OnceAsked
<1>4. TagInv'
  <2> SUFFICES ASSUME backend = "aws", NEW m \in Name, NEW r \in Visible(m), ~(r.tag = r.version)
               PROVE  m \in disturbed' \/ Tagging(m)'
    BY Zenon DEF TagInv, Visible
  <2>1. CASE m \in disturbed
    BY <2>1, Zenon
  <2>2. CASE Tagging(m)
    BY <1>1, <2>2, Zenon DEF Tagging
  <2> QED
    BY <2>1, <2>2, Zenon DEF StoresInv, TagInv
<1> QED
  BY <1>2, <1>3, <1>4, Zenon DEF StoresInv

LEMMA SqlStep ==
    ASSUME TypeOK, StoresInv, NEW c \in Client, SqlNext(c)
    PROVE  TypeOK' /\ StoresInv'
<1>1. ASSUME NEW n \in Name, InsertRow(c, n) PROVE TypeOK' /\ StoresInv'
  BY <1>1, InsertStep, Zenon
<1>2. ASSUME NEW n \in Name, DeleteRow(c, n) PROVE TypeOK' /\ StoresInv'
  BY <1>2, EmptyStep, Zenon DEF DeleteRow
<1>3. ASSUME NEW n \in Name, UpdateRow(c, n), backend # "aws" PROVE TypeOK' /\ StoresInv'
  <2>1. PICK r \in rows[n] : rows' = [rows EXCEPT ![n] = {Rewritten(r, c)}]
    BY <1>3, Zenon DEF UpdateRow, SetRow
  <2>2. r \in RowType /\ r.version < MaxVersion /\ rows[n] = {r}
    BY <1>3, <2>1 DEF UpdateRow, WithinBound, TypeOK
  <2>3. {Rewritten(r, c)} \in SUBSET RowType
    BY <2>2, RewrittenIs
  <2>4. /\ rows' \in [Name -> SUBSET RowType]
        /\ \A m \in Name : rows'[m] = IF m = n THEN {Rewritten(r, c)} ELSE rows[m]
    BY <2>1, <2>3, RowsAfter, Zenon
  <2>5. {Rewritten(s, c) : s \in rows[n]} = {Rewritten(r, c)}
    BY <2>2, Zenon
  <2>6. \A m \in Name : rows'[m] = IF m \in {n} THEN {Rewritten(s, c) : s \in rows[m]}
                                   ELSE rows[m]
    BY <2>4, <2>5, Zenon
  <2>7. /\ UNCHANGED <<backend, force, disturbed>> /\ calls' \in [Client -> CallType]
        /\ \A d \in Client : calls'[d] \in {Idle, calls[d]}
    BY <1>3, Zenon DEF UpdateRow, TypeOK
  <2>8. {n} \in SUBSET Name /\ \A m \in {n} : \A s \in rows[m] : s.version < MaxVersion
    BY <2>2, Zenon
  <2> QED
    BY <1>3, <2>4, <2>6, <2>7, <2>8, SqlUpdateStep, Zenon
<1>4. CASE Commit(c)
  <2> DEFINE names == calls[c].left
  <2>0. /\ names \in SUBSET Name /\ backend # "aws"
        /\ calls' = [calls EXCEPT ![c] = Idle]
    BY <1>4, CallIs, Zenon DEF Commit, Return, TypeOK, StoresInv, OnlyOnAws
  <2>1. \A n \in names : \A r \in rows[n] : r.version < MaxVersion /\ r \in RowType
    BY <1>4, <2>0, Zenon DEF Commit, WithinBound, TypeOK
  <2>2. \A n \in names : \A r \in rows[n] : Rewritten(r, c) \in RowType
    BY <2>1, RewrittenIs, Zenon
  <2>3. rows' = [n \in Name |-> IF n \in names THEN {Rewritten(r, c) : r \in rows[n]}
                                ELSE rows[n]]
    BY <1>4, Zenon DEF Commit
  <2>4. rows' \in [Name -> SUBSET RowType]
    BY <2>2, <2>3 DEF TypeOK
  <2>5. UNCHANGED <<backend, force, disturbed>>
    BY <1>4, Zenon DEF Commit
  <2>6. calls' \in [Client -> CallType] /\ \A d \in Client : calls'[d] \in {Idle, calls[d]}
    BY <2>0, IdleIs, CallsAfter, Zenon
  <2> HIDE DEF names
  <2> QED
    BY <2>0, <2>1, <2>3, <2>4, <2>5, <2>6, SqlUpdateStep, Zenon
<1>5. ASSUME NEW names \in SUBSET Name, AskBatch(c, names), backend # "aws"
      PROVE  TypeOK' /\ StoresInv'
  <2> DEFINE k == [pc |-> "batch", left |-> names]
  <2>1. k \in CallType /\ k.pc = "batch"
    BY Zenon DEF CallType
  <2>2. /\ calls[c].pc = "idle" /\ calls' = [calls EXCEPT ![c] = k]
        /\ UNCHANGED <<backend, force, rows, disturbed>>
    BY <1>5, IdleIs, Zenon DEF AskBatch
  <2>3. disturbed' \in SUBSET Name
    BY <2>2, Zenon DEF TypeOK
  <2> HIDE DEF k
  <2> QED
    BY <1>5, <2>1, <2>2, <2>3, CallStep, Zenon
<1>6. CASE Rollback(c)
  <2>1. /\ calls[c].pc = "batch" /\ calls' = [calls EXCEPT ![c] = Idle] /\ backend # "aws"
        /\ UNCHANGED <<backend, force, rows, disturbed>> /\ disturbed' \in SUBSET Name
    BY <1>6, Zenon DEF Rollback, Return, TypeOK, StoresInv, OnlyOnAws
  <2> QED
    BY <2>1, IdleIs, CallStep, Zenon
<1> QED
  BY <1>1, <1>2, <1>3, <1>4, <1>5, <1>6, Zenon
     DEF SqlNext, SqlitePut, SqliteUpdate, SqliteDelete, SqliteBatch,
         PostgresPut, PostgresUpdate, PostgresDelete, PostgresBatch

(* ... or, on Secrets Manager, at both.                                    *)
LEMMA CallRowStep ==
    ASSUME TypeOK, StoresInv, backend = "aws", NEW c \in Client, NEW k \in CallType,
           calls' = [calls EXCEPT ![c] = k], k.pc \notin {"batch", "value"},
           UNCHANGED <<backend, force>>,
           NEW n \in Name, NEW R \in SUBSET RowType, \A r, s \in R : r = s,
           rows' = [rows EXCEPT ![n] = R], \A r \in R : Readable(r),
           disturbed' \in SUBSET Name, disturbed \subseteq disturbed',
           calls[c].pc = "tag" => calls[c].name = n,
           \A r \in R : \/ r.scheduled \/ r.tag = r.version \/ n \in disturbed'
                        \/ k.pc = "tag" /\ k.name = n
    PROVE  TypeOK' /\ StoresInv'
<1>1. /\ calls' \in [Client -> CallType]
      /\ \A d \in Client : calls'[d] = IF d = c THEN k ELSE calls[d]
  BY CallsAfter, Zenon
<1>2. /\ rows' \in [Name -> SUBSET RowType]
      /\ \A m \in Name : rows'[m] = IF m = n THEN R ELSE rows[m]
      /\ \A m \in Name : \A r, s \in rows'[m] : r = s
  BY RowsAfter, Zenon
<1>3. TypeOK'
  BY <1>1, <1>2, Zenon DEF TypeOK
<1>4. RowsReadable'
  <2>1. \A m \in Name : \A r \in rows'[m] : Readable(r)
    BY <1>2 DEF StoresInv, RowsReadable
  <2> QED
    BY <2>1, Zenon DEF RowsReadable, Readable, OldOAuth2
<1>5. OnlyOnAws' /\ OnceAsked'
  BY <1>1, Zenon DEF StoresInv, OnlyOnAws, OnceAsked
<1>6. TagInv'
  <2> SUFFICES ASSUME NEW m \in Name, NEW r \in rows'[m], ~r.scheduled, ~(r.tag = r.version)
               PROVE  m \in disturbed' \/ Tagging(m)'
    BY Zenon DEF TagInv, Visible
  <2>1. CASE m = n
    BY <1>1, <1>2, <2>1 DEF Tagging
  <2>2. CASE m # n
    <3>1. m \in disturbed \/ Tagging(m)
      BY <1>2, <2>2 DEF StoresInv, TagInv, Visible
    <3>2. Tagging(m) => Tagging(m)'
      BY <1>1, <2>2, Zenon DEF Tagging
    <3> QED
      BY <3>1, <3>2, Zenon
  <2> QED
    BY <2>1, <2>2, Zenon
<1> QED
  BY <1>3, <1>4, <1>5, <1>6, Zenon DEF StoresInv

LEMMA AwsOnly ==
    ASSUME TypeOK, StoresInv, NEW c \in Client, calls[c].pc \notin {"idle", "batch"}
    PROVE  backend = "aws" /\ calls[c] \in CallType
BY Zenon DEF StoresInv, OnlyOnAws, TypeOK

LEMMA BatchStep ==
    ASSUME TypeOK, StoresInv, NEW c \in Client, NEW names \in SUBSET Name, AwsBatch(c, names)
    PROVE  TypeOK' /\ StoresInv'
<1> DEFINE k == [pc |-> "next", left |-> names]
<1>1. k \in CallType /\ k.pc = "next"
  BY Zenon DEF CallType
<1>2. /\ backend = "aws" /\ calls[c].pc = "idle" /\ calls' = [calls EXCEPT ![c] = k]
      /\ UNCHANGED <<backend, force, rows, disturbed>>
  BY IdleIs, Zenon DEF AwsBatch
<1>3. disturbed' \in SUBSET Name
  BY <1>2, Zenon DEF TypeOK
<1> HIDE DEF k
<1> QED
  BY <1>1, <1>2, <1>3, CallStep, Zenon

LEMMA DescribeStep ==
    ASSUME TypeOK, StoresInv, NEW c \in Client, NEW n \in Name, AwsDescribe(c, n)
    PROVE  TypeOK' /\ StoresInv'
<1> DEFINE k == [pc |-> "delete", name |-> n]
<1>1. k \in CallType /\ k.pc = "delete"
  BY Zenon DEF CallType
<1>2. /\ backend = "aws" /\ calls[c].pc = "idle" /\ calls' = [calls EXCEPT ![c] = k]
      /\ UNCHANGED <<backend, force, rows, disturbed>>
  BY IdleIs, Zenon DEF AwsDescribe
<1>3. disturbed' \in SUBSET Name
  BY <1>2, Zenon DEF TypeOK
<1> HIDE DEF k
<1> QED
  BY <1>1, <1>2, <1>3, CallStep, Zenon

(* A call that ends where it is.                                           *)
LEMMA ReturnStep ==
    ASSUME TypeOK, StoresInv, NEW c \in Client, calls[c].pc \notin {"idle", "batch", "tag"},
           Return(c), UNCHANGED <<backend, force, rows, disturbed>>
    PROVE  TypeOK' /\ StoresInv'
<1>1. disturbed' \in SUBSET Name /\ backend = "aws"
  BY AwsOnly, Zenon DEF TypeOK
<1> QED
  BY <1>1, IdleIs, CallStep, Zenon DEF Return

LEMMA ReadStep ==
    ASSUME TypeOK, StoresInv, NEW c \in Client, AwsRead(c)
    PROVE  TypeOK' /\ StoresInv'
<1>1. /\ calls[c].pc = "next" /\ backend = "aws" /\ calls[c].left \in SUBSET Name
      /\ UNCHANGED <<backend, force, rows, disturbed>> /\ disturbed' \in SUBSET Name
  BY AwsOnly, CallIs, Zenon DEF AwsRead, TypeOK
<1>2. ASSUME NEW n \in calls[c].left, WithinBound({n}), NEW r \in Visible(n), Parses(r),
             calls' = [calls EXCEPT ![c] =
                [pc |-> "value", name |-> n, read |-> Existing(r),
                 left |-> calls[c].left \ {n}]]
      PROVE  TypeOK' /\ StoresInv'
  <2> DEFINE e == Existing(r)
             k == [pc |-> "value", name |-> n, read |-> e, left |-> calls[c].left \ {n}]
  <2>1. n \in Name /\ r \in rows[n] /\ r \in RowType /\ r.version < MaxVersion
    BY <1>1, <1>2, Zenon DEF Visible, WithinBound, TypeOK
  <2>2. e \in ReadType
    <3>1. r.version \in 1 .. (MaxVersion - 1)
      BY <2>1, MaxVersionIs DEF RowType
    <3>2. ParseSecretKind(r.kind) \in {{Plain(x)} : x \in SecretKind}
      <4>1. r.kind \in KindText /\ ParseSecretKind(r.kind) # {}
        BY <1>2, <2>1, Zenon DEF RowType, Parses
      <4> QED
        BY <4>1, KindsParse, Zenon DEF KindText
    <3> QED
      BY <2>1, <3>1, <3>2, Zenon DEF Existing, RowType, ReadType
  <2> HIDE DEF e
  <2>3. k \in CallType
    BY <1>1, <2>1, <2>2, Zenon DEF CallType
  <2>4. k.pc = "value" /\ k.name \notin k.left
    BY Zenon
  <2>5. calls' = [calls EXCEPT ![c] = k]
    BY <1>2, Zenon DEF e
  <2> HIDE DEF k
  <2> QED
    BY <1>1, <2>3, <2>4, <2>5, CallStep, Zenon
<1> QED
  BY <1>1, <1>2, ReturnStep, Zenon DEF AwsRead

LEMMA ExistingIs ==
    ASSUME NEW r
    PROVE  Existing(r).version = r.version /\ Existing(r).kind = ParseSecretKind(r.kind)
BY Zenon DEF Existing

(* The row put_secret_value writes: a new ciphertext with the kind read.   *)
LEMMA PayloadIs ==
    ASSUME TypeOK, StoresInv, NEW c \in Client, calls[c].pc = "value",
           NEW r \in Visible(calls[c].name)
    PROVE  /\ Payload(c, r) \in RowType /\ Readable(Payload(c, r)) /\ ~Payload(c, r).scheduled
           /\ Payload(c, r).version = calls[c].read.version + 1 /\ Payload(c, r).value = c
           /\ Payload(c, r).version \in 1 .. MaxVersion
           /\ ParseSecretKind(Payload(c, r).kind) = calls[c].read.kind
<1> DEFINE q == Payload(c, r)
           e == calls[c].read
<1>1. e \in ReadType /\ calls[c].name \in Name
  BY AwsOnly, CallIs, Zenon
<1>2. r \in RowType /\ Readable(r) /\ ~r.scheduled /\ Visible(calls[c].name) = {r}
  BY <1>1 DEF Visible, TypeOK, StoresInv, RowsReadable
<1>3. PICK k \in SecretKind : e.kind = {k} /\ Plain(k) = k
  BY <1>1, Texts, Zenon DEF ReadType
<1>4. KindStr(CHOOSE x \in e.kind : TRUE) = KindStr(k)
  <2>1. (CHOOSE x \in e.kind : TRUE) = k
    BY <1>3
  <2> QED
    BY <2>1, Zenon
<1>5. /\ e.version + 1 \in 1 .. MaxVersion /\ KindStr(k) \in KindText
      /\ AlgorithmStr(AlgorithmOf[c]) \in AlgorithmText
  BY <1>1, MaxVersionIs, Texts DEF ReadType
<1>6. Stale(c) \in BOOLEAN
  BY Zenon DEF Stale
<1>7. q = [r EXCEPT !.value = c, !.version = e.version + 1, !.kind = KindStr(k),
                    !.alg = AlgorithmStr(AlgorithmOf[c]), !.mixed = r.mixed \/ Stale(c)]
  BY <1>2, <1>4, Zenon DEF Payload, RowType
<1>8. (r.mixed \/ Stale(c)) \in BOOLEAN
  BY Zenon
<1>9. /\ q \in RowType /\ q.given = r.given /\ q.scheduled = r.scheduled
      /\ q.version = e.version + 1
      /\ q.value = c /\ q.kind = KindStr(k) /\ q.alg = AlgorithmStr(AlgorithmOf[c])
      /\ q.mixed = (r.mixed \/ Stale(c))
  <2> HIDE DEF q, e
  <2> QED
    BY <1>2, <1>5, <1>7, <1>8, Zenon DEF RowType
<1>10. ParseSecretKind(q.kind) = {k}
  BY <1>3, <1>9, KindsParse, Zenon
<1>11. ParseCipherAlgorithm(q.alg) = {AlgorithmOf[q.value]}
  BY <1>9, Texts, AlgorithmsParse, Zenon
<1>12. Readable(q)
  <2>1. CASE q.mixed
    BY <1>10, <1>11, <2>1, Zenon DEF Readable
  <2>2. CASE ~q.mixed
    <3>1. ~r.mixed /\ Existing(r) = e
      BY <1>2, <1>9, <2>2, Zenon DEF Stale
    <3>2. ParseSecretKind(r.kind) = {k}
      BY <1>3, <3>1, ExistingIs
    <3>3. ~OldOAuth2(r)
      <4>1. "OAuth2" \in SecretKind /\ Plain("OAuth2") = "OAuth2"
        BY Zenon DEF SecretKind, Plain
      <4> QED
        BY <3>2, <4>1, KindsParse, Zenon DEF OldOAuth2
    <3> QED
      BY <1>2, <1>9, <1>10, <1>11, <3>1, <3>2, <3>3, Zenon DEF Readable
  <2> QED
    BY <2>1, <2>2, Zenon
<1> QED
  BY <1>2, <1>3, <1>5, <1>9, <1>10, <1>12, Zenon

LEMMA PutValueStep ==
    ASSUME TypeOK, StoresInv, NEW c \in Client, AwsPutValue(c)
    PROVE  TypeOK' /\ StoresInv'
<1> DEFINE n == calls[c].name
<1>1. /\ calls[c].pc = "value" /\ backend = "aws" /\ n \in Name
      /\ calls[c].left \in SUBSET Name
      /\ UNCHANGED <<backend, force, disturbed>> /\ disturbed' \in SUBSET Name
  BY AwsOnly, CallIs, Zenon DEF AwsPutValue, TypeOK
<1>2. CASE Return(c) /\ UNCHANGED rows
  BY <1>1, <1>2, ReturnStep, Zenon
<1>3. ASSUME NEW r \in Visible(n), SetRow(n, Payload(c, r)),
             calls' = [calls EXCEPT ![c] =
                  [pc |-> "tag", name |-> n, left |-> calls[c].left,
                   version |-> Payload(c, r).version]]
      PROVE  TypeOK' /\ StoresInv'
  <2> DEFINE q == Payload(c, r)
             k == [pc |-> "tag", name |-> n, left |-> calls[c].left, version |-> q.version]
             R == {q}
  <2>2. /\ q \in RowType /\ Readable(q) /\ q.version \in 1 .. MaxVersion
    BY <1>1, <1>3, PayloadIs, Zenon
  <2>3. rows' = [rows EXCEPT ![n] = R] /\ calls' = [calls EXCEPT ![c] = k]
    BY <1>3, Zenon DEF SetRow
  <2> HIDE DEF q
  <2>4. k \in CallType /\ k.pc = "tag" /\ k.name = n
    BY <1>1, <2>2, Zenon DEF CallType
  <2>5. /\ R \in SUBSET RowType /\ \A x, y \in R : x = y
        /\ \A x \in R : Readable(x)
    BY <2>2, Zenon
  <2> HIDE DEF k, R
  <2> QED
    BY <1>1, <2>3, <2>4, <2>5, CallRowStep, ZenonT(40)
<1> QED
  BY <1>2, <1>3, Zenon DEF AwsPutValue

LEMMA NextOrReturnIs ==
    ASSUME NEW c \in Client, calls[c].left \in SUBSET Name, NextOrReturn(c)
    PROVE  \E k \in CallType : k.pc \in {"idle", "next"} /\ calls' = [calls EXCEPT ![c] = k]
<1> DEFINE k == IF calls[c].left = {} THEN Idle ELSE [pc |-> "next", left |-> calls[c].left]
<1>1. k \in CallType /\ k.pc \in {"idle", "next"}
  BY IdleIs, Zenon DEF CallType
<1>2. calls' = [calls EXCEPT ![c] = k]
  BY Zenon DEF NextOrReturn
<1> HIDE DEF k
<1> QED
  BY <1>1, <1>2, Zenon

LEMMA TagStep ==
    ASSUME TypeOK, StoresInv, NEW c \in Client, AwsTag(c) \/ AwsTagFails(c)
    PROVE  TypeOK' /\ StoresInv'
<1> DEFINE n == calls[c].name
           v == calls[c].version
<1>1. /\ calls[c].pc = "tag" /\ backend = "aws" /\ n \in Name /\ v \in 1 .. MaxVersion
      /\ calls[c].left \in SUBSET Name
  BY AwsOnly, CallIs, Zenon DEF AwsTag, AwsTagFails
<1>2. PICK k \in CallType : k.pc \in {"idle", "next"} /\ calls' = [calls EXCEPT ![c] = k]
  BY <1>1, NextOrReturnIs, Zenon DEF AwsTag, AwsTagFails
<1>3. /\ UNCHANGED <<backend, force>> /\ disturbed' \in SUBSET Name
      /\ disturbed \subseteq disturbed'
  BY <1>1, Zenon DEF AwsTag, AwsTagFails, TypeOK
<1>4. CASE AwsTagFails(c)
  <2>1. n \in disturbed' /\ UNCHANGED rows
    BY <1>4, Zenon DEF AwsTagFails
  <2> QED
    BY <1>1, <1>2, <1>3, <2>1, CallStep, Zenon
<1>5. CASE AwsTag(c)
  <2>1. PICK r \in Visible(n) : /\ SetRow(n, [r EXCEPT !.tag = v])
                                /\ r.version = v \/ n \in disturbed'
    BY <1>5, Zenon DEF AwsTag
  <2> DEFINE q == [r EXCEPT !.tag = v]
             R == {q}
  <2>2. r \in RowType /\ Readable(r)
    BY <1>1, <2>1, Zenon DEF Visible, TypeOK, StoresInv, RowsReadable
  <2>3. /\ q \in RowType /\ Readable(q)
        /\ q.tag = v /\ q.version = r.version
    BY <1>1, <2>2, RetaggedIs
  <2>4. rows' = [rows EXCEPT ![n] = R]
    BY <2>1, Zenon DEF SetRow
  <2> HIDE DEF q
  <2>5. /\ R \in SUBSET RowType /\ \A x, y \in R : x = y
        /\ \A x \in R : Readable(x)
        /\ \A x \in R : \/ x.scheduled \/ x.tag = x.version \/ n \in disturbed'
                        \/ k.pc = "tag" /\ k.name = n
    BY <2>1, <2>3, Zenon
  <2> HIDE DEF R, n, v
  <2>6. (calls[c].pc = "tag" => calls[c].name = n) /\ k.pc \notin {"batch", "value"}
    BY <1>2, Zenon DEF n
  <2>7. /\ backend = "aws" /\ n \in Name /\ calls' = [calls EXCEPT ![c] = k]
        /\ UNCHANGED <<backend, force>> /\ disturbed' \in SUBSET Name
        /\ disturbed \subseteq disturbed'
    BY <1>1, <1>2, <1>3, Zenon
  <2> QED
    BY <2>4, <2>5, <2>6, <2>7, CallRowStep, ZenonT(40)
<1> QED
  BY <1>4, <1>5, Zenon

LEMMA DeleteStep ==
    ASSUME TypeOK, StoresInv, NEW c \in Client, AwsDelete(c)
    PROVE  TypeOK' /\ StoresInv'
<1> DEFINE n == calls[c].name
           R == IF force THEN {} ELSE {[r EXCEPT !.scheduled = TRUE] : r \in rows[n]}
<1>1. /\ calls[c].pc = "delete" /\ backend = "aws" /\ n \in Name /\ Return(c)
      /\ UNCHANGED <<backend, force, disturbed>> /\ disturbed' \in SUBSET Name
  BY AwsOnly, CallIs, Zenon DEF AwsDelete, TypeOK
<1>2. CASE UNCHANGED rows
  BY <1>1, <1>2, ReturnStep, Zenon
<1>3. CASE rows' = [rows EXCEPT ![n] = R]
  <2>1. \A r \in rows[n] : r \in RowType /\ Readable(r)
    BY <1>1, Zenon DEF TypeOK, StoresInv, RowsReadable
  <2>2. \A r, s \in rows[n] : r = s
    BY <1>1, Zenon DEF TypeOK
  <2>3. \A x \in R : \E r \in rows[n] : x = [r EXCEPT !.scheduled = TRUE]
    BY Zenon
  <2> HIDE DEF R
  <2>4. \A x, y \in R : x = y
    BY <2>2, <2>3, Zenon
  <2>5. ASSUME NEW x \in R
        PROVE  x \in RowType /\ Readable(x) /\ x.scheduled
    <3>1. PICK r \in rows[n] : x = [r EXCEPT !.scheduled = TRUE]
      BY <2>3, Zenon
    <3>2. r \in RowType /\ Readable(r)
      BY <2>1, Zenon
    <3> QED
      BY <3>1, <3>2, ScheduledIs, Zenon
  <2>6. /\ R \in SUBSET RowType /\ \A x \in R : Readable(x)
        /\ \A x \in R : \/ x.scheduled \/ x.tag = x.version \/ n \in disturbed'
                        \/ Idle.pc = "tag" /\ Idle.name = n
    BY <2>5, Zenon
  <2>7. calls' = [calls EXCEPT ![c] = Idle] /\ calls[c].pc # "tag" /\ Idle.pc \notin {"batch", "value"}
    BY <1>1, IdleIs, Zenon DEF Return
  <2> HIDE DEF n
  <2> QED
    BY <1>1, <1>3, <2>4, <2>6, <2>7, IdleIs, CallRowStep, ZenonT(40)
<1> QED
  BY <1>1, <1>2, <1>3, Zenon DEF AwsDelete

LEMMA StoresStep ==
    ASSUME TypeOK, StoresInv, [Next]_vars
    PROVE  TypeOK' /\ StoresInv'
<1>1. ASSUME NEW c \in Client, AwsNext(c) PROVE TypeOK' /\ StoresInv'
  BY <1>1, InsertStep, DescribeStep, BatchStep, ReadStep, PutValueStep, TagStep, DeleteStep, Zenon
     DEF AwsNext, AwsPut
<1>2. ASSUME NEW n \in Name, Purge(n) PROVE TypeOK' /\ StoresInv'
  BY <1>2, EmptyStep, Zenon DEF Purge
<1>3. CASE UNCHANGED vars
  BY <1>3, ZenonT(40) DEF vars, TypeOK, StoresInv, RowsReadable, Readable, OldOAuth2, OnlyOnAws, OnceAsked,
              TagInv, Visible, Tagging
<1> QED
  BY <1>1, <1>2, <1>3, SqlStep, Zenon DEF Next

LEMMA InitialRow ==
    ASSUME NEW R \in InitialRows
    PROVE  R = {} \/ \E c \in Client, k \in SecretKind :
                       R = {NewRow(c, k)} \/ R = {LegacyRow(c, k)}
BY ParametersAssumption DEF InitialRows

LEMMA InitStep ==
    ASSUME Init
    PROVE  TypeOK /\ StoresInv
<1>1. ASSUME NEW n \in Name
      PROVE  rows[n] = {} \/ \E c \in Client, k \in SecretKind :
                               rows[n] = {NewRow(c, k)} \/ rows[n] = {LegacyRow(c, k)}
  <2>1. rows[n] \in InitialRows
    BY Zenon DEF Init
  <2> QED
    BY <2>1, InitialRow
<1>2. ASSUME NEW n \in Name
      PROVE  /\ \A r \in rows[n] : /\ r \in RowType /\ Readable(r)
                                   /\ ~r.scheduled /\ r.tag = r.version /\ r.version = 1
             /\ \A r, s \in rows[n] : r = s
  BY <1>1, NewRowIs, LegacyRowIs
<1>3. calls \in [Client -> CallType] /\ \A c \in Client : calls[c].pc = "idle"
  BY IdleIs, Zenon DEF Init
<1>4. rows \in [Name -> SUBSET RowType]
  <2>1. \A n \in Name : rows[n] \in SUBSET RowType
    BY <1>2, Zenon
  <2> QED
    BY <2>1, Zenon DEF Init
<1>5. TypeOK
  BY <1>2, <1>3, <1>4, Zenon DEF Init, TypeOK
<1>6. RowsReadable /\ OnlyOnAws /\ OnceAsked /\ TagInv
  BY <1>2, <1>3, Zenon DEF RowsReadable, OnlyOnAws, OnceAsked, TagInv, Visible
<1> QED
  BY <1>5, <1>6, Zenon DEF StoresInv

LEMMA StoresInvariant == Spec => [](TypeOK /\ StoresInv)
BY InitStep, StoresStep, PTL DEF Spec

(* A name has at most one row, and versions start at one, whatever callers *)
(* of a store interleave.                                                  *)
THEOREM StoresTyped == Spec => []TypeOK
BY StoresInvariant, PTL

(* Every row is readable, whichever version of the code wrote it and       *)
(* however overlapping updates mixed reads and writes, except OAuth2       *)
(* secrets of an earlier version.                                          *)
THEOREM AllReadable == Spec => []RowsReadable
<1>1. TypeOK /\ StoresInv => RowsReadable
  BY Zenon DEF StoresInv
<1> QED
  BY <1>1, StoresInvariant, PTL

(* list agrees with get, unless a tag call is outstanding, failed, or met  *)
(* another caller's row, or a row that does not parse makes it fail        *)
(* (SecretsManagerStore::list, tag_resource, row_to_metadata).             *)
THEOREM ListAgrees == Spec => []ListedVersionsTrue
<1>1. TypeOK /\ StoresInv => ListedVersionsTrue
  <2> SUFFICES ASSUME StoresInv, NEW n \in Name, NEW r \in Visible(n), Parses(r)
               PROVE  \/ <<n, r.version>> \in Listed
                      \/ n \in disturbed
                      \/ \E c \in Client : calls[c].pc = "tag" /\ calls[c].name = n
                      \/ backend # "aws" /\ \E m \in Name : \E q \in rows[m] : OldOAuth2(q)
    BY Zenon DEF ListedVersionsTrue
  <2>1. CASE ListFails
    <3>1. PICK m \in Name : \E q \in rows[m] : ParseSecretKind(q.kind) = {}
      BY <2>1, Zenon DEF ListFails
    <3>2. PICK q \in rows[m] : ParseSecretKind(q.kind) = {}
      BY <3>1, Zenon
    <3>3. Readable(q) /\ backend # "aws"
      BY <2>1, Zenon DEF StoresInv, RowsReadable, ListFails
    <3>4. OldOAuth2(q)
      BY <3>2, <3>3 DEF Readable
    <3> QED
      BY <3>3, <3>4, Zenon
  <2>2. CASE backend # "aws" /\ ~ListFails
    <3>1. <<n, r.version>> \in SqlListed
      BY DEF SqlListed, Visible
    <3> QED
      BY <2>2, <3>1, Zenon DEF Listed
  <2>3. CASE backend = "aws"
    <3>1. <<n, r.tag>> \in AwsListed
      BY DEF AwsListed, Parses
    <3>2. ~ListFails
      BY <2>3, Zenon DEF ListFails
    <3> QED
      BY <2>3, <3>1, <3>2, Zenon DEF Listed, StoresInv, TagInv, Tagging
  <2> QED
    BY <2>1, <2>2, <2>3, Zenon
<1> QED
  BY <1>1, StoresInvariant, PTL

-----------------------------------------------------------------------------
(* The promise of the trait                                                *)

Shown(r) == [value |-> r.value, version |-> r.version, kind |-> ParseSecretKind(r.kind)]

Secret(n) == {Shown(r) : r \in Visible(n)}

Secrets == [n \in Name |-> Secret(n)]

AllAsked == [c \in Client |-> Asked(calls[c])]

\* what StoreContractHeld allows a step to do
Promised ==
    \/ UNCHANGED (Contract!vars)
    \/ Contract!Next
    \/ \E c \in Client : Stale(c) /\ Contract!Overwrite(c, calls[c].name)

(* What each step of the promise asks of a step.                           *)
LEMMA NothingSeen ==
    ASSUME Secrets' = Secrets, AllAsked' = AllAsked, UNCHANGED backend
    PROVE  Promised
BY Zenon DEF Promised, Contract!vars, Secrets, Secret, Shown, AllAsked

LEMMA FailSeen ==
    ASSUME NEW c \in Client, Secrets' = Secrets, UNCHANGED backend,
           AllAsked' = [AllAsked EXCEPT ![c] = {}]
    PROVE  Promised
<1>1. Contract!Fail(c)
  BY Zenon DEF Contract!Fail, Secrets, Secret, Shown, AllAsked
<1> QED
  BY <1>1, Zenon DEF Promised, Contract!Next

LEMMA AskSeen ==
    ASSUME NEW c \in Client, NEW names \in SUBSET Name, Secrets' = Secrets, UNCHANGED backend,
           AllAsked[c] = {}, AllAsked' = [AllAsked EXCEPT ![c] = names]
    PROVE  Promised
<1>1. Contract!Ask(c, names)
  BY Zenon DEF Contract!Ask, Secrets, Secret, Shown, AllAsked
<1> QED
  BY <1>1, Zenon DEF Promised, Contract!Next

LEMMA PutSeen ==
    ASSUME NEW c \in Client, NEW n \in Name, NEW k \in SecretKind, UNCHANGED backend,
           AllAsked' = AllAsked, Secrets[n] = {},
           Secrets' = [Secrets EXCEPT ![n] = {[value |-> c, version |-> 1, kind |-> {k}]}]
    PROVE  Promised
<1>1. {k} \in {{}} \cup {{x} : x \in SecretKind}
  BY Zenon
<1>2. Contract!Put(c, n)
  BY <1>1, Zenon DEF Contract!Put, Secrets, Secret, Shown, AllAsked
<1> QED
  BY <1>2, Zenon DEF Promised, Contract!Next

LEMMA DeleteSeen ==
    ASSUME NEW n \in Name, UNCHANGED backend, AllAsked' = AllAsked,
           Secrets' = [Secrets EXCEPT ![n] = {}]
    PROVE  Promised
<1>1. CASE Secrets[n] = {}
  <2>1. Secrets' = Secrets
    BY <1>1, Zenon DEF Secrets
  <2> QED
    BY <2>1, NothingSeen, Zenon
<1>2. CASE Secrets[n] # {}
  <2>1. Contract!Delete(n)
    BY <1>2, Zenon DEF Contract!Delete, Secrets, Secret, Shown, AllAsked
  <2> QED
    BY <2>1, Zenon DEF Promised, Contract!Next
<1> QED
  BY <1>1, <1>2, Zenon

\* the secrets after names were updated by c
Updated(names, c) ==
    [n \in Name |-> IF n \in names THEN {Contract!Updated(s, c) : s \in Secrets[n]}
                    ELSE Secrets[n]]

LEMMA UpdatesSeen ==
    ASSUME NEW names \in SUBSET Name, NEW c \in Client, \A n \in names : Secrets[n] # {},
           Secrets' = Updated(names, c)
    PROVE  Contract!Updates(names, c)
BY Zenon DEF Contract!Updates, Updated, Secrets, Secret, Shown

LEMMA UpdateSeen ==
    ASSUME NEW n \in Name, NEW c \in Client, Secrets[n] # {}, Secrets' = Updated({n}, c),
           UNCHANGED backend, AllAsked' = AllAsked, AllAsked[c] = {}
    PROVE  Promised
<1>1. Contract!Updates({n}, c)
  BY UpdatesSeen, Zenon
<1>2. Contract!Update(c, n)
  BY <1>1, Zenon DEF Contract!Update, AllAsked
<1> QED
  BY <1>2, Zenon DEF Promised, Contract!Next

LEMMA WriteAllSeen ==
    ASSUME NEW c \in Client, AllAsked[c] \in SUBSET Name, \A n \in AllAsked[c] : Secrets[n] # {},
           Secrets' = Updated(AllAsked[c], c), backend # "aws", UNCHANGED backend,
           AllAsked' = [AllAsked EXCEPT ![c] = {}]
    PROVE  Promised
<1>1. Contract!Updates(AllAsked[c], c)
  BY UpdatesSeen, Zenon
<1>2. Contract!WriteAll(c)
  BY <1>1, Zenon DEF Contract!WriteAll, AllAsked
<1> QED
  BY <1>2, Zenon DEF Promised, Contract!Next

LEMMA WriteOneSeen ==
    ASSUME NEW n \in Name, NEW c \in Client, Secrets[n] # {}, Secrets' = Updated({n}, c),
           n \in AllAsked[c], backend = "aws", UNCHANGED backend,
           AllAsked' = [AllAsked EXCEPT ![c] = AllAsked[c] \ {n}]
    PROVE  Promised
<1>1. Contract!Updates({n}, c)
  BY UpdatesSeen, Zenon
<1>2. Contract!WriteOne(c, n)
  BY <1>1, Zenon DEF Contract!WriteOne, AllAsked
<1> QED
  BY <1>2, Zenon DEF Promised, Contract!Next

LEMMA OverwriteSeen ==
    ASSUME NEW c \in Client, calls[c].name \in Name, Stale(c), Secrets[calls[c].name] # {},
           NEW s, s.value = c, Secrets' = [Secrets EXCEPT ![calls[c].name] = {s}],
           calls[c].name \in AllAsked[c], backend = "aws", UNCHANGED backend,
           AllAsked' = [AllAsked EXCEPT ![c] = AllAsked[c] \ {calls[c].name}]
    PROVE  Promised
<1> DEFINE n == calls[c].name
<1>1. \A m \in Name : Secrets'[m] = IF m = n THEN {s} ELSE Secrets[m]
  BY Zenon DEF Secrets
<1>2. Secrets'[n] = {s} /\ \A m \in Name : m # n => Secrets'[m] = Secrets[m]
  BY <1>1, Zenon
<1>3. Secrets'[n] # {} /\ \A x \in Secrets'[n] : x.value = c
  BY <1>2
<1>4. Contract!Overwrite(c, n)
  BY <1>2, <1>3, Zenon DEF Contract!Overwrite, Secrets, Secret, Shown, AllAsked
<1> QED
  BY <1>4, Zenon DEF Promised

-----------------------------------------------------------------------------
(* What a step changes of the secrets and of what is asked.                *)
LEMMA SecretsAfter ==
    ASSUME TypeOK, NEW n \in Name, NEW R, rows' = [rows EXCEPT ![n] = R]
    PROVE  Secrets' = [Secrets EXCEPT ![n] = {Shown(r) : r \in {q \in R : ~q.scheduled}}]
<1>1. \A m \in Name : rows'[m] = IF m = n THEN R ELSE rows[m]
  BY Zenon DEF TypeOK
<1>2. \A m \in Name : Secret(m)' = IF m = n THEN {Shown(r) : r \in {q \in R : ~q.scheduled}}
                                  ELSE Secret(m)
  BY <1>1, Zenon DEF Secret, Visible, Shown
<1> QED
  BY <1>2, Zenon DEF Secrets

LEMMA OneAfter ==
    ASSUME TypeOK, NEW n \in Name, NEW q, rows' = [rows EXCEPT ![n] = {q}], ~q.scheduled
    PROVE  Secrets' = [Secrets EXCEPT ![n] = {Shown(q)}]
<1>1. {Shown(r) : r \in {x \in {q} : ~x.scheduled}} = {Shown(q)}
  BY Zenon
<1> QED
  BY <1>1, SecretsAfter, Zenon

LEMMA NoneAfter ==
    ASSUME TypeOK, NEW n \in Name, NEW R, rows' = [rows EXCEPT ![n] = R],
           \A x \in R : x.scheduled
    PROVE  Secrets' = [Secrets EXCEPT ![n] = {}]
<1>1. {Shown(r) : r \in {x \in R : ~x.scheduled}} = {}
  BY Zenon
<1> QED
  BY <1>1, SecretsAfter, Zenon

LEMMA RowsSame ==
    ASSUME UNCHANGED rows
    PROVE  Secrets' = Secrets
BY Zenon DEF Secrets, Secret, Visible, Shown

LEMMA AskedAfter ==
    ASSUME TypeOK, NEW c \in Client, NEW k, calls' = [calls EXCEPT ![c] = k]
    PROVE  AllAsked' = [AllAsked EXCEPT ![c] = Asked(k)]
<1>1. \A d \in Client : Asked(calls'[d]) = IF d = c THEN Asked(k) ELSE Asked(calls[d])
  BY Zenon DEF TypeOK
<1>2. AllAsked' = [d \in Client |-> Asked(calls'[d])]
  BY Zenon DEF AllAsked, Asked
<1> QED
  BY <1>1, <1>2, Zenon DEF AllAsked

LEMMA AskedIs ==
    ASSUME NEW k
    PROVE  /\ k.pc \in {"idle", "delete"} => Asked(k) = {}
           /\ k.pc \in {"batch", "next", "tag"} => Asked(k) = k.left
           /\ k.pc = "value" => Asked(k) = k.left \cup {k.name}
BY Zenon DEF Asked

(* A step that leaves the calls as they are, or what they ask for.         *)
LEMMA AskedSame ==
    ASSUME TypeOK, NEW c \in Client, NEW k, calls' = [calls EXCEPT ![c] = k],
           Asked(k) = Asked(calls[c])
    PROVE  AllAsked' = AllAsked
<1>1. AllAsked' = [AllAsked EXCEPT ![c] = AllAsked[c]]
  BY AskedAfter, Zenon DEF AllAsked
<1> QED
  BY <1>1, Zenon DEF AllAsked

LEMMA CallsSame ==
    ASSUME UNCHANGED calls
    PROVE  AllAsked' = AllAsked
BY Zenon DEF AllAsked, Asked

LEMMA ReturnAsksNothing ==
    ASSUME TypeOK, NEW c \in Client, Return(c)
    PROVE  AllAsked' = [AllAsked EXCEPT ![c] = {}]
<1>1. Asked(Idle) = {}
  BY IdleIs, AskedIs, Zenon
<1> QED
  BY <1>1, AskedAfter, Zenon DEF Return

LEMMA UpdatedIs ==
    ASSUME NEW r, NEW q, NEW c, q.value = c, q.version = r.version + 1,
           ParseSecretKind(q.kind) = ParseSecretKind(r.kind)
    PROVE  Shown(q) = Contract!Updated(Shown(r), c)
BY Zenon DEF Contract!Updated, Shown

(* A single visible row, replaced by one with another version and value.   *)
LEMMA RewriteAfter ==
    ASSUME TypeOK, NEW n \in Name, NEW c \in Client, NEW r \in Visible(n),
           NEW q, rows' = [rows EXCEPT ![n] = {q}], ~q.scheduled,
           q.value = c, q.version = r.version + 1,
           ParseSecretKind(q.kind) = ParseSecretKind(r.kind)
    PROVE  Secrets[n] # {} /\ Secrets' = Updated({n}, c)
<1>1. Visible(n) = {r}
  BY DEF TypeOK, Visible
<1>2. Secrets[n] = {Shown(r)}
  BY <1>1, Zenon DEF Secret, Secrets
<1>3. Shown(q) = Contract!Updated(Shown(r), c)
  BY UpdatedIs, Zenon
<1>4. {Contract!Updated(s, c) : s \in Secrets[n]} = {Shown(q)}
  BY <1>2, <1>3, Zenon
<1>5. Secrets' = [Secrets EXCEPT ![n] = {Shown(q)}]
  BY OneAfter, Zenon
<1> QED
  BY <1>2, <1>4, <1>5, Zenon DEF Updated, Secrets

-----------------------------------------------------------------------------
(* One lemma per action.                                                   *)

LEMMA InsertSeen ==
    ASSUME TypeOK, NEW c \in Client, NEW n \in Name, InsertRow(c, n)
    PROVE  Promised
<1>1. PICK k \in SecretKind : rows' = [rows EXCEPT ![n] = {NewRow(c, k)}]
  BY ParametersAssumption, Zenon DEF InsertRow, SetRow
<1>2. rows[n] = {} /\ UNCHANGED <<backend, calls>>
  BY Zenon DEF InsertRow
<1>3. Secrets[n] = {}
  BY <1>2, Zenon DEF Secret, Secrets, Visible
<1> DEFINE q == NewRow(c, k)
<1>4. q.value = c /\ q.version = 1 /\ ParseSecretKind(q.kind) = {Plain(k)} /\ ~q.scheduled
  BY NewRowIs, Zenon
<1>5. rows' = [rows EXCEPT ![n] = {q}]
  BY <1>1, Zenon
<1> HIDE DEF q
<1>6. Shown(q) = [value |-> c, version |-> 1, kind |-> {Plain(k)}]
  BY <1>4, Zenon DEF Shown
<1>7. Secrets' = [Secrets EXCEPT ![n] = {[value |-> c, version |-> 1, kind |-> {Plain(k)}]}]
  BY <1>4, <1>5, <1>6, OneAfter, Zenon
<1>8. Plain(k) \in SecretKind
  BY Texts, Zenon
<1> QED
  BY <1>2, <1>3, <1>7, <1>8, CallsSame, PutSeen, Zenon

LEMMA EmptySeen ==
    ASSUME TypeOK, NEW n \in Name, rows' = [rows EXCEPT ![n] = {}],
           UNCHANGED <<backend, calls>>
    PROVE  Promised
<1> DEFINE R == {}
<1>1. rows' = [rows EXCEPT ![n] = R] /\ \A x \in R : x.scheduled
  BY Zenon
<1> HIDE DEF R
<1>2. Secrets' = [Secrets EXCEPT ![n] = {}]
  BY <1>1, NoneAfter, Zenon
<1> QED
  BY <1>2, CallsSame, DeleteSeen, Zenon

LEMMA CommitSeen ==
    ASSUME TypeOK, StoresInv, NEW c \in Client, Commit(c)
    PROVE  Promised
<1> DEFINE names == calls[c].left
<1>1. /\ names \in SUBSET Name /\ backend # "aws" /\ Return(c) /\ UNCHANGED backend
      /\ AllAsked[c] = names
  BY CallIs, AskedIs, Zenon DEF Commit, TypeOK, StoresInv, OnlyOnAws, AllAsked
<1>2. ASSUME NEW n \in names
      PROVE  Secrets[n] # {} /\ Secret(n)' = {Contract!Updated(s, c) : s \in Secrets[n]}
  <2>1. PICK r \in rows[n] : TRUE
    BY Zenon DEF Commit
  <2>2. rows[n] = {r} /\ r \in RowType /\ ~r.scheduled /\ r.version < MaxVersion
    BY <1>1 DEF TypeOK, StoresInv, OnlyOnAws, Commit, WithinBound
  <2> DEFINE q == Rewritten(r, c)
  <2>3. q.value = c /\ q.version = r.version + 1 /\ q.kind = r.kind /\ ~q.scheduled
    BY <2>2, RewrittenIs
  <2>4. rows'[n] = {q}
    BY <1>1, <2>2, Zenon DEF Commit
  <2> HIDE DEF q
  <2>5. Secrets[n] = {Shown(r)}
    BY <1>1, <2>2, Zenon DEF Secret, Secrets, Visible
  <2>6. Secret(n)' = {Shown(q)}
    BY <2>3, <2>4, Zenon DEF Secret, Visible, Shown
  <2>7. Shown(q) = Contract!Updated(Shown(r), c)
    BY <2>3, UpdatedIs, Zenon
  <2> QED
    BY <2>5, <2>6, <2>7, Zenon
<1>3. \A n \in Name : n \notin names => Secret(n)' = Secrets[n]
  BY Zenon DEF Commit, Secret, Secrets, Visible, Shown
<1>4. Secrets' = Updated(names, c)
  BY <1>2, <1>3, Zenon DEF Secrets, Updated
<1> HIDE DEF names
<1> QED
  BY <1>1, <1>2, <1>4, ReturnAsksNothing, WriteAllSeen, Zenon

LEMMA SqlSeen ==
    ASSUME TypeOK, StoresInv, NEW c \in Client, SqlNext(c)
    PROVE  Promised
<1>1. ASSUME NEW n \in Name, DeleteRow(c, n) PROVE Promised
  BY <1>1, EmptySeen, Zenon DEF DeleteRow
<1>2. ASSUME NEW n \in Name, UpdateRow(c, n), backend # "aws" PROVE Promised
  <2>1. PICK r \in rows[n] : rows' = [rows EXCEPT ![n] = {Rewritten(r, c)}]
    BY <1>2, Zenon DEF UpdateRow, SetRow
  <2>2. r \in RowType /\ r.version < MaxVersion /\ ~r.scheduled /\ r \in Visible(n)
    BY <1>2, <2>1, Zenon DEF UpdateRow, WithinBound, TypeOK, StoresInv, OnlyOnAws, Visible
  <2>3. /\ Rewritten(r, c).value = c /\ Rewritten(r, c).version = r.version + 1
        /\ Rewritten(r, c).kind = r.kind /\ ~Rewritten(r, c).scheduled
    BY <2>2, RewrittenIs
  <2>4. Secrets[n] # {} /\ Secrets' = Updated({n}, c)
    BY <2>1, <2>2, <2>3, RewriteAfter, Zenon
  <2>5. UNCHANGED <<backend, calls>> /\ AllAsked[c] = {}
    BY <1>2, IdleIs, AskedIs, Zenon DEF UpdateRow, AllAsked
  <2> QED
    BY <2>4, <2>5, CallsSame, UpdateSeen, Zenon
<1>3. ASSUME NEW names \in SUBSET Name, AskBatch(c, names) PROVE Promised
  <2> DEFINE k == [pc |-> "batch", left |-> names]
  <2>1. /\ UNCHANGED <<backend, rows>> /\ AllAsked[c] = {}
        /\ calls' = [calls EXCEPT ![c] = k]
    BY <1>3, IdleIs, AskedIs, Zenon DEF AskBatch, AllAsked
  <2>2. k.pc = "batch" /\ k.left = names
    BY Zenon
  <2> HIDE DEF k
  <2>3. Asked(k) = names
    BY <2>2, AskedIs, Zenon
  <2>4. AllAsked' = [AllAsked EXCEPT ![c] = names]
    BY <2>1, <2>3, AskedAfter, Zenon
  <2> QED
    BY <2>1, <2>4, RowsSame, AskSeen, Zenon
<1>4. CASE Rollback(c)
  BY <1>4, RowsSame, ReturnAsksNothing, FailSeen, Zenon DEF Rollback
<1> QED
  BY <1>1, <1>2, <1>3, <1>4, InsertSeen, CommitSeen, Zenon
     DEF SqlNext, SqlitePut, SqliteUpdate, SqliteDelete, SqliteBatch,
         PostgresPut, PostgresUpdate, PostgresDelete, PostgresBatch

LEMMA AwsBatchSeen ==
    ASSUME TypeOK, NEW c \in Client, NEW names \in SUBSET Name, AwsBatch(c, names)
    PROVE  Promised
<1> DEFINE k == [pc |-> "next", left |-> names]
<1>1. /\ UNCHANGED <<backend, rows>> /\ AllAsked[c] = {}
      /\ calls' = [calls EXCEPT ![c] = k]
  BY IdleIs, AskedIs, Zenon DEF AwsBatch, AllAsked
<1>2. k.pc = "next" /\ k.left = names
  BY Zenon
<1> HIDE DEF k
<1>3. Asked(k) = names
  BY <1>2, AskedIs, Zenon
<1>4. AllAsked' = [AllAsked EXCEPT ![c] = names]
  BY <1>1, <1>3, AskedAfter, Zenon
<1> QED
  BY <1>1, <1>4, RowsSame, AskSeen, Zenon

LEMMA AwsReadSeen ==
    ASSUME TypeOK, NEW c \in Client, AwsRead(c)
    PROVE  Promised
<1>1. UNCHANGED <<backend, rows>> /\ calls[c].pc = "next"
  BY Zenon DEF AwsRead
<1>2. CASE Return(c)
  BY <1>1, <1>2, RowsSame, ReturnAsksNothing, FailSeen, Zenon
<1>3. ASSUME NEW n \in calls[c].left, NEW e,
             calls' = [calls EXCEPT ![c] =
                [pc |-> "value", name |-> n, read |-> e, left |-> calls[c].left \ {n}]]
      PROVE  Promised
  <2> DEFINE k == [pc |-> "value", name |-> n, read |-> e, left |-> calls[c].left \ {n}]
  <2>1. k.pc = "value" /\ k.name = n /\ k.left = calls[c].left \ {n}
    BY Zenon
  <2>2. calls' = [calls EXCEPT ![c] = k]
    BY <1>3, Zenon
  <2> HIDE DEF k
  <2>3. Asked(k) = (calls[c].left \ {n}) \cup {n} /\ Asked(calls[c]) = calls[c].left
    BY <1>1, <2>1, AskedIs, Zenon
  <2>4. (calls[c].left \ {n}) \cup {n} = calls[c].left
    BY <1>3
  <2> QED
    BY <1>1, <2>2, <2>3, <2>4, RowsSame, AskedSame, NothingSeen, Zenon
<1> QED
  BY <1>2, <1>3, Zenon DEF AwsRead

LEMMA PutValueSeen ==
    ASSUME TypeOK, StoresInv, NEW c \in Client, AwsPutValue(c)
    PROVE  Promised
<1>1. PICK n \in Name : n = calls[c].name
  BY AwsOnly, CallIs, Zenon DEF AwsPutValue
<1>2. calls[c].pc = "value" /\ backend = "aws" /\ UNCHANGED backend
  BY AwsOnly, Zenon DEF AwsPutValue
<1>3. CASE Return(c) /\ UNCHANGED rows
  BY <1>2, <1>3, RowsSame, ReturnAsksNothing, FailSeen, Zenon
<1>4. ASSUME NEW r \in Visible(n), SetRow(n, Payload(c, r)),
             calls' = [calls EXCEPT ![c] =
                  [pc |-> "tag", name |-> n, left |-> calls[c].left,
                   version |-> Payload(c, r).version]]
      PROVE  Promised
  <2> DEFINE q == Payload(c, r)
             k == [pc |-> "tag", name |-> n, left |-> calls[c].left, version |-> q.version]
  <2>1. /\ ~q.scheduled /\ q.version = calls[c].read.version + 1 /\ q.value = c
        /\ ParseSecretKind(q.kind) = calls[c].read.kind
    BY <1>1, <1>2, <1>4, PayloadIs, Zenon
  <2>2. rows' = [rows EXCEPT ![n] = {q}] /\ calls' = [calls EXCEPT ![c] = k]
    BY <1>4, Zenon DEF SetRow
  <2> HIDE DEF q
  <2>3. k.pc = "tag" /\ k.left = calls[c].left
    BY Zenon
  <2> HIDE DEF k
  <2>4. n \notin calls[c].left => AllAsked' = [AllAsked EXCEPT ![c] = AllAsked[c] \ {n}]
    <3>1. Asked(k) = calls[c].left /\ AllAsked[c] = calls[c].left \cup {n}
      BY <1>1, <1>2, <2>3, AskedIs, Zenon DEF AllAsked
    <3>2. n \notin calls[c].left => (calls[c].left \cup {n}) \ {n} = calls[c].left
      OBVIOUS
    <3> QED
      BY <2>2, <3>1, <3>2, AskedAfter, Zenon
  <2>5. n \notin calls[c].left /\ n \in AllAsked[c]
    BY <1>1, <1>2, AskedIs, Zenon DEF AllAsked, StoresInv, OnceAsked
  <2>6. Secrets[n] # {}
    BY <1>4, Zenon DEF Secrets, Secret
  <2>7. CASE Stale(c)
    <3>1. Shown(q).value = c /\ Secrets' = [Secrets EXCEPT ![n] = {Shown(q)}]
      BY <2>1, <2>2, OneAfter, Zenon DEF Shown
    <3> QED
      BY <1>1, <1>2, <2>4, <2>5, <2>6, <2>7, <3>1, OverwriteSeen, Zenon
  <2>8. CASE ~Stale(c)
    <3>1. PICK x \in Visible(n) : Existing(x) = calls[c].read
      BY <1>1, <1>2, <2>8, Zenon DEF Stale
    <3>2. calls[c].read.version = x.version /\ calls[c].read.kind = ParseSecretKind(x.kind)
      BY <3>1, ExistingIs
    <3>3. Secrets' = Updated({n}, c)
      BY <2>1, <2>2, <3>2, RewriteAfter, Zenon
    <3> QED
      BY <1>2, <2>4, <2>5, <2>6, <3>3, WriteOneSeen, Zenon
  <2> QED
    BY <2>7, <2>8, Zenon
<1> QED
  BY <1>1, <1>3, <1>4, Zenon DEF AwsPutValue

LEMMA TagSeen ==
    ASSUME TypeOK, StoresInv, NEW c \in Client, AwsTag(c) \/ AwsTagFails(c)
    PROVE  Promised
<1>1. /\ calls[c].pc = "tag" /\ calls[c].name \in Name /\ calls[c].version \in 1 .. MaxVersion
      /\ UNCHANGED backend /\ NextOrReturn(c)
  BY AwsOnly, CallIs, Zenon DEF AwsTag, AwsTagFails
<1>2. AllAsked' = AllAsked
  <2> DEFINE k == IF calls[c].left = {} THEN Idle ELSE [pc |-> "next", left |-> calls[c].left]
  <2>1. \/ k.pc = "idle" /\ calls[c].left = {}
        \/ k.pc = "next" /\ k.left = calls[c].left
    BY IdleIs, Zenon
  <2>2. calls' = [calls EXCEPT ![c] = k]
    BY <1>1, Zenon DEF NextOrReturn
  <2> HIDE DEF k
  <2>3. Asked(k) = Asked(calls[c])
    BY <1>1, <2>1, AskedIs, Zenon
  <2> QED
    BY <2>2, <2>3, AskedSame, Zenon
<1>3. CASE AwsTagFails(c)
  BY <1>1, <1>2, <1>3, RowsSame, NothingSeen, Zenon DEF AwsTagFails
<1>4. CASE AwsTag(c)
  <2> DEFINE v == calls[c].version
  <2>1. PICK n \in Name : n = calls[c].name
    BY <1>1, Zenon
  <2>2. PICK r \in Visible(n) : rows' = [rows EXCEPT ![n] = {[r EXCEPT !.tag = v]}]
    BY <1>4, <2>1, Zenon DEF AwsTag, SetRow
  <2>3. r \in RowType /\ Visible(n) = {r} /\ ~r.scheduled
    BY DEF Visible, TypeOK
  <2> DEFINE q == [r EXCEPT !.tag = v]
  <2>4. q.value = r.value /\ q.version = r.version /\ q.kind = r.kind /\ ~q.scheduled
    BY <1>1, <2>3, RetaggedIs, Zenon
  <2>5. rows' = [rows EXCEPT ![n] = {q}]
    BY <2>2, Zenon
  <2> HIDE DEF q
  <2>6. Shown(q) = Shown(r) /\ Secrets[n] = {Shown(r)}
    BY <2>3, <2>4, Zenon DEF Shown, Secrets, Secret
  <2>7. Secrets' = [Secrets EXCEPT ![n] = {Shown(q)}]
    BY <2>4, <2>5, OneAfter, Zenon
  <2>8. Secrets' = Secrets
    BY <2>6, <2>7, Zenon DEF Secrets
  <2> QED
    BY <1>1, <1>2, <2>8, NothingSeen, Zenon
<1> QED
  BY <1>3, <1>4, Zenon

LEMMA AwsDeleteSeen ==
    ASSUME TypeOK, StoresInv, NEW c \in Client, AwsDelete(c)
    PROVE  Promised
<1>1. PICK n \in Name : n = calls[c].name
  BY AwsOnly, CallIs, Zenon DEF AwsDelete
<1>2. /\ UNCHANGED backend /\ calls[c].pc = "delete"
      /\ calls' = [calls EXCEPT ![c] = Idle] /\ Asked(Idle) = Asked(calls[c])
  BY IdleIs, AskedIs, Zenon DEF AwsDelete, Return
<1>3. AllAsked' = AllAsked
  BY <1>2, AskedSame, Zenon
<1> DEFINE R == IF force THEN {} ELSE {[r EXCEPT !.scheduled = TRUE] : r \in rows[n]}
<1>4. CASE UNCHANGED rows
  BY <1>2, <1>3, <1>4, RowsSame, NothingSeen, Zenon
<1>5. CASE rows' = [rows EXCEPT ![n] = R]
  <2>1. \A r \in rows[n] : r \in RowType
    BY <1>1, Zenon DEF TypeOK
  <2>2. \A x \in R : x.scheduled
    BY <2>1, ScheduledIs, Zenon
  <2> HIDE DEF R
  <2>3. Secrets' = [Secrets EXCEPT ![n] = {}]
    BY <1>5, <2>2, NoneAfter, Zenon
  <2> QED
    BY <1>2, <1>3, <2>3, DeleteSeen, Zenon
<1> QED
  BY <1>1, <1>4, <1>5, Zenon DEF AwsDelete

LEMMA DescribeSeen ==
    ASSUME TypeOK, NEW c \in Client, NEW n \in Name, AwsDescribe(c, n)
    PROVE  Promised
<1> DEFINE k == [pc |-> "delete", name |-> n]
<1>1. /\ UNCHANGED <<backend, rows>> /\ calls' = [calls EXCEPT ![c] = k]
      /\ calls[c].pc = "idle"
  BY IdleIs, Zenon DEF AwsDescribe
<1>2. k.pc = "delete"
  BY Zenon
<1> HIDE DEF k
<1>3. Asked(k) = Asked(calls[c])
  BY <1>1, <1>2, AskedIs, Zenon
<1> QED
  BY <1>1, <1>3, RowsSame, AskedSame, NothingSeen, Zenon

LEMMA PromiseStep ==
    ASSUME TypeOK, StoresInv, [Next]_vars
    PROVE  Promised
<1>1. CASE UNCHANGED vars
  BY <1>1, RowsSame, CallsSame, NothingSeen, Zenon DEF vars
<1>2. ASSUME NEW c \in Client, AwsNext(c) PROVE Promised
  BY <1>2, InsertSeen, DescribeSeen, AwsBatchSeen, AwsReadSeen, PutValueSeen, TagSeen,
     AwsDeleteSeen, Zenon
     DEF AwsNext, AwsPut
<1>3. ASSUME NEW n \in Name, Purge(n) PROVE Promised
  BY <1>3, EmptySeen, Zenon DEF Purge
<1> QED
  BY <1>1, <1>2, <1>3, SqlSeen, Zenon DEF Next

LEMMA PromiseInit ==
    ASSUME Init
    PROVE  Contract!Init
<1> DEFINE S == {{}} \cup {{[value |-> v, version |-> 1, kind |-> k]} :
                            v \in Client, k \in {{}} \cup {{x} : x \in SecretKind}}
<1>1. ASSUME NEW n \in Name
      PROVE  Secret(n) \in S
  <2>1. CASE rows[n] = {}
    BY <2>1 DEF Secret, Visible
  <2>2. ASSUME NEW c \in Client, NEW k \in SecretKind, NEW r, rows[n] = {r}, ~r.scheduled,
               r.value = c, r.version = 1,
               ParseSecretKind(r.kind) = {} \/ ParseSecretKind(r.kind) = {Plain(k)}
        PROVE  Secret(n) \in S
    <3>1. Secret(n) = {[value |-> c, version |-> 1, kind |-> ParseSecretKind(r.kind)]}
      BY <2>2, Zenon DEF Secret, Visible, Shown
    <3>2. ParseSecretKind(r.kind) \in {{}} \cup {{x} : x \in SecretKind}
      BY <2>2, Texts, Zenon
    <3> QED
      BY <3>1, <3>2
  <2>3. rows[n] \in InitialRows
    BY Zenon DEF Init
  <2>4. rows[n] = {} \/ \E c \in Client, k \in SecretKind :
                          rows[n] = {NewRow(c, k)} \/ rows[n] = {LegacyRow(c, k)}
    BY <2>3, InitialRow, Zenon
  <2> QED
    <3> HIDE DEF S
    <3>1. ASSUME NEW c \in Client, NEW k \in SecretKind, rows[n] = {NewRow(c, k)}
          PROVE  Secret(n) \in S
      BY <2>2, <3>1, NewRowIs, Zenon
    <3>2. ASSUME NEW c \in Client, NEW k \in SecretKind, rows[n] = {LegacyRow(c, k)}
          PROVE  Secret(n) \in S
      BY <2>2, <3>2, LegacyRowIs, Zenon
    <3> QED
      BY <2>1, <2>4, <3>1, <3>2, Zenon
<1> HIDE DEF S
<1>2. Secrets \in [Name -> S]
  BY <1>1, Zenon DEF Secrets
<1>3. AllAsked = [c \in Client |-> {}]
  BY IdleIs, AskedIs, Zenon DEF Init, AllAsked
<1>4. (backend # "aws") \in BOOLEAN
  BY Zenon
<1>5. [c \in Client |-> Asked(calls[c])] = [c \in Client |-> {}]
  BY <1>3, Zenon DEF AllAsked
<1>6. [n \in Name |-> {Shown(r) : r \in Visible(n)}] \in [Name -> S]
  BY <1>2, Zenon DEF Secrets, Secret
<1> QED
  BY <1>4, <1>5, <1>6, SMTT(40) DEF S, Contract!Init, Shown

(* The three backends implement the SecretStore trait's promise, batches   *)
(* of the SQL stores in one piece, but for the one write of Secrets        *)
(* Manager that follows a stale read.                                      *)
THEOREM StoresKeepPromise == Spec => StoreContractHeld
<1>1. TypeOK /\ StoresInv /\ [Next]_vars => [Promised]_vars
  BY PromiseStep, Zenon
<1>2. Init => Contract!Init
  BY PromiseInit, Zenon
<1> QED
  BY <1>1, <1>2, StoresInvariant, PTL DEF Spec, StoreContractHeld, Promised
=============================================================================
