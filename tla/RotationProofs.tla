--------------------------- MODULE RotationProofs ---------------------------
(***************************************************************************)
(* Rotation of the data encryption key, for any number of secrets, keys    *)
(* and connections, whichever of them store, delete and rotate: plaintexts *)
(* survive; and as long as no rotation overlapped a store_secret or        *)
(* another rotation, a finished rotation has reached every secret, and     *)
(* memory, key source and store agree on the key unless a rotation was     *)
(* torn.                                                                   *)
(***************************************************************************)
EXTENDS Rotation, TLAPS

Sealed == {Seal(a, v, k) : a \in CipherAlgorithms, v \in Value, k \in Key}

KeyOf(sealed) == sealed.ciphertext.key

TextOf(sealed) == sealed.ciphertext.value

(* Cipher: what is sealed opens with its key and no other, whichever       *)
(* algorithm sealed it.                                                    *)
LEMMA Sealing ==
    ASSUME NEW a \in CipherAlgorithms, NEW v \in Value, NEW k \in Key
    PROVE  /\ Seal(a, v, k) \in Sealed
           /\ KeyOf(Seal(a, v, k)) = k /\ TextOf(Seal(a, v, k)) = v
           /\ \A x : Decrypt(Seal(a, v, k), x) # {} <=> x = k
<1>1. Seal(a, v, k) \in Sealed
  BY DEF Sealed
<1>2. CASE a = "Aes256Gcm"
  BY <1>1, <1>2, Zenon DEF Seal, AesGcm, XChaCha, KeyOf, TextOf, Decrypt, OpenAesGcm, OpenXChaCha
<1>3. CASE a = "XChaCha20Poly1305"
  BY <1>1, <1>3, Zenon DEF Seal, AesGcm, XChaCha, KeyOf, TextOf, Decrypt, OpenAesGcm, OpenXChaCha
<1> QED
  BY <1>2, <1>3, Zenon DEF CipherAlgorithms

(* The same, of anything sealed.                                           *)
LEMMA Opening ==
    ASSUME NEW s \in Sealed
    PROVE  /\ KeyOf(s) \in Key /\ TextOf(s) \in Value
           /\ \A x : Decrypt(s, x) # {} <=> x = KeyOf(s)
<1>1. PICK a \in CipherAlgorithms, v \in Value, k \in Key : s = Seal(a, v, k)
  BY DEF Sealed
<1> QED
  BY <1>1, Sealing

-----------------------------------------------------------------------------
Updates == UNION {[D -> Sealed] : D \in SUBSET Name}

Reads == [pc : {"read"}, old : Key, new : Key, todo : SUBSET Name, updates : Updates]

Calls == [pc : {"idle"}]
    \cup [pc : {"put"}, name : Name, value : Value, sealed : Sealed]
    \cup Reads
    \cup [pc : {"rotate_key", "write_blob", "swap"}, new : Key]

\* typed state; secrets are sealed under keys that were drawn
StateInv ==
    /\ config \in [store : Backend, source : Source, algorithm : CipherAlgorithms]
    /\ DOMAIN secrets \subseteq Name
    /\ \A n \in DOMAIN secrets : secrets[n] \in Sealed /\ KeyOf(secrets[n]) \in drawn
    /\ \A k, l \in persisted : k = l
    /\ \A k, l \in dek : k = l
    /\ persisted \subseteq drawn \cup {Damaged}
    /\ dek \subseteq drawn
    /\ drawn \subseteq Key
    /\ torn \in BOOLEAN /\ crossed \in BOOLEAN
    /\ restored \subseteq Name
    /\ written \in [Name -> SUBSET Value]
    /\ calls \in [Conn -> Calls]
    /\ persisted = {} => dek = {} /\ DOMAIN secrets = {}

(* What a call carries, whatever runs beside it: sealed under drawn keys,  *)
(* and what a rotation has read is the plaintext last stored, unless the   *)
(* name was deleted and stored again.                                      *)
CarriesOK(k) ==
    /\ k.pc = "put" => KeyOf(k.sealed) \in drawn /\ TextOf(k.sealed) = k.value
    /\ k.pc = "read" =>
         \A n \in DOMAIN k.updates :
            /\ KeyOf(k.updates[n]) \in drawn
            /\ n \in DOMAIN secrets \ restored => written[n] = {TextOf(k.updates[n])}
    /\ k.pc \in {"read", "rotate_key", "write_blob", "swap"} => k.new \in drawn
    /\ k.pc # "idle" => persisted # {}

TextInv ==
    StateInv /\ PlaintextKept /\ \A c \in Conn : CarriesOK(calls[c])

\* every secret is under the key
Under(k) == \A n \in DOMAIN secrets : KeyOf(secrets[n]) = k

(* What a call knows across its awaits as long as no rotation was crossed. *)
(* One that reads has seen, or has still to see, every secret not yet      *)
(* under the new key; from the end of batch_update on all of them are.     *)
CallOK(k) ==
    /\ k.pc = "put" => KeyOf(k.sealed) \in dek
    /\ k.pc = "read" =>
         /\ dek = {k.old} /\ k.old # k.new
         /\ \A n \in DOMAIN k.updates : KeyOf(k.updates[n]) = k.new
         /\ \A n \in DOMAIN secrets :
              n \in k.todo \cup DOMAIN k.updates \/ KeyOf(secrets[n]) = k.new
         /\ k.todo # {} \/ config.store = "sql" =>
              \A n \in DOMAIN secrets : KeyOf(secrets[n]) # k.new
         /\ ~torn => /\ persisted = dek
                     /\ \A n \in DOMAIN secrets : KeyOf(secrets[n]) \in {k.old, k.new}
    /\ k.pc = "rotate_key" => dek # {} /\ Under(k.new) /\ (~torn => persisted = dek)
    /\ k.pc = "write_blob" =>
         persisted = {Damaged} /\ Under(k.new) /\ (dek = {} => DOMAIN secrets = {})
    /\ k.pc = "swap" => persisted = {k.new} /\ Under(k.new)

\* a rotation, or an initialize, is the only call in flight
BusyInv ==
    \A c, d \in Conn : Rotating(c) /\ calls[d].pc # "idle" => d = c

\* what holds between rotations
RestInv ==
    ~torn /\ (\A c \in Conn : calls[c].pc \in {"idle", "put"}) =>
        /\ \A n \in DOMAIN secrets : KeyOf(secrets[n]) \in persisted
        /\ dek \in {{}, persisted}

AloneInv ==
    StateInv /\ BusyInv /\ RestInv /\ \A c \in Conn : CallOK(calls[c])

RotationInv == TextInv /\ (~crossed => AloneInv)

-----------------------------------------------------------------------------
(* The fields of a call.                                                   *)
LEMMA CallShape ==
    ASSUME NEW k \in Calls
    PROVE  /\ k.pc \in {"idle", "put", "read", "rotate_key", "write_blob", "swap"}
           /\ k.pc = "put" => k.name \in Name /\ k.value \in Value /\ k.sealed \in Sealed
           /\ k.pc = "read" =>
                /\ k.old \in Key /\ k.new \in Key /\ k.todo \subseteq Name
                /\ k.updates \in Updates /\ k \in Reads
           /\ k.pc \in {"rotate_key", "write_blob", "swap"} => k.new \in Key
BY Zenon DEF Calls, Reads

(* The calls that are made.                                                *)
LEMMA CallsBuilt ==
    /\ [pc |-> "idle"] \in Calls
    /\ \A n \in Name, v \in Value, s \in Sealed :
         [pc |-> "put", name |-> n, value |-> v, sealed |-> s] \in Calls
    /\ \A o, k \in Key, t \in SUBSET Name, u \in Updates :
         [pc |-> "read", old |-> o, new |-> k, todo |-> t, updates |-> u] \in Calls
    /\ \A p \in {"rotate_key", "write_blob", "swap"}, k \in Key :
         [pc |-> p, new |-> k] \in Calls
BY Zenon DEF Calls, Reads

(* What a step does to the calls.                                          *)
LEMMA CallsAfter ==
    ASSUME StateInv, NEW c \in Conn, NEW k, Goto(c, k)
    PROVE  \A x \in Conn : calls'[x] = IF x = c THEN k ELSE calls[x]
BY Zenon DEF StateInv, Goto

(* A returning call goes to idle.                                          *)
LEMMA ReturnIsGoto ==
    ASSUME NEW c \in Conn, Return(c)
    PROVE  \E k \in Calls : Goto(c, k) /\ k.pc = "idle"
<1>1. Goto(c, [pc |-> "idle"])
  BY Zenon DEF Return, Goto
<1> QED
  BY <1>1, CallsBuilt, Zenon

(* A call that goes on with its new key.                                   *)
LEMMA GoesOn ==
    ASSUME NEW c \in Conn, NEW p, NEW key, Goto(c, [pc |-> p, new |-> key])
    PROVE  \E k : Goto(c, k) /\ k.pc = p /\ k.new = key
<1> DEFINE k == [pc |-> p, new |-> key]
<1>1. k.pc = p /\ k.new = key /\ Goto(c, k)
  OBVIOUS
<1> HIDE DEF k
<1> QED
  BY <1>1, Zenon

-----------------------------------------------------------------------------
(* Plaintexts, whichever calls overlap.                                    *)

(* What the invariant says of one call.                                    *)
LEMMA CallCarries ==
    ASSUME TextInv, NEW c \in Conn
    PROVE  CarriesOK(calls[c]) /\ calls[c] \in Calls
<1>1. calls \in [Conn -> Calls]
  BY Zenon DEF TextInv, StateInv
<1>2. CarriesOK(calls[c])
  BY Zenon DEF TextInv
<1> QED
  BY <1>1, <1>2, Zenon

(* When a call moves, what the others carry stays true if no name they     *)
(* read was stored again.                                                  *)
LEMMA CarriesFrame ==
    ASSUME TextInv, NEW c \in Conn, NEW k \in Calls, Goto(c, k), CarriesOK(k)',
           drawn \subseteq drawn', persisted # {} => persisted' # {},
           \A x \in Conn : \A n :
              /\ calls[x].pc = "read" /\ n \in DOMAIN calls[x].updates
              /\ n \in DOMAIN secrets' \ restored'
              => n \in DOMAIN secrets \ restored /\ written'[n] = written[n]
    PROVE  calls' \in [Conn -> Calls] /\ \A x \in Conn : CarriesOK(calls[x])'
<1>1. \A x \in Conn : calls'[x] = IF x = c THEN k ELSE calls[x]
  BY CallsAfter, Zenon DEF TextInv
<1>2. calls' \in [Conn -> Calls]
  BY Zenon DEF TextInv, StateInv, Goto
<1>3. ASSUME NEW x \in Conn PROVE CarriesOK(calls[x])'
  <2>1. CASE x = c
    <3>1. calls'[x] = k
      BY <1>1, <2>1, Zenon
    <3> QED
      BY <3>1, Zenon DEF CarriesOK
  <2>2. CASE x # c
    <3>1. PICK j : j = calls[x] /\ j = calls'[x] /\ CarriesOK(j)
      BY <1>1, <2>2, CallCarries, Zenon
    <3>2. CarriesOK(j)'
      BY <3>1, ZenonT(40) DEF CarriesOK
    <3> QED
      BY <3>1, <3>2, Zenon DEF CarriesOK
  <2> QED
    BY <2>1, <2>2, Zenon
<1> QED
  BY <1>2, <1>3, Zenon

(* ... in particular if no row appears and no history changes.             *)
LEMMA CarriesStay ==
    ASSUME TextInv, NEW c \in Conn, NEW k \in Calls, Goto(c, k), CarriesOK(k)',
           drawn \subseteq drawn', persisted # {} => persisted' # {},
           DOMAIN secrets' = DOMAIN secrets, UNCHANGED <<written, restored>>
    PROVE  calls' \in [Conn -> Calls] /\ \A x \in Conn : CarriesOK(calls[x])'
BY CarriesFrame, Zenon

(* A call that returns and leaves the store alone.                         *)
LEMMA TextReturns ==
    ASSUME TextInv, NEW c \in Conn, Return(c), torn' \in BOOLEAN,
           UNCHANGED <<config, secrets, persisted, dek, drawn, crossed, written, restored>>
    PROVE  TextInv'
<1>1. PICK k \in Calls : Goto(c, k) /\ k.pc = "idle"
  BY ReturnIsGoto, Zenon
<1>2. CarriesOK(k)'
  BY <1>1, Zenon DEF CarriesOK
<1>3. calls' \in [Conn -> Calls] /\ \A x \in Conn : CarriesOK(calls[x])'
  BY <1>1, <1>2, CarriesStay, Zenon
<1>4. StateInv' /\ PlaintextKept'
  BY <1>3, Zenon DEF TextInv, StateInv, PlaintextKept
<1> QED
  BY <1>3, <1>4, Zenon DEF TextInv

(* What a failing rotation reports as torn.                                *)
LEMMA TornType ==
    ASSUME NEW c \in Conn, torn' = (torn \/ HalfRotated(c))
    PROVE  torn' \in BOOLEAN
BY Zenon DEF HalfRotated

(* Steps of initialize, and a restart, which leave no call in flight.      *)
LEMMA TextQuiet ==
    ASSUME TextInv, LoadDek \/ CreateInKeychain \/ Restart
    PROVE  TextInv'
<1>1. /\ UNCHANGED <<secrets, crossed, written, restored>>
      /\ calls' \in [Conn -> Calls] /\ \A x \in Conn : calls'[x].pc = "idle"
  <2>1. CASE Restart
    BY <2>1, CallsBuilt, Zenon DEF Restart
  <2>2. CASE LoadDek \/ CreateInKeychain
    BY <2>2, Zenon DEF LoadDek, CreateInKeychain, Quiet, Idle, TextInv, StateInv
  <2> QED
    BY <2>1, <2>2, Zenon
<1>2. \A x \in Conn : CarriesOK(calls[x])'
  BY <1>1, Zenon DEF CarriesOK
<1>3. PlaintextKept'
  BY <1>1, Zenon DEF TextInv, PlaintextKept
<1>4. StateInv'
  <2>1. CASE LoadDek
    <3>1. /\ dek' = persisted /\ UNCHANGED <<config, persisted, drawn, torn>>
          /\ persisted # {Damaged}
      BY <2>1, Zenon DEF LoadDek
    <3>2. persisted \subseteq drawn
      BY <3>1 DEF TextInv, StateInv
    <3> QED
      BY <1>1, <3>1, <3>2, Zenon DEF TextInv, StateInv
  <2>2. CASE CreateInKeychain
    BY <1>1, <2>2, Zenon DEF CreateInKeychain, TextInv, StateInv
  <2>3. CASE Restart
    <3>1. PICK a \in CipherAlgorithms : config' = [config EXCEPT !.algorithm = a]
      BY <2>3, Zenon DEF Restart
    <3>2. config' \in [store : Backend, source : Source, algorithm : CipherAlgorithms]
      BY <3>1, Zenon DEF TextInv, StateInv
    <3>3. /\ UNCHANGED <<persisted, drawn>> /\ dek' = {}
          /\ torn' = (torn \/ \E x \in Conn : HalfRotated(x))
      BY <2>3, Zenon DEF Restart
    <3>4. torn' \in BOOLEAN
      BY <3>3, Zenon
    <3> QED
      BY <1>1, <3>2, <3>3, <3>4, Zenon DEF TextInv, StateInv
  <2> QED
    BY <2>1, <2>2, <2>3, Zenon
<1> QED
  BY <1>1, <1>2, <1>3, <1>4, Zenon DEF TextInv

(* initialize with KMS.                                                    *)
LEMMA TextCreateWithKms ==
    ASSUME TextInv, NEW c \in Conn, CreateWithKms(c)
    PROVE  TextInv'
<1>1. PICK key \in Key \ drawn :
        drawn' = drawn \cup {key} /\ Goto(c, [pc |-> "write_blob", new |-> key])
  BY Zenon DEF CreateWithKms
<1>2. PICK k \in Calls : Goto(c, k) /\ k.pc = "write_blob" /\ k.new = key
  BY <1>1, CallsBuilt, Zenon
<1>3. /\ UNCHANGED <<config, secrets, dek, torn, crossed, written, restored>>
      /\ persisted' = {Damaged}
  BY Zenon DEF CreateWithKms
<1>4. CarriesOK(k)'
  BY <1>1, <1>2, <1>3, Zenon DEF CarriesOK
<1>5. calls' \in [Conn -> Calls] /\ \A x \in Conn : CarriesOK(calls[x])'
  BY <1>1, <1>2, <1>3, <1>4, CarriesStay, Zenon
<1>6. StateInv' /\ PlaintextKept'
  BY <1>1, <1>3, <1>5, Zenon DEF TextInv, StateInv, PlaintextKept
<1> QED
  BY <1>5, <1>6, Zenon DEF TextInv

(* store_secret up to the put: what it seals.                              *)
LEMMA EncryptMoves ==
    ASSUME StateInv, NEW c \in Conn, Encrypt(c)
    PROVE  /\ UNCHANGED <<config, secrets, persisted, dek, drawn, torn, written, restored>>
           /\ dek # {} /\ crossed' = (crossed \/ \E d \in Conn : Rotating(d))
           /\ \E k \in Calls : /\ Goto(c, k) /\ k.pc = "put" /\ KeyOf(k.sealed) \in dek
                               /\ TextOf(k.sealed) = k.value
<1>1. PICK n \in Name, v \in Value, key \in dek :
        Goto(c, [pc |-> "put", name |-> n, value |-> v,
                 sealed |-> Seal(config.algorithm, v, key)])
  BY Zenon DEF Encrypt
<1>2. /\ UNCHANGED <<config, secrets, persisted, dek, drawn, torn, written, restored>>
      /\ dek # {} /\ crossed' = (crossed \/ \E d \in Conn : Rotating(d))
  BY <1>1, Zenon DEF Encrypt
<1>3. PICK z : z = Seal(config.algorithm, v, key)
  BY Zenon
<1>4. key \in Key /\ config.algorithm \in CipherAlgorithms
  BY Zenon DEF StateInv
<1>5. z \in Sealed /\ KeyOf(z) = key /\ TextOf(z) = v
  BY <1>3, <1>4, Sealing, Zenon
<1>6. PICK k \in Calls : Goto(c, k) /\ k.pc = "put" /\ k.value = v /\ k.sealed = z
  BY <1>1, <1>3, <1>5, CallsBuilt, Zenon
<1> QED
  BY <1>2, <1>5, <1>6, Zenon

LEMMA TextEncrypt ==
    ASSUME TextInv, NEW c \in Conn, Encrypt(c)
    PROVE  TextInv'
<1>1. /\ UNCHANGED <<config, secrets, persisted, dek, drawn, torn, written, restored>>
      /\ dek # {} /\ crossed' = (crossed \/ \E d \in Conn : Rotating(d))
  BY EncryptMoves, Zenon DEF TextInv
<1>2. PICK k \in Calls : /\ Goto(c, k) /\ k.pc = "put" /\ KeyOf(k.sealed) \in dek
                         /\ TextOf(k.sealed) = k.value
  BY EncryptMoves, Zenon DEF TextInv
<1>3. persisted # {} /\ dek \subseteq drawn
  BY <1>1, Zenon DEF TextInv, StateInv
<1>4. CarriesOK(k)'
  BY <1>1, <1>2, <1>3, Zenon DEF CarriesOK
<1>5. calls' \in [Conn -> Calls] /\ \A x \in Conn : CarriesOK(calls[x])'
  BY <1>1, <1>2, <1>4, CarriesStay, Zenon
<1>6. crossed' \in BOOLEAN
  BY <1>1, Zenon
<1>7. StateInv' /\ PlaintextKept'
  BY <1>1, <1>5, <1>6, Zenon DEF TextInv, StateInv, PlaintextKept
<1> QED
  BY <1>5, <1>7, Zenon DEF TextInv

(* store_secret, the put of a new name: a rotation that carries the name   *)
(* makes it one that was restored.                                         *)
LEMMA TextPut ==
    ASSUME TextInv, NEW c \in Conn, Put(c)
    PROVE  TextInv'
<1>1. /\ calls[c].pc = "put" /\ Return(c)
      /\ UNCHANGED <<config, persisted, dek, drawn, torn, crossed>>
  BY Zenon DEF Put
<1>2. PICK n, v, z : n = calls[c].name /\ v = calls[c].value /\ z = calls[c].sealed
  BY Zenon
<1>3. /\ n \in Name /\ v \in Value /\ z \in Sealed
      /\ KeyOf(z) \in drawn /\ TextOf(z) = v /\ persisted # {}
  BY <1>1, <1>2, CallShape, CallCarries, Zenon DEF CarriesOK
<1>4. CASE n \in DOMAIN secrets
  <2>1. UNCHANGED <<secrets, written, restored>>
    BY <1>2, <1>4, Zenon DEF Put
  <2>2. torn' \in BOOLEAN
    BY <1>1, Zenon DEF TextInv, StateInv
  <2> QED
    BY <1>1, <2>1, <2>2, TextReturns, Zenon
<1>5. CASE n \notin DOMAIN secrets
  <2>1. /\ secrets' = [m \in DOMAIN secrets \cup {n} |-> IF m = n THEN z ELSE secrets[m]]
        /\ written' = [written EXCEPT ![n] = {v}]
        /\ restored' = IF Carried(n) THEN restored \cup {n} ELSE restored
    BY <1>2, <1>5, Zenon DEF Put
  <2>2. /\ DOMAIN secrets' = DOMAIN secrets \cup {n}
        /\ secrets'[n] = z
        /\ \A m \in DOMAIN secrets : secrets'[m] = secrets[m]
    BY <1>5, <2>1, Zenon
  <2>3. /\ written'[n] = {v} /\ written' \in [Name -> SUBSET Value]
        /\ \A m \in DOMAIN secrets : written'[m] = written[m]
    BY <1>3, <1>5, <2>1, Zenon DEF TextInv, StateInv
  <2>4. restored \subseteq restored' /\ restored' \subseteq Name
    BY <1>3, <2>1, Zenon DEF TextInv, StateInv
  <2>5. PICK k \in Calls : Goto(c, k) /\ k.pc = "idle"
    BY <1>1, ReturnIsGoto, Zenon
  <2>6. CarriesOK(k)'
    BY <2>5, Zenon DEF CarriesOK
  <2>7. ASSUME NEW x \in Conn, NEW m, calls[x].pc = "read", m \in DOMAIN calls[x].updates,
               m \in DOMAIN secrets' \ restored'
        PROVE  m \in DOMAIN secrets \ restored /\ written'[m] = written[m]
    <3>1. m # n
      BY <2>1, <2>7, Zenon DEF Carried
    <3> QED
      BY <2>2, <2>3, <2>4, <2>7, <3>1, Zenon
  <2>8. calls' \in [Conn -> Calls] /\ \A x \in Conn : CarriesOK(calls[x])'
    BY <1>1, <2>5, <2>6, <2>7, CarriesFrame, Zenon
  <2>9. StateInv'
    BY <1>1, <1>3, <2>2, <2>3, <2>4, <2>8, Zenon DEF TextInv, StateInv
  <2>10. PlaintextKept'
    BY <1>3, <2>2, <2>3, <2>4, Zenon DEF TextInv, PlaintextKept, TextOf
  <2> QED
    BY <2>8, <2>9, <2>10, Zenon DEF TextInv
<1> QED
  BY <1>4, <1>5, Zenon

(* delete_secret.                                                          *)
LEMMA DeleteRows ==
    ASSUME NEW c \in Conn, Delete(c)
    PROVE  /\ UNCHANGED <<config, persisted, dek, calls, drawn, torn, crossed>> /\ dek # {}
           /\ DOMAIN secrets' \subseteq DOMAIN secrets
           /\ \A m \in DOMAIN secrets' : secrets'[m] = secrets[m]
<1>1. PICK n \in DOMAIN secrets : secrets' = Restrict(secrets, DOMAIN secrets \ {n})
  BY Zenon DEF Delete
<1>2. UNCHANGED <<config, persisted, dek, calls, drawn, torn, crossed>> /\ dek # {}
  BY Zenon DEF Delete
<1>3. /\ DOMAIN secrets' \subseteq DOMAIN secrets
      /\ \A m \in DOMAIN secrets' : secrets'[m] = secrets[m]
  BY <1>1, Zenon DEF Restrict
<1> QED
  BY <1>2, <1>3, Zenon

LEMMA TextDelete ==
    ASSUME TextInv, NEW c \in Conn, Delete(c)
    PROVE  TextInv'
<1>1. PICK n \in DOMAIN secrets :
        /\ secrets' = Restrict(secrets, DOMAIN secrets \ {n})
        /\ written' = [written EXCEPT ![n] = {}]
        /\ restored' = restored \ {n}
  BY Zenon DEF Delete
<1>2. UNCHANGED <<config, persisted, dek, calls, drawn, torn, crossed>>
  BY Zenon DEF Delete
<1>3. /\ DOMAIN secrets' = DOMAIN secrets \ {n}
      /\ \A m \in DOMAIN secrets' : m \in DOMAIN secrets /\ secrets'[m] = secrets[m]
  BY <1>1, Zenon DEF Restrict
<1>4. /\ written' \in [Name -> SUBSET Value] /\ restored' \subseteq Name
      /\ \A m \in DOMAIN secrets' : written'[m] = written[m]
      /\ \A m \in DOMAIN secrets' \ restored' : m \in DOMAIN secrets \ restored
  BY <1>1, <1>3, Zenon DEF TextInv, StateInv
<1>5. StateInv'
  BY <1>2, <1>3, <1>4, Zenon DEF TextInv, StateInv
<1>6. PlaintextKept'
  BY <1>3, <1>4, Zenon DEF TextInv, PlaintextKept
<1>7. ASSUME NEW x \in Conn PROVE CarriesOK(calls[x])'
  <2>1. PICK k : k = calls[x] /\ k = calls'[x] /\ CarriesOK(k)
    BY <1>2, CallCarries, Zenon
  <2>2. CarriesOK(k)'
    BY <1>2, <1>4, <2>1, ZenonT(40) DEF CarriesOK
  <2> QED
    BY <2>1, <2>2, Zenon DEF CarriesOK
<1> QED
  BY <1>5, <1>6, <1>7, Zenon DEF TextInv

(* rotate_dek draws a new key and lists the secrets.                       *)
LEMMA BeginRotateMoves ==
    ASSUME StateInv, NEW c \in Conn, BeginRotate(c)
    PROVE  /\ UNCHANGED <<config, secrets, persisted, dek, torn, written, restored>>
           /\ dek # {} /\ crossed' = (crossed \/ ~Quiet)
           /\ \E o \in dek, key \in Key \ drawn : \E k \in Calls :
                /\ drawn' = drawn \cup {key} /\ o # key
                /\ Goto(c, k) /\ k.pc = "read" /\ k.old = o /\ k.new = key
                /\ k.todo = DOMAIN secrets /\ DOMAIN k.updates = {}
<1> DEFINE none == [n \in {} |-> {}]
<1>1. PICK o \in dek, key \in Key \ drawn :
        /\ drawn' = drawn \cup {key}
        /\ Goto(c, [pc |-> "read", old |-> o, new |-> key, todo |-> DOMAIN secrets,
                    updates |-> none])
  BY Zenon DEF BeginRotate
<1>2. /\ UNCHANGED <<config, secrets, persisted, dek, torn, written, restored>>
      /\ dek # {} /\ crossed' = (crossed \/ ~Quiet)
  BY <1>1, Zenon DEF BeginRotate
<1>3. none \in Updates /\ DOMAIN none = {}
  <2>1. none \in [{} -> Sealed] /\ {} \in SUBSET Name /\ DOMAIN none = {}
    OBVIOUS
  <2> HIDE DEF none
  <2> QED
    BY <2>1, Zenon DEF Updates
<1>4. o \in Key /\ o # key /\ DOMAIN secrets \in SUBSET Name
  <2>1. dek \subseteq drawn /\ drawn \subseteq Key /\ DOMAIN secrets \subseteq Name
    BY Zenon DEF StateInv
  <2> QED
    BY <1>1, <2>1, Zenon
<1> HIDE DEF none
<1>5. PICK k \in Calls : /\ Goto(c, k) /\ k.pc = "read" /\ k.old = o /\ k.new = key
                         /\ k.todo = DOMAIN secrets /\ DOMAIN k.updates = {}
  <2>1. PICK k : k = [pc |-> "read", old |-> o, new |-> key, todo |-> DOMAIN secrets,
                      updates |-> none]
    BY ZenonT(40)
  <2>2. k \in Calls
    BY <1>1, <1>3, <1>4, <2>1, CallsBuilt, Zenon
  <2> QED
    BY <1>1, <1>3, <2>1, <2>2, Zenon
<1> QED
  BY <1>1, <1>2, <1>4, <1>5, Zenon

LEMMA TextBeginRotate ==
    ASSUME TextInv, NEW c \in Conn, BeginRotate(c)
    PROVE  TextInv'
<1>1. /\ UNCHANGED <<config, secrets, persisted, dek, torn, written, restored>>
      /\ dek # {} /\ crossed' = (crossed \/ ~Quiet)
  BY BeginRotateMoves, Zenon DEF TextInv
<1>2. PICK o \in dek, key \in Key \ drawn : \E k \in Calls :
        /\ drawn' = drawn \cup {key} /\ o # key
        /\ Goto(c, k) /\ k.pc = "read" /\ k.old = o /\ k.new = key
        /\ k.todo = DOMAIN secrets /\ DOMAIN k.updates = {}
  BY BeginRotateMoves, Zenon DEF TextInv
<1>3. PICK k \in Calls : Goto(c, k) /\ k.pc = "read" /\ k.new = key /\ DOMAIN k.updates = {}
  BY <1>2, Zenon
<1>4. drawn' = drawn \cup {key} /\ persisted # {} /\ crossed' \in BOOLEAN
  BY <1>1, <1>2, Zenon DEF TextInv, StateInv
<1>5. CarriesOK(k)'
  BY <1>1, <1>3, <1>4, Zenon DEF CarriesOK
<1>6. calls' \in [Conn -> Calls] /\ \A x \in Conn : CarriesOK(calls[x])'
  BY <1>1, <1>3, <1>4, <1>5, CarriesStay, Zenon
<1>7. StateInv' /\ PlaintextKept'
  BY <1>1, <1>4, <1>6, Zenon DEF TextInv, StateInv, PlaintextKept
<1> QED
  BY <1>6, <1>7, Zenon DEF TextInv

(* rotate_dek reads one secret and seals its plaintext again.              *)
LEMMA ReadOneMoves ==
    ASSUME StateInv, NEW c \in Conn, ReadOne(c), ~Return(c),
           NEW k, k = calls[c]
    PROVE  \E n \in k.todo \cap DOMAIN secrets : \E j \in Calls :
             /\ Goto(c, j) /\ j.pc = "read"
             /\ j.old = k.old /\ j.new = k.new
             /\ j.todo = k.todo \ {n}
             /\ DOMAIN j.updates = DOMAIN k.updates \cup {n}
             /\ KeyOf(j.updates[n]) = j.new /\ TextOf(j.updates[n]) = TextOf(secrets[n])
             /\ \A m \in DOMAIN j.updates : m # n => j.updates[m] = k.updates[m]
<1>1. k = calls[c] /\ k.pc = "read" /\ k \in Calls
  BY Zenon DEF ReadOne, StateInv
<1>2. PICK n \in k.todo :
         IF n \in DOMAIN secrets /\ Decrypt(secrets[n], k.old) # {}
         THEN Goto(c, [k EXCEPT !.todo = @ \ {n},
                                !.updates = [m \in DOMAIN @ \cup {n} |->
                                               IF m = n THEN Rekeyed(c, n) ELSE @[m]]])
         ELSE Return(c)
  BY <1>1, ZenonT(40) DEF ReadOne
<1>3. /\ n \in DOMAIN secrets /\ Decrypt(secrets[n], k.old) # {}
      /\ k.old \in Key /\ k.new \in Key /\ k.todo \subseteq Name /\ k.updates \in Updates
      /\ k \in Reads
  BY <1>1, <1>2, CallShape, Zenon
<1>4. PICK z : z = Rekeyed(c, n)
  BY Zenon
<1>5. z \in Sealed /\ KeyOf(z) = k.new /\ TextOf(z) = TextOf(secrets[n])
  <2>1. secrets[n] \in Sealed /\ config.algorithm \in CipherAlgorithms
    BY <1>3, Zenon DEF StateInv
  <2>2. TextOf(secrets[n]) \in Value
    BY <2>1, Opening, Zenon
  <2>3. z = Seal(config.algorithm, TextOf(secrets[n]), k.new)
    BY <1>1, <1>4, Zenon DEF Rekeyed, TextOf
  <2> QED
    BY <1>3, <2>1, <2>2, <2>3, Sealing
<1>6. PICK u : u = [m \in DOMAIN k.updates \cup {n} |-> IF m = n THEN z ELSE k.updates[m]]
  BY Zenon
<1>7. u \in Updates
  <2>1. PICK D \in SUBSET Name : k.updates \in [D -> Sealed]
    BY <1>3, Zenon DEF Updates
  <2>2. u \in [D \cup {n} -> Sealed] /\ D \cup {n} \in SUBSET Name
    BY <1>2, <1>3, <1>5, <1>6, <2>1, Zenon
  <2> QED
    BY <2>2, Zenon DEF Updates
<1>8. PICK j \in Calls : /\ Goto(c, j) /\ j.pc = "read" /\ j.old = k.old /\ j.new = k.new
                         /\ j.todo = k.todo \ {n} /\ j.updates = u
  <2>1. PICK j : j = [k EXCEPT !.todo = k.todo \ {n}, !.updates = u]
    BY Zenon
  <2>2. [m \in DOMAIN k.updates \cup {n} |->
           IF m = n THEN Rekeyed(c, n) ELSE k.updates[m]] = u
    BY <1>4, <1>6, Zenon
  <2>3. Goto(c, j)
    BY <1>2, <1>3, <2>1, <2>2, Zenon
  <2>4. /\ j \in Reads /\ j.pc = "read" /\ j.old = k.old /\ j.new = k.new
        /\ j.todo = k.todo \ {n} /\ j.updates = u
    BY <1>3, <1>7, <2>1, Zenon DEF Reads
  <2> QED
    BY <2>3, <2>4, Zenon DEF Calls
<1>9. /\ DOMAIN u = DOMAIN k.updates \cup {n} /\ u[n] = z
      /\ \A m \in DOMAIN u : m # n => u[m] = k.updates[m]
  BY <1>6, Zenon
<1>10. /\ Goto(c, j) /\ j.pc = "read"
       /\ j.old = k.old /\ j.new = k.new
       /\ j.todo = k.todo \ {n}
       /\ DOMAIN j.updates = DOMAIN k.updates \cup {n}
       /\ KeyOf(j.updates[n]) = j.new /\ TextOf(j.updates[n]) = TextOf(secrets[n])
       /\ \A m \in DOMAIN j.updates : m # n => j.updates[m] = k.updates[m]
  BY <1>5, <1>8, <1>9, Zenon
<1>11. n \in k.todo \cap DOMAIN secrets
  BY <1>2, <1>3, Zenon
<1> QED
  BY <1>10, <1>11, Zenon

LEMMA TextReadOne ==
    ASSUME TextInv, NEW c \in Conn, ReadOne(c)
    PROVE  TextInv'
<1>1. /\ UNCHANGED <<config, secrets, persisted, dek, drawn, torn, crossed>>
      /\ UNCHANGED <<written, restored>> /\ calls[c].pc = "read"
  BY Zenon DEF ReadOne
<1>2. CASE Return(c)
  <2>1. torn' \in BOOLEAN
    BY <1>1, Zenon DEF TextInv, StateInv
  <2> QED
    BY <1>1, <1>2, <2>1, TextReturns, Zenon
<1>3. CASE ~Return(c)
  <2>1. PICK k : k = calls[c] /\ k.pc = "read" /\ CarriesOK(k)
    BY <1>1, CallCarries, Zenon
  <2>2. PICK n \in k.todo \cap DOMAIN secrets : \E j \in Calls :
          /\ Goto(c, j) /\ j.pc = "read"
          /\ j.old = k.old /\ j.new = k.new
          /\ j.todo = k.todo \ {n}
          /\ DOMAIN j.updates = DOMAIN k.updates \cup {n}
          /\ KeyOf(j.updates[n]) = j.new /\ TextOf(j.updates[n]) = TextOf(secrets[n])
          /\ \A m \in DOMAIN j.updates : m # n => j.updates[m] = k.updates[m]
    BY <1>3, <2>1, ReadOneMoves, SMTT(30) DEF TextInv
  <2>3. PICK j \in Calls :
          /\ Goto(c, j) /\ j.pc = "read" /\ j.new = k.new
          /\ DOMAIN j.updates = DOMAIN k.updates \cup {n}
          /\ KeyOf(j.updates[n]) = j.new /\ TextOf(j.updates[n]) = TextOf(secrets[n])
          /\ \A m \in DOMAIN j.updates : m # n => j.updates[m] = k.updates[m]
    BY <2>2, Zenon
  <2>4. n \notin restored => written[n] = {TextOf(secrets[n])}
    BY Zenon DEF TextInv, PlaintextKept, TextOf
  <2>5. k.new \in drawn /\ persisted # {}
    BY <2>1, Zenon DEF CarriesOK
  <2>6. ASSUME NEW m \in DOMAIN j.updates
        PROVE  /\ KeyOf(j.updates[m]) \in drawn
               /\ m \in DOMAIN secrets \ restored => written[m] = {TextOf(j.updates[m])}
    <3>1. CASE m = n
      BY <2>3, <2>4, <2>5, <3>1, Zenon
    <3>2. CASE m # n
      BY <2>1, <2>3, <3>2, Zenon DEF CarriesOK
    <3> QED
      BY <3>1, <3>2, Zenon
  <2>7. CarriesOK(j)'
    BY <1>1, <2>3, <2>5, <2>6, ZenonT(40) DEF CarriesOK
  <2>8. calls' \in [Conn -> Calls] /\ \A x \in Conn : CarriesOK(calls[x])'
    BY <1>1, <2>3, <2>7, CarriesStay, Zenon
  <2>9. StateInv' /\ PlaintextKept'
    BY <1>1, <2>8, Zenon DEF TextInv, StateInv, PlaintextKept
  <2> QED
    BY <2>8, <2>9, Zenon DEF TextInv
<1> QED
  BY <1>2, <1>3, Zenon

(* Rows rewritten by name.                                                 *)
LEMMA ResealRows ==
    ASSUME NEW u, secrets' = Reseal(u)
    PROVE  /\ DOMAIN secrets' = DOMAIN secrets
           /\ \A n \in DOMAIN secrets :
                secrets'[n] = IF n \in DOMAIN u THEN u[n] ELSE secrets[n]
BY Zenon DEF Reseal

(* Rewriting rows with what a rotation carries keeps the plaintexts.       *)
LEMMA ResealKeeps ==
    ASSUME TextInv, NEW u, secrets' = Reseal(u),
           UNCHANGED <<config, persisted, dek, drawn, torn, crossed, written, restored>>,
           calls' \in [Conn -> Calls],
           \A n \in DOMAIN u \cap DOMAIN secrets :
              /\ u[n] \in Sealed /\ KeyOf(u[n]) \in drawn
              /\ n \notin restored => written[n] = {TextOf(u[n])}
    PROVE  StateInv' /\ PlaintextKept'
<1>1. /\ DOMAIN secrets' = DOMAIN secrets
      /\ \A n \in DOMAIN secrets :
           secrets'[n] = IF n \in DOMAIN u THEN u[n] ELSE secrets[n]
  BY ResealRows, Zenon
<1>2. StateInv'
  BY <1>1, Zenon DEF TextInv, StateInv
<1>3. PlaintextKept'
  <2> SUFFICES ASSUME NEW n \in DOMAIN secrets \ restored
               PROVE  written[n] = {TextOf(secrets'[n])}
    BY <1>1, Zenon DEF PlaintextKept, TextOf
  <2>1. written[n] = {TextOf(secrets[n])}
    BY Zenon DEF TextInv, PlaintextKept, TextOf
  <2>2. CASE n \in DOMAIN u
    BY <1>1, <2>2, Zenon
  <2>3. CASE n \notin DOMAIN u
    BY <1>1, <2>1, <2>3, Zenon
  <2> QED
    BY <2>2, <2>3, Zenon
<1> QED
  BY <1>2, <1>3, Zenon

(* batch_update in a transaction.                                          *)
LEMMA TextBatchTransaction ==
    ASSUME TextInv, NEW c \in Conn, BatchTransaction(c)
    PROVE  TextInv'
<1>1. /\ UNCHANGED <<config, persisted, dek, drawn, torn, crossed, written, restored>>
      /\ calls[c].pc = "read"
  BY Zenon DEF BatchTransaction
<1>2. PICK k : k = calls[c] /\ k.pc = "read" /\ CarriesOK(k) /\ k \in Calls
  BY <1>1, CallCarries, Zenon
<1>3. CASE Return(c) /\ UNCHANGED secrets
  <2>1. torn' \in BOOLEAN
    BY <1>1, Zenon DEF TextInv, StateInv
  <2> QED
    BY <1>1, <1>3, <2>1, TextReturns, Zenon
<1>4. CASE /\ secrets' = Reseal(k.updates)
           /\ Goto(c, [pc |-> "rotate_key", new |-> k.new])
  <2>1. k.new \in Key /\ \A n \in DOMAIN k.updates : k.updates[n] \in Sealed
    <3>1. k.new \in Key /\ k.updates \in Updates
      BY <1>2, CallShape, Zenon
    <3> QED
      BY <3>1, Zenon DEF Updates
  <2>2. PICK j \in Calls : Goto(c, j) /\ j.pc = "rotate_key" /\ j.new = k.new
    BY <1>4, <2>1, CallsBuilt, Zenon
  <2>3. CarriesOK(j)'
    BY <1>1, <1>2, <2>2, Zenon DEF CarriesOK
  <2>4. calls' \in [Conn -> Calls] /\ \A x \in Conn : CarriesOK(calls[x])'
    BY <1>1, <1>4, <2>2, <2>3, ResealRows, CarriesStay, Zenon
  <2>5. StateInv' /\ PlaintextKept'
    BY <1>1, <1>2, <1>4, <2>1, <2>4, ResealKeeps, Zenon DEF CarriesOK
  <2> QED
    BY <2>4, <2>5, Zenon DEF TextInv
<1> QED
  BY <1>2, <1>3, <1>4, ZenonT(40) DEF BatchTransaction

(* batch_update one secret after the other: it is through, fails, or       *)
(* rewrites one row and has the others still to do.                        *)
LEMMA BatchOneMoves ==
    ASSUME StateInv, NEW c \in Conn, BatchOne(c), NEW k, k = calls[c]
    PROVE  \/ /\ DOMAIN k.updates = {} /\ UNCHANGED <<secrets, torn>>
              /\ Goto(c, [pc |-> "rotate_key", new |-> k.new])
           \/ Return(c) /\ torn' = (torn \/ HalfRotated(c)) /\ UNCHANGED secrets
           \/ \E n \in DOMAIN k.updates \cap DOMAIN secrets : \E j \in Calls :
                /\ UNCHANGED torn /\ DOMAIN secrets' = DOMAIN secrets
                /\ secrets'[n] = k.updates[n] /\ k.updates[n] \in Sealed
                /\ \A m \in DOMAIN secrets : m # n => secrets'[m] = secrets[m]
                /\ Goto(c, j) /\ j.pc = "read" /\ j.todo = k.todo
                /\ j.old = k.old /\ j.new = k.new
                /\ DOMAIN j.updates = DOMAIN k.updates \ {n}
                /\ \A m \in DOMAIN j.updates : j.updates[m] = k.updates[m]
<1>1. k.pc = "read" /\ k \in Reads /\ k.updates \in Updates
  <2>1. k.pc = "read"
    BY Zenon DEF BatchOne
  <2>2. k \in Calls
    BY Zenon DEF StateInv
  <2> QED
    BY <2>1, <2>2, CallShape, Zenon
<1>2. \/ /\ k.updates = [n \in {} |-> {}] /\ UNCHANGED <<secrets, torn>>
         /\ Goto(c, [pc |-> "rotate_key", new |-> k.new])
      \/ Return(c) /\ torn' = (torn \/ HalfRotated(c)) /\ UNCHANGED secrets
      \/ \E n \in DOMAIN k.updates \cap DOMAIN secrets :
           /\ UNCHANGED torn /\ secrets' = Reseal(Restrict(k.updates, {n}))
           /\ Goto(c, [k EXCEPT !.updates = Restrict(k.updates, DOMAIN k.updates \ {n})])
  BY ZenonT(40) DEF BatchOne
<1>3. CASE /\ k.updates = [n \in {} |-> {}] /\ UNCHANGED <<secrets, torn>>
           /\ Goto(c, [pc |-> "rotate_key", new |-> k.new])
  <2>1. DOMAIN k.updates = {}
    BY <1>3, Zenon
  <2> QED
    BY <1>3, <2>1, Zenon
<1>4. CASE \E n \in DOMAIN k.updates \cap DOMAIN secrets :
             /\ UNCHANGED torn /\ secrets' = Reseal(Restrict(k.updates, {n}))
             /\ Goto(c, [k EXCEPT !.updates = Restrict(k.updates, DOMAIN k.updates \ {n})])
  <2>1. PICK n \in DOMAIN k.updates \cap DOMAIN secrets :
          /\ UNCHANGED torn /\ secrets' = Reseal(Restrict(k.updates, {n}))
          /\ Goto(c, [k EXCEPT !.updates = Restrict(k.updates, DOMAIN k.updates \ {n})])
    BY <1>4, Zenon
  <2>2. PICK u : u = Restrict(k.updates, {n})
    BY Zenon
  <2>3. PICK w : w = Restrict(k.updates, DOMAIN k.updates \ {n})
    BY Zenon
  <2>4. PICK D \in SUBSET Name : k.updates \in [D -> Sealed]
    BY <1>1, Zenon DEF Updates
  <2>5. w \in Updates
    <3>1. w \in [D \ {n} -> Sealed] /\ D \ {n} \in SUBSET Name
      BY <2>3, <2>4, Zenon DEF Restrict
    <3> QED
      BY <3>1, Zenon DEF Updates
  <2>6. /\ DOMAIN u = {n} /\ u[n] = k.updates[n] /\ k.updates[n] \in Sealed
        /\ DOMAIN w = DOMAIN k.updates \ {n}
        /\ \A m \in DOMAIN w : w[m] = k.updates[m]
    BY <2>1, <2>2, <2>3, <2>4, Zenon DEF Restrict
  <2>7. PICK j \in Calls : /\ Goto(c, j) /\ j.pc = "read" /\ j.old = k.old /\ j.new = k.new
                           /\ j.todo = k.todo /\ j.updates = w
    <3>1. PICK j : j = [k EXCEPT !.updates = w]
      BY Zenon
    <3>2. Goto(c, j)
      BY <2>1, <2>3, <3>1, Zenon
    <3>3. /\ j \in Reads /\ j.pc = "read" /\ j.old = k.old /\ j.new = k.new
          /\ j.todo = k.todo /\ j.updates = w
      BY <1>1, <2>5, <3>1, Zenon DEF Reads
    <3> QED
      BY <3>2, <3>3, Zenon DEF Calls
  <2>8. /\ DOMAIN secrets' = DOMAIN secrets
        /\ secrets'[n] = k.updates[n]
        /\ \A m \in DOMAIN secrets : m # n => secrets'[m] = secrets[m]
    <3>1. /\ DOMAIN secrets' = DOMAIN secrets
          /\ \A m \in DOMAIN secrets :
               secrets'[m] = IF m \in DOMAIN u THEN u[m] ELSE secrets[m]
      BY <2>1, <2>2, ResealRows, Zenon
    <3> QED
      BY <2>6, <3>1
  <2> QED
    BY <2>1, <2>6, <2>7, <2>8, Zenon
<1> QED
  BY <1>2, <1>3, <1>4, Zenon

LEMMA TextBatchOne ==
    ASSUME TextInv, NEW c \in Conn, BatchOne(c)
    PROVE  TextInv'
<1>1. /\ UNCHANGED <<config, persisted, dek, drawn, crossed, written, restored>>
      /\ calls[c].pc = "read"
  BY Zenon DEF BatchOne
<1>2. PICK k : k = calls[c] /\ k.pc = "read" /\ CarriesOK(k) /\ k \in Calls
  BY <1>1, CallCarries, Zenon
<1>3. CASE /\ Goto(c, [pc |-> "rotate_key", new |-> k.new])
           /\ UNCHANGED <<secrets, torn>>
  <2>1. k.new \in Key
    BY <1>2, CallShape, Zenon
  <2>2. PICK j \in Calls : Goto(c, j) /\ j.pc = "rotate_key" /\ j.new = k.new
    BY <1>3, <2>1, CallsBuilt, Zenon
  <2>3. CarriesOK(j)'
    BY <1>1, <1>2, <2>2, Zenon DEF CarriesOK
  <2>4. calls' \in [Conn -> Calls] /\ \A x \in Conn : CarriesOK(calls[x])'
    BY <1>1, <1>3, <2>2, <2>3, CarriesStay, Zenon
  <2>5. StateInv' /\ PlaintextKept'
    BY <1>1, <1>3, <2>4, Zenon DEF TextInv, StateInv, PlaintextKept
  <2> QED
    BY <2>4, <2>5, Zenon DEF TextInv
<1>4. ASSUME NEW n \in DOMAIN k.updates \cap DOMAIN secrets, NEW j \in Calls,
             UNCHANGED torn, DOMAIN secrets' = DOMAIN secrets,
             secrets'[n] = k.updates[n], k.updates[n] \in Sealed,
             \A m \in DOMAIN secrets : m # n => secrets'[m] = secrets[m],
             Goto(c, j), j.pc = "read", j.new = k.new,
             DOMAIN j.updates = DOMAIN k.updates \ {n},
             \A m \in DOMAIN j.updates : j.updates[m] = k.updates[m]
      PROVE  TextInv'
  <2>1. CarriesOK(j)'
    BY <1>1, <1>2, <1>4, ZenonT(40) DEF CarriesOK
  <2>2. calls' \in [Conn -> Calls] /\ \A x \in Conn : CarriesOK(calls[x])'
    BY <1>1, <1>4, <2>1, CarriesStay, Zenon
  <2>3. /\ KeyOf(k.updates[n]) \in drawn
        /\ n \notin restored => written[n] = {TextOf(k.updates[n])}
    BY <1>2, <1>4, Zenon DEF CarriesOK
  <2>4. StateInv'
    BY <1>1, <1>4, <2>2, <2>3, ZenonT(40) DEF TextInv, StateInv
  <2>5. PlaintextKept'
    BY <1>1, <1>4, <2>3, ZenonT(40) DEF TextInv, PlaintextKept, TextOf
  <2> QED
    BY <2>2, <2>4, <2>5, Zenon DEF TextInv
<1>5. CASE Return(c) /\ torn' = (torn \/ HalfRotated(c)) /\ UNCHANGED secrets
  BY <1>1, <1>5, TornType, TextReturns, Zenon
<1> QED
  BY <1>2, <1>3, <1>4, <1>5, BatchOneMoves, SMTT(30) DEF TextInv

(* The key source and the swap.                                            *)
LEMMA TextKeySource ==
    ASSUME TextInv, NEW c \in Conn, RotateKey(c) \/ WriteBlob(c) \/ SwapDek(c)
    PROVE  TextInv'
<1>1. /\ UNCHANGED <<config, secrets, drawn, crossed, written, restored>>
      /\ calls[c].pc \in {"rotate_key", "write_blob", "swap"}
  BY Zenon DEF RotateKey, WriteBlob, SwapDek
<1>2. PICK k : k = calls[c] /\ CarriesOK(k) /\ k \in Calls
  BY CallCarries, Zenon
<1>3. k.new \in drawn /\ k.new \in Key /\ persisted # {}
  BY <1>1, <1>2, CallShape, Zenon DEF CarriesOK
<1>4. CASE Return(c) /\ UNCHANGED <<persisted, dek>> /\ torn' = (torn \/ HalfRotated(c))
  BY <1>1, <1>4, TornType, TextReturns, Zenon
<1>5. CASE /\ \E j \in Calls : Goto(c, j) /\ (j.pc \in {"write_blob", "swap"} => j.new = k.new)
                               /\ j.pc \in {"idle", "write_blob", "swap"}
           /\ persisted' \in {{Damaged}, {k.new}, persisted} /\ dek' \in {dek, {k.new}}
           /\ UNCHANGED torn
  <2>1. PICK j \in Calls : Goto(c, j) /\ (j.pc \in {"write_blob", "swap"} => j.new = k.new)
                           /\ j.pc \in {"idle", "write_blob", "swap"}
    BY <1>5, Zenon
  <2>2. CarriesOK(j)'
    BY <1>1, <1>3, <1>5, <2>1, Zenon DEF CarriesOK
  <2>3. calls' \in [Conn -> Calls] /\ \A x \in Conn : CarriesOK(calls[x])'
    BY <1>1, <1>3, <1>5, <2>1, <2>2, CarriesStay, Zenon
  <2>4. PlaintextKept'
    BY <1>1, Zenon DEF TextInv, PlaintextKept
  <2>5. /\ persisted' # {} /\ persisted' \subseteq drawn \cup {Damaged}
        /\ dek' \subseteq drawn
        /\ (\A x, y \in persisted' : x = y) /\ (\A x, y \in dek' : x = y)
    BY <1>3, <1>5, Zenon DEF TextInv, StateInv
  <2>6. StateInv'
    BY <1>1, <1>5, <2>3, <2>5, Zenon DEF TextInv, StateInv
  <2> QED
    BY <2>3, <2>4, <2>6, Zenon DEF TextInv
<1>6. CASE RotateKey(c)
  <2>1. CASE CanRotate
    <3>1. /\ persisted' = {Damaged} /\ UNCHANGED <<torn, dek>>
          /\ Goto(c, [pc |-> "write_blob", new |-> k.new])
      BY <1>2, <1>6, <2>1, Zenon DEF RotateKey
    <3>2. \E j \in Calls : Goto(c, j) /\ j.pc = "write_blob" /\ j.new = k.new
      BY <1>3, <3>1, CallsBuilt, Zenon
    <3> QED
      BY <1>5, <3>1, <3>2, Zenon
  <2>2. CASE ~CanRotate
    BY <1>4, <1>6, <2>2, Zenon DEF RotateKey
  <2> QED
    BY <2>1, <2>2, Zenon
<1>7. CASE WriteBlob(c)
  <2>1. /\ persisted' = {k.new} /\ UNCHANGED <<torn, dek>>
        /\ Goto(c, [pc |-> "swap", new |-> k.new])
    BY <1>2, <1>7, Zenon DEF WriteBlob
  <2>2. \E j \in Calls : Goto(c, j) /\ j.pc = "swap" /\ j.new = k.new
    BY <1>3, <2>1, CallsBuilt, Zenon
  <2> QED
    BY <1>5, <2>1, <2>2, Zenon
<1>8. CASE SwapDek(c)
  <2>1. dek' = {k.new} /\ UNCHANGED <<torn, persisted>> /\ Return(c)
    BY <1>2, <1>8, Zenon DEF SwapDek
  <2>2. \E j \in Calls : Goto(c, j) /\ j.pc = "idle"
    BY <2>1, ReturnIsGoto, Zenon
  <2> QED
    BY <1>5, <2>1, <2>2, Zenon
<1> QED
  BY <1>6, <1>7, <1>8, Zenon

(* An error of the store, the cipher or the key source.                    *)
LEMMA TextBackendFails ==
    ASSUME TextInv, NEW c \in Conn, BackendFails(c)
    PROVE  TextInv'
<1>1. /\ Return(c) /\ torn' = (torn \/ HalfRotated(c))
      /\ UNCHANGED <<config, secrets, persisted, dek, drawn, crossed, written, restored>>
  BY Zenon DEF BackendFails
<1> QED
  BY <1>1, TornType, TextReturns, Zenon

(* Every step keeps the plaintexts.                                        *)
LEMMA TextStep ==
    ASSUME TextInv, [Next]_vars
    PROVE  TextInv'
<1>1. CASE UNCHANGED vars
  <2>1. /\ UNCHANGED <<config, secrets, persisted, dek, calls>>
        /\ UNCHANGED <<drawn, torn, crossed, written, restored>>
    BY <1>1, Zenon DEF vars
  <2>2. StateInv' /\ PlaintextKept'
    BY <2>1, ZenonT(40) DEF TextInv, StateInv, PlaintextKept
  <2>3. ASSUME NEW c \in Conn PROVE CarriesOK(calls[c])'
    <3>1. PICK k : k = calls[c] /\ k = calls'[c] /\ CarriesOK(k)
      BY <2>1, CallCarries, Zenon
    <3>2. CarriesOK(k)'
      BY <2>1, <3>1, Zenon DEF CarriesOK
    <3> QED
      BY <3>1, <3>2, Zenon DEF CarriesOK
  <2> QED
    BY <2>2, <2>3, Zenon DEF TextInv
<1>2. CASE LoadDek \/ CreateInKeychain \/ Restart
  BY <1>2, TextQuiet, Zenon
<1>3. ASSUME NEW c \in Conn,
             \/ CreateWithKms(c) \/ Encrypt(c) \/ Put(c) \/ Delete(c)
             \/ BeginRotate(c) \/ ReadOne(c) \/ BatchTransaction(c) \/ BatchOne(c)
             \/ RotateKey(c) \/ WriteBlob(c) \/ SwapDek(c) \/ BackendFails(c)
      PROVE  TextInv'
  BY <1>3, TextCreateWithKms, TextEncrypt, TextPut, TextDelete, TextBeginRotate,
     TextReadOne, TextBatchTransaction, TextBatchOne, TextKeySource,
     TextBackendFails, Zenon
<1> QED
  BY <1>1, <1>2, <1>3, Zenon DEF Next

-----------------------------------------------------------------------------
(* Keys, as long as no rotation was crossed.                               *)

(* What the invariant says of one call, and of the key in memory.          *)
LEMMA CallKnown ==
    ASSUME AloneInv, NEW c \in Conn
    PROVE  CallOK(calls[c]) /\ calls[c] \in Calls
<1>1. calls \in [Conn -> Calls]
  BY Zenon DEF AloneInv, StateInv
<1>2. CallOK(calls[c])
  BY Zenon DEF AloneInv
<1> QED
  BY <1>1, <1>2, Zenon

LEMMA OneKey ==
    ASSUME AloneInv, NEW o \in dek
    PROVE  dek = {o}
<1>1. \A k, l \in dek : k = l
  BY Zenon DEF AloneInv, StateInv
<1> QED
  BY <1>1, Zenon

(* When the only call there is moves on, it is enough to look at it.       *)
LEMMA OneMoves ==
    ASSUME AloneInv, NEW c \in Conn, NEW k, Goto(c, k),
           \A x \in Conn : x # c => calls[x].pc = "idle",
           CallOK(k)'
    PROVE  /\ BusyInv'
           /\ \A x \in Conn : calls'[x] = IF x = c THEN k ELSE calls[x]
           /\ \A x \in Conn : CallOK(calls[x])'
<1>1. \A x \in Conn : calls'[x] = IF x = c THEN k ELSE calls[x]
  BY CallsAfter, Zenon DEF AloneInv
<1>2. BusyInv'
  BY <1>1, Zenon DEF BusyInv, Rotating
<1>3. ASSUME NEW x \in Conn PROVE CallOK(calls[x])'
  <2>1. CASE x = c
    <3>1. calls'[x] = k
      BY <1>1, <2>1, Zenon
    <3> QED
      BY <3>1, Zenon DEF CallOK
  <2>2. CASE x # c
    <3>1. calls'[x].pc = "idle"
      BY <1>1, <2>2, Zenon
    <3> QED
      BY <3>1, Zenon DEF CallOK
  <2> QED
    BY <2>1, <2>2, Zenon
<1> QED
  BY <1>1, <1>2, <1>3, Zenon

(* When the only call there is returns, all are idle.                      *)
LEMMA LastReturns ==
    ASSUME AloneInv, NEW c \in Conn, Return(c),
           \A x \in Conn : x # c => calls[x].pc = "idle"
    PROVE  /\ BusyInv'
           /\ \A x \in Conn : calls'[x].pc = "idle"
           /\ \A x \in Conn : CallOK(calls[x])'
<1>1. PICK k : Goto(c, k) /\ k.pc = "idle"
  BY ReturnIsGoto, Zenon
<1>2. \A x \in Conn : calls'[x] = IF x = c THEN k ELSE calls[x]
  BY <1>1, CallsAfter, Zenon DEF AloneInv
<1>3. \A x \in Conn : calls'[x].pc = "idle"
  BY <1>1, <1>2, Zenon
<1>4. BusyInv' /\ \A x \in Conn : CallOK(calls[x])'
  BY <1>3, Zenon DEF BusyInv, CallOK
<1> QED
  BY <1>3, <1>4, Zenon

(* Calls of store_secret run side by side.                                 *)
LEMMA PutsMove ==
    ASSUME AloneInv, NEW c \in Conn, NEW k, Goto(c, k), dek' = dek,
           \A x \in Conn : calls[x].pc \in {"idle", "put"},
           k.pc \in {"idle", "put"}, k.pc = "put" => KeyOf(k.sealed) \in dek
    PROVE  BusyInv' /\ \A x \in Conn : CallOK(calls[x])'
<1>1. \A x \in Conn : calls'[x] = IF x = c THEN k ELSE calls[x]
  BY CallsAfter, Zenon DEF AloneInv
<1>2. \A x \in Conn : calls'[x].pc \in {"idle", "put"}
  BY <1>1, Zenon
<1>3. BusyInv'
  BY <1>2, Zenon DEF BusyInv, Rotating
<1>4. ASSUME NEW x \in Conn PROVE CallOK(calls[x])'
  <2>1. calls'[x].pc = "put" => KeyOf(calls'[x].sealed) \in dek'
    <3>1. CASE x = c
      BY <1>1, <3>1, Zenon
    <3>2. CASE x # c
      BY <1>1, <3>2, CallKnown, Zenon DEF CallOK
    <3> QED
      BY <3>1, <3>2, Zenon
  <2> QED
    BY <1>2, <2>1, Zenon DEF CallOK
<1> QED
  BY <1>3, <1>4, Zenon

(* A rotation is alone, and without one there are only puts.               *)
LEMMA BusyAlone ==
    ASSUME AloneInv, NEW c \in Conn, calls[c].pc \notin {"idle", "put"}
    PROVE  \A x \in Conn : x # c => calls[x].pc = "idle"
<1>1. Rotating(c)
  BY CallKnown, CallShape, Zenon DEF Rotating
<1> QED
  BY <1>1, Zenon DEF AloneInv, BusyInv

LEMMA PutsOnly ==
    ASSUME AloneInv, NEW c \in Conn, calls[c].pc = "put"
    PROVE  \A x \in Conn : calls[x].pc \in {"idle", "put"}
<1> SUFFICES ASSUME NEW x \in Conn, calls[x].pc \notin {"idle", "put"} PROVE FALSE
  BY Zenon
<1> QED
  BY BusyAlone, Zenon

(* One lemma per action: the state stays typed by TextStep.                *)

(* initialize, LoadDek and CreateInKeychain.                               *)
LEMMA InitializeStep ==
    ASSUME AloneInv, StateInv', LoadDek \/ CreateInKeychain
    PROVE  AloneInv'
<1>1. /\ UNCHANGED <<config, secrets, calls, torn>>
      /\ \A x \in Conn : calls[x].pc = "idle" /\ calls'[x].pc = "idle"
  BY Zenon DEF LoadDek, CreateInKeychain, Quiet, Idle
<1>2. BusyInv' /\ \A x \in Conn : CallOK(calls[x])'
  BY <1>1, Zenon DEF BusyInv, Rotating, CallOK
<1>3. RestInv'
  <2>1. CASE LoadDek
    BY <1>1, <2>1 DEF LoadDek, AloneInv, RestInv
  <2>2. CASE CreateInKeychain
    BY <1>1, <2>2, Zenon DEF CreateInKeychain, AloneInv, RestInv, StateInv
  <2> QED
    BY <2>1, <2>2, Zenon
<1> QED
  BY <1>2, <1>3, Zenon DEF AloneInv

(* initialize with KMS: the file exists and is not filled yet.             *)
LEMMA CreateWithKmsStep ==
    ASSUME AloneInv, StateInv', NEW c \in Conn, CreateWithKms(c)
    PROVE  AloneInv'
<1>1. PICK key : Goto(c, [pc |-> "write_blob", new |-> key])
  BY Zenon DEF CreateWithKms
<1>2. PICK k : Goto(c, k) /\ k.pc = "write_blob"
  BY <1>1, GoesOn, SMTT(30)
<1>3. /\ UNCHANGED <<config, secrets, dek, torn>> /\ persisted' = {Damaged}
      /\ dek = {} /\ DOMAIN secrets = {}
      /\ \A x \in Conn : calls[x].pc = "idle"
  BY Zenon DEF CreateWithKms, Quiet, Idle, AloneInv, StateInv
<1>4. CallOK(k)'
  BY <1>2, <1>3, Zenon DEF CallOK, Under
<1>5. /\ BusyInv' /\ \A x \in Conn : CallOK(calls[x])'
      /\ \A x \in Conn : calls'[x] = IF x = c THEN k ELSE calls[x]
  BY <1>2, <1>3, <1>4, OneMoves, Zenon
<1>6. RestInv'
  BY <1>2, <1>5, Zenon DEF RestInv
<1> QED
  BY <1>5, <1>6, Zenon DEF AloneInv

(* store_secret up to the put, with no rotation in flight.                 *)
LEMMA EncryptStep ==
    ASSUME AloneInv, StateInv', ~crossed', NEW c \in Conn, Encrypt(c)
    PROVE  AloneInv'
<1>1. /\ UNCHANGED <<config, secrets, persisted, dek, drawn, torn, written, restored>>
      /\ dek # {} /\ crossed' = (crossed \/ \E d \in Conn : Rotating(d))
  BY EncryptMoves, Zenon DEF AloneInv
<1>2. PICK k \in Calls : Goto(c, k) /\ k.pc = "put" /\ KeyOf(k.sealed) \in dek
  BY EncryptMoves, Zenon DEF AloneInv
<1>3. \A x \in Conn : calls[x].pc \in {"idle", "put"}
  BY <1>1, CallKnown, CallShape, Zenon DEF Rotating
<1>4. BusyInv' /\ \A x \in Conn : CallOK(calls[x])'
  BY <1>1, <1>2, <1>3, PutsMove, Zenon
<1>5. RestInv'
  BY <1>1, <1>3, Zenon DEF AloneInv, RestInv
<1> QED
  BY <1>4, <1>5, Zenon DEF AloneInv

(* store_secret, the put.                                                  *)
LEMMA PutStep ==
    ASSUME AloneInv, StateInv', NEW c \in Conn, Put(c)
    PROVE  AloneInv'
<1>1. /\ calls[c].pc = "put" /\ Return(c)
      /\ UNCHANGED <<config, persisted, dek, drawn, torn>>
  BY Zenon DEF Put
<1>2. \A x \in Conn : calls[x].pc \in {"idle", "put"}
  BY <1>1, PutsOnly, Zenon
<1>3. PICK k : Goto(c, k) /\ k.pc = "idle"
  BY <1>1, ReturnIsGoto, Zenon
<1>4. BusyInv' /\ \A x \in Conn : CallOK(calls[x])'
  BY <1>1, <1>2, <1>3, PutsMove, Zenon
<1>5. PICK n, z : n = calls[c].name /\ z = calls[c].sealed /\ KeyOf(z) \in dek
  BY <1>1, CallKnown, Zenon DEF CallOK
<1>6. ~torn => dek = persisted /\ \A m \in DOMAIN secrets : KeyOf(secrets[m]) \in persisted
  BY <1>2, <1>5, Zenon DEF AloneInv, RestInv
<1>7. \A m \in DOMAIN secrets' :
        \/ m \in DOMAIN secrets /\ secrets'[m] = secrets[m]
        \/ secrets'[m] = z
  <2>1. CASE n \in DOMAIN secrets
    BY <1>5, <2>1, Zenon DEF Put
  <2>2. CASE n \notin DOMAIN secrets
    <3>1. secrets' = [m \in DOMAIN secrets \cup {n} |-> IF m = n THEN z ELSE secrets[m]]
      BY <1>5, <2>2, Zenon DEF Put
    <3> QED
      BY <3>1, Zenon
  <2> QED
    BY <2>1, <2>2, Zenon
<1>8. RestInv'
  BY <1>1, <1>5, <1>6, <1>7, Zenon DEF RestInv
<1> QED
  BY <1>4, <1>8, Zenon DEF AloneInv

(* delete_secret, beside whatever call is in flight.                       *)
LEMMA DeleteStep ==
    ASSUME AloneInv, StateInv', NEW c \in Conn, Delete(c)
    PROVE  AloneInv'
<1>1. /\ UNCHANGED <<config, persisted, dek, calls, drawn, torn>> /\ dek # {}
      /\ DOMAIN secrets' \subseteq DOMAIN secrets
      /\ \A m \in DOMAIN secrets' : secrets'[m] = secrets[m]
  BY DeleteRows, Zenon
<1>2. BusyInv' /\ RestInv'
  BY <1>1, Zenon DEF AloneInv, BusyInv, Rotating, RestInv
<1>3. ASSUME NEW x \in Conn PROVE CallOK(calls[x])'
  <2>1. PICK k : k = calls[x] /\ k = calls'[x] /\ CallOK(k)
    BY <1>1, CallKnown, Zenon
  <2>2. CallOK(k)'
    BY <1>1, <2>1 DEF CallOK, Under
  <2> QED
    BY <2>1, <2>2 DEF CallOK
<1> QED
  BY <1>2, <1>3, Zenon DEF AloneInv

(* rotate_dek draws a new key and lists the secrets, with no call in       *)
(* flight.                                                                 *)
LEMMA BeginRotateStep ==
    ASSUME AloneInv, StateInv', ~crossed', NEW c \in Conn, BeginRotate(c)
    PROVE  AloneInv'
<1>1. /\ UNCHANGED <<config, secrets, persisted, dek, torn, written, restored>>
      /\ dek # {} /\ crossed' = (crossed \/ ~Quiet)
  BY BeginRotateMoves, Zenon DEF AloneInv
<1>2. PICK o \in dek, key \in Key \ drawn : \E k \in Calls :
        /\ drawn' = drawn \cup {key} /\ o # key
        /\ Goto(c, k) /\ k.pc = "read" /\ k.old = o /\ k.new = key
        /\ k.todo = DOMAIN secrets /\ DOMAIN k.updates = {}
  BY BeginRotateMoves, Zenon DEF AloneInv
<1>3. PICK k \in Calls :
        /\ Goto(c, k) /\ k.pc = "read" /\ k.old = o /\ k.new = key
        /\ k.todo = DOMAIN secrets /\ DOMAIN k.updates = {}
  BY <1>2, Zenon
<1>4. \A x \in Conn : calls[x].pc = "idle"
  BY <1>1, Zenon DEF Quiet, Idle
<1>5. dek = {o} /\ o # key
  BY <1>2, OneKey, Zenon
<1>6. CallOK(k)'
  <2>1. \A n \in DOMAIN secrets : KeyOf(secrets[n]) # key
    <3>1. \A n \in DOMAIN secrets : KeyOf(secrets[n]) \in drawn
      BY Zenon DEF AloneInv, StateInv
    <3> QED
      BY <1>2, <3>1, Zenon
  <2>2. ~torn => persisted = dek /\ \A n \in DOMAIN secrets : KeyOf(secrets[n]) \in {o}
    BY <1>4, <1>5, Zenon DEF AloneInv, RestInv
  <2> QED
    BY <1>1, <1>3, <1>5, <2>1, <2>2, Zenon DEF CallOK
<1>7. /\ BusyInv' /\ \A x \in Conn : CallOK(calls[x])'
      /\ \A x \in Conn : calls'[x] = IF x = c THEN k ELSE calls[x]
  BY <1>3, <1>4, <1>6, OneMoves, Zenon
<1>8. RestInv'
  BY <1>3, <1>7, Zenon DEF RestInv
<1> QED
  BY <1>7, <1>8, Zenon DEF AloneInv

(* A rotation that gives up before its first write leaves all secrets      *)
(* under the old key.                                                      *)
LEMMA GiveUp ==
    ASSUME AloneInv, StateInv', NEW c \in Conn, calls[c].pc = "read", Return(c),
           ~torn' => ~torn /\ \A n \in DOMAIN secrets : KeyOf(secrets[n]) # calls[c].new,
           UNCHANGED <<secrets, persisted, dek>>
    PROVE  AloneInv'
<1>1. \A x \in Conn : x # c => calls[x].pc = "idle"
  BY BusyAlone, Zenon
<1>2. BusyInv' /\ \A x \in Conn : CallOK(calls[x])'
  BY <1>1, LastReturns, Zenon
<1>3. PICK k : k = calls[c] /\ CallOK(k) /\ k.pc = "read"
  BY CallKnown, Zenon
<1>4. RestInv'
  BY <1>3, Zenon DEF RestInv, CallOK
<1> QED
  BY <1>2, <1>4, Zenon DEF AloneInv

(* rotate_dek reads one secret.                                            *)
LEMMA ReadOneStep ==
    ASSUME AloneInv, StateInv', NEW c \in Conn, ReadOne(c)
    PROVE  AloneInv'
<1>1. PICK k : k = calls[c] /\ CallOK(k) /\ k.pc = "read"
  <2>1. calls[c].pc = "read"
    BY Zenon DEF ReadOne
  <2> QED
    BY <2>1, CallKnown, Zenon
<1>2. UNCHANGED <<config, secrets, persisted, dek, torn>> /\ k.todo # {}
  BY <1>1, Zenon DEF ReadOne
<1>3. \A x \in Conn : x # c => calls[x].pc = "idle"
  BY <1>1, BusyAlone, Zenon
<1>4. CASE Return(c)
  <2>1. \A m \in DOMAIN secrets : KeyOf(secrets[m]) # k.new
    BY <1>1, <1>2, Zenon DEF CallOK
  <2> QED
    BY <1>1, <1>2, <1>4, <2>1, GiveUp, Zenon
<1>5. CASE ~Return(c)
  <2>1. PICK n \in k.todo \cap DOMAIN secrets : \E j \in Calls :
          /\ Goto(c, j) /\ j.pc = "read"
          /\ j.old = k.old /\ j.new = k.new
          /\ j.todo = k.todo \ {n}
          /\ DOMAIN j.updates = DOMAIN k.updates \cup {n}
          /\ KeyOf(j.updates[n]) = j.new /\ TextOf(j.updates[n]) = TextOf(secrets[n])
          /\ \A m \in DOMAIN j.updates : m # n => j.updates[m] = k.updates[m]
    BY <1>1, <1>5, ReadOneMoves, SMTT(30) DEF AloneInv
  <2>2. PICK j \in Calls :
          /\ Goto(c, j) /\ j.pc = "read" /\ j.old = k.old /\ j.new = k.new
          /\ j.todo = k.todo \ {n}
          /\ DOMAIN j.updates = DOMAIN k.updates \cup {n} /\ KeyOf(j.updates[n]) = j.new
          /\ \A m \in DOMAIN j.updates : m # n => j.updates[m] = k.updates[m]
    BY <2>1, Zenon
  <2>3. \A m \in DOMAIN j.updates : KeyOf(j.updates[m]) = k.new
    BY <1>1, <2>2, Zenon DEF CallOK
  <2>4. CallOK(j)'
    BY <1>1, <1>2, <2>2, <2>3, ZenonT(40) DEF CallOK
  <2>5. /\ BusyInv' /\ \A x \in Conn : CallOK(calls[x])'
        /\ \A x \in Conn : calls'[x] = IF x = c THEN j ELSE calls[x]
    BY <1>3, <2>2, <2>4, OneMoves, ZenonT(40)
  <2>6. RestInv'
    BY <2>2, <2>5, Zenon DEF RestInv
  <2> QED
    BY <2>5, <2>6, Zenon DEF AloneInv
<1> QED
  BY <1>4, <1>5, Zenon

(* batch_update in a transaction.                                          *)
LEMMA BatchTransactionStep ==
    ASSUME AloneInv, StateInv', NEW c \in Conn, BatchTransaction(c)
    PROVE  AloneInv'
<1>1. PICK k : k = calls[c] /\ CallOK(k) /\ k.pc = "read" /\ k.todo = {}
  <2>1. calls[c].pc = "read" /\ calls[c].todo = {}
    BY Zenon DEF BatchTransaction
  <2> QED
    BY <2>1, CallKnown, Zenon
<1>2. UNCHANGED <<config, persisted, dek, torn>> /\ config.store = "sql"
  BY Zenon DEF BatchTransaction
<1>3. \A x \in Conn : x # c => calls[x].pc = "idle"
  BY <1>1, BusyAlone, Zenon
<1>4. CASE Return(c) /\ UNCHANGED secrets
  <2>1. \A m \in DOMAIN secrets : KeyOf(secrets[m]) # k.new
    BY <1>1, <1>2, Zenon DEF CallOK
  <2> QED
    BY <1>1, <1>2, <1>4, <2>1, GiveUp, Zenon
<1>5. CASE /\ secrets' = Reseal(k.updates)
           /\ Goto(c, [pc |-> "rotate_key", new |-> k.new])
  <2>1. PICK j : Goto(c, j) /\ j.pc = "rotate_key" /\ j.new = k.new
    BY <1>5, GoesOn, SMTT(30)
  <2>2. /\ DOMAIN secrets' = DOMAIN secrets
        /\ \A n \in DOMAIN secrets :
             secrets'[n] = IF n \in DOMAIN k.updates THEN k.updates[n] ELSE secrets[n]
    BY <1>5, ResealRows, Zenon
  <2>3. \A n \in DOMAIN secrets' : KeyOf(secrets'[n]) = k.new
    BY <1>1, <2>2, SMTT(40) DEF CallOK
  <2>4. CallOK(j)'
    BY <1>1, <1>2, <2>1, <2>3, Zenon DEF CallOK, Under
  <2>5. /\ BusyInv' /\ \A x \in Conn : CallOK(calls[x])'
        /\ \A x \in Conn : calls'[x] = IF x = c THEN j ELSE calls[x]
    BY <1>3, <2>1, <2>4, OneMoves, Zenon
  <2>6. RestInv'
    BY <2>1, <2>5, Zenon DEF RestInv
  <2> QED
    BY <2>5, <2>6, Zenon DEF AloneInv
<1> QED
  BY <1>1, <1>4, <1>5, ZenonT(40) DEF BatchTransaction

(* batch_update one secret after the other.                                *)
LEMMA BatchOneStep ==
    ASSUME AloneInv, StateInv', NEW c \in Conn, BatchOne(c)
    PROVE  AloneInv'
<1>1. PICK k : k = calls[c] /\ CallOK(k) /\ k.pc = "read" /\ k.todo = {}
  <2>1. calls[c].pc = "read" /\ calls[c].todo = {}
    BY Zenon DEF BatchOne
  <2> QED
    BY <2>1, CallKnown, Zenon
<1>2. UNCHANGED <<config, persisted, dek>> /\ config.store = "aws_sm"
  BY Zenon DEF BatchOne
<1>3. \A x \in Conn : x # c => calls[x].pc = "idle"
  BY <1>1, BusyAlone, Zenon
<1>4. CASE /\ DOMAIN k.updates = {}
           /\ Goto(c, [pc |-> "rotate_key", new |-> k.new])
           /\ UNCHANGED <<secrets, torn>>
  <2>1. PICK j : Goto(c, j) /\ j.pc = "rotate_key" /\ j.new = k.new
    BY <1>4, GoesOn, SMTT(30)
  <2>2. CallOK(j)'
    BY <1>1, <1>2, <1>4, <2>1, Zenon DEF CallOK, Under
  <2>3. /\ BusyInv' /\ \A x \in Conn : CallOK(calls[x])'
        /\ \A x \in Conn : calls'[x] = IF x = c THEN j ELSE calls[x]
    BY <1>3, <2>1, <2>2, OneMoves, Zenon
  <2>4. RestInv'
    BY <2>1, <2>3, Zenon DEF RestInv
  <2> QED
    BY <2>3, <2>4, Zenon DEF AloneInv
<1>5. ASSUME NEW n \in DOMAIN k.updates \cap DOMAIN secrets, NEW j \in Calls,
             UNCHANGED torn, DOMAIN secrets' = DOMAIN secrets,
             secrets'[n] = k.updates[n],
             \A m \in DOMAIN secrets : m # n => secrets'[m] = secrets[m],
             Goto(c, j), j.pc = "read", j.todo = k.todo, j.old = k.old, j.new = k.new,
             DOMAIN j.updates = DOMAIN k.updates \ {n},
             \A m \in DOMAIN j.updates : j.updates[m] = k.updates[m]
      PROVE  AloneInv'
  <2>1. /\ KeyOf(secrets'[n]) = k.new
        /\ \A m \in DOMAIN secrets : m # n => KeyOf(secrets'[m]) = KeyOf(secrets[m])
    BY <1>1, <1>5, Zenon DEF CallOK
  <2>2. CallOK(j)'
    <3>1. \A m \in DOMAIN j.updates : KeyOf(j.updates[m]) = k.new
      BY <1>1, <1>5, ZenonT(40) DEF CallOK
    <3>2. \A m \in DOMAIN secrets' : m \in DOMAIN j.updates \/ KeyOf(secrets'[m]) = k.new
      BY <1>1, <1>5, <2>1 DEF CallOK
    <3>3. ~torn' => /\ persisted' = dek'
                    /\ \A m \in DOMAIN secrets' : KeyOf(secrets'[m]) \in {k.old, k.new}
      BY <1>1, <1>2, <1>5, <2>1, ZenonT(40) DEF CallOK
    <3>4. dek' = {k.old} /\ k.old # k.new /\ config'.store # "sql"
      BY <1>1, <1>2, Zenon DEF CallOK
    <3> QED
      BY <1>1, <1>5, <3>1, <3>2, <3>3, <3>4, ZenonT(40) DEF CallOK
  <2>3. /\ BusyInv' /\ \A x \in Conn : CallOK(calls[x])'
        /\ \A x \in Conn : calls'[x] = IF x = c THEN j ELSE calls[x]
    BY <1>3, <1>5, <2>2, OneMoves, ZenonT(40)
  <2>4. RestInv'
    BY <1>5, <2>3, Zenon DEF RestInv
  <2> QED
    BY <2>3, <2>4, Zenon DEF AloneInv
<1>6. CASE Return(c) /\ torn' = (torn \/ HalfRotated(c)) /\ UNCHANGED secrets
  <2>1. ~torn' => ~torn /\ \A n \in DOMAIN secrets : KeyOf(secrets[n]) # calls[c].new
    BY <1>1, <1>6, Zenon DEF HalfRotated, KeyOf
  <2> QED
    BY <1>1, <1>2, <1>6, <2>1, GiveUp, Zenon
<1> QED
  BY <1>1, <1>4, <1>5, <1>6, BatchOneMoves, SMTT(30) DEF AloneInv

(* A rotation whose key source refuses, or that fails there, is torn       *)
(* unless there was no secret to rewrite.                                  *)
LEMMA RotateKeyGivesUp ==
    ASSUME AloneInv, StateInv', NEW c \in Conn, calls[c].pc = "rotate_key", Return(c),
           torn' = (torn \/ HalfRotated(c)),
           UNCHANGED <<secrets, persisted, dek>>
    PROVE  AloneInv'
<1>1. \A x \in Conn : x # c => calls[x].pc = "idle"
  BY BusyAlone, Zenon
<1>2. BusyInv' /\ \A x \in Conn : CallOK(calls[x])'
  BY <1>1, LastReturns, Zenon
<1>3. PICK k : k = calls[c] /\ CallOK(k) /\ k.pc = "rotate_key"
  BY CallKnown, Zenon
<1>4. ~torn' => ~torn /\ DOMAIN secrets = {}
  BY <1>3, ZenonT(40) DEF HalfRotated, CallOK, Under, KeyOf
<1>5. RestInv'
  BY <1>3, <1>4, Zenon DEF RestInv, CallOK
<1> QED
  BY <1>2, <1>5, Zenon DEF AloneInv

(* key_source.rotate_dek, up to the truncated file.                        *)
LEMMA RotateKeyStep ==
    ASSUME AloneInv, StateInv', NEW c \in Conn, RotateKey(c)
    PROVE  AloneInv'
<1>1. PICK k : k = calls[c] /\ CallOK(k) /\ k.pc = "rotate_key"
  <2>1. calls[c].pc = "rotate_key"
    BY Zenon DEF RotateKey
  <2> QED
    BY <2>1, CallKnown, Zenon
<1>2. UNCHANGED <<config, secrets, dek>>
  BY Zenon DEF RotateKey
<1>3. CASE ~CanRotate
  BY <1>1, <1>2, <1>3, RotateKeyGivesUp, Zenon DEF RotateKey
<1>4. CASE CanRotate
  <2>1. /\ persisted' = {Damaged} /\ UNCHANGED torn
        /\ Goto(c, [pc |-> "write_blob", new |-> k.new])
    BY <1>1, <1>4, Zenon DEF RotateKey
  <2>2. \A x \in Conn : x # c => calls[x].pc = "idle"
    BY <1>1, BusyAlone, Zenon
  <2>3. PICK j : Goto(c, j) /\ j.pc = "write_blob" /\ j.new = k.new
    BY <2>1, GoesOn, SMTT(30)
  <2>4. CallOK(j)'
    BY <1>1, <1>2, <2>1, <2>3, ZenonT(40) DEF CallOK, Under
  <2>5. /\ BusyInv' /\ \A x \in Conn : CallOK(calls[x])'
        /\ \A x \in Conn : calls'[x] = IF x = c THEN j ELSE calls[x]
    BY <2>2, <2>3, <2>4, OneMoves, Zenon
  <2>6. RestInv'
    BY <2>3, <2>5, Zenon DEF RestInv
  <2> QED
    BY <2>5, <2>6, Zenon DEF AloneInv
<1> QED
  BY <1>3, <1>4, Zenon

(* The file is filled.                                                     *)
LEMMA WriteBlobStep ==
    ASSUME AloneInv, StateInv', NEW c \in Conn, WriteBlob(c)
    PROVE  AloneInv'
<1>1. PICK k : k = calls[c] /\ CallOK(k) /\ k.pc = "write_blob"
  <2>1. calls[c].pc = "write_blob"
    BY Zenon DEF WriteBlob
  <2> QED
    BY <2>1, CallKnown, Zenon
<1>2. /\ UNCHANGED <<config, secrets, dek, torn>>
      /\ persisted' = {k.new} /\ Goto(c, [pc |-> "swap", new |-> k.new])
  BY <1>1, Zenon DEF WriteBlob
<1>3. \A x \in Conn : x # c => calls[x].pc = "idle"
  BY <1>1, BusyAlone, Zenon
<1>4. PICK j : Goto(c, j) /\ j.pc = "swap" /\ j.new = k.new
  BY <1>2, GoesOn, SMTT(30)
<1>5. CallOK(j)'
  BY <1>1, <1>2, <1>4, ZenonT(40) DEF CallOK, Under
<1>6. /\ BusyInv' /\ \A x \in Conn : CallOK(calls[x])'
      /\ \A x \in Conn : calls'[x] = IF x = c THEN j ELSE calls[x]
  BY <1>3, <1>4, <1>5, OneMoves, Zenon
<1>7. RestInv'
  BY <1>4, <1>6, Zenon DEF RestInv
<1> QED
  BY <1>6, <1>7, Zenon DEF AloneInv

(* dek.write(): memory and key source agree again.                         *)
LEMMA SwapDekStep ==
    ASSUME AloneInv, StateInv', NEW c \in Conn, SwapDek(c)
    PROVE  AloneInv'
<1>1. PICK k : k = calls[c] /\ CallOK(k) /\ k.pc = "swap"
  BY CallKnown, Zenon DEF SwapDek
<1>2. /\ UNCHANGED <<secrets, persisted, torn>>
      /\ dek' = {k.new} /\ Return(c)
  BY <1>1, Zenon DEF SwapDek
<1>3. \A x \in Conn : x # c => calls[x].pc = "idle"
  BY <1>1, BusyAlone, Zenon
<1>4. BusyInv' /\ \A x \in Conn : CallOK(calls[x])'
  BY <1>2, <1>3, LastReturns, ZenonT(40)
<1>5. persisted = {k.new} /\ Under(k.new)
  BY <1>1, Zenon DEF CallOK
<1>6. RestInv'
  BY <1>2, <1>5, Zenon DEF RestInv, Under
<1> QED
  BY <1>4, <1>6, Zenon DEF AloneInv

(* An error of the store or of the key source.                             *)
LEMMA BackendFailsStep ==
    ASSUME AloneInv, StateInv', NEW c \in Conn, BackendFails(c)
    PROVE  AloneInv'
<1>1. /\ Return(c) /\ torn' = (torn \/ HalfRotated(c))
      /\ UNCHANGED <<config, secrets, persisted, dek>>
      /\ calls[c].pc \in {"put", "read", "rotate_key", "write_blob"}
  BY Zenon DEF BackendFails
<1>2. CASE calls[c].pc = "rotate_key"
  BY <1>1, <1>2, RotateKeyGivesUp, Zenon
<1>3. CASE calls[c].pc = "read"
  <2>1. ~torn' => ~torn /\ \A n \in DOMAIN secrets : KeyOf(secrets[n]) # calls[c].new
    BY <1>1, <1>3, ZenonT(40) DEF HalfRotated, KeyOf
  <2> QED
    BY <1>1, <1>3, <2>1, GiveUp, Zenon
<1>4. CASE calls[c].pc = "put"
  <2>1. \A x \in Conn : calls[x].pc \in {"idle", "put"}
    BY <1>4, PutsOnly, Zenon
  <2>2. PICK k : Goto(c, k) /\ k.pc = "idle"
    BY <1>1, ReturnIsGoto, Zenon
  <2>3. BusyInv' /\ \A x \in Conn : CallOK(calls[x])'
    BY <1>1, <2>1, <2>2, PutsMove, Zenon
  <2>4. torn' = torn
    BY <1>1, <1>4, Zenon DEF HalfRotated, AloneInv, StateInv
  <2>5. RestInv'
    BY <1>1, <2>1, <2>4, Zenon DEF AloneInv, RestInv
  <2> QED
    BY <2>3, <2>5, Zenon DEF AloneInv
<1>5. CASE calls[c].pc = "write_blob"
  <2>1. \A x \in Conn : x # c => calls[x].pc = "idle"
    BY <1>5, BusyAlone, Zenon
  <2>2. BusyInv' /\ \A x \in Conn : CallOK(calls[x])'
    BY <1>1, <2>1, LastReturns, Zenon
  <2>3. ~torn' => dek = {}
    BY <1>1, <1>5, Zenon DEF HalfRotated
  <2>4. dek = {} => DOMAIN secrets = {}
    BY <1>5, CallKnown, Zenon DEF CallOK
  <2>5. RestInv'
    BY <1>1, <2>3, <2>4, Zenon DEF RestInv
  <2> QED
    BY <2>2, <2>5, Zenon DEF AloneInv
<1> QED
  BY <1>1, <1>2, <1>3, <1>4, <1>5, Zenon

(* The process dies at any point and comes back without its key.           *)
LEMMA RestartStep ==
    ASSUME AloneInv, StateInv', Restart
    PROVE  AloneInv'
<1>1. /\ UNCHANGED <<secrets, persisted>> /\ dek' = {}
      /\ calls' = [x \in Conn |-> [pc |-> "idle"]]
      /\ torn' = (torn \/ \E x \in Conn : HalfRotated(x))
  BY Zenon DEF Restart
<1>2. \A x \in Conn : calls'[x].pc = "idle"
  BY <1>1, Zenon
<1>3. BusyInv' /\ \A x \in Conn : CallOK(calls[x])'
  BY <1>2, Zenon DEF BusyInv, Rotating, CallOK
<1>4. RestInv'
  <2>1. SUFFICES ASSUME ~torn' PROVE \A n \in DOMAIN secrets : KeyOf(secrets[n]) \in persisted
    BY <1>1, Zenon DEF RestInv
  <2>2. ~torn /\ \A x \in Conn : ~HalfRotated(x)
    BY <1>1, <2>1, ZenonT(40)
  <2>3. CASE \A x \in Conn : calls[x].pc \in {"idle", "put"}
    BY <2>2, <2>3, Zenon DEF AloneInv, RestInv
  <2>4. ASSUME NEW c \in Conn, calls[c].pc \notin {"idle", "put"}
        PROVE  \A n \in DOMAIN secrets : KeyOf(secrets[n]) \in persisted
    <3>1. PICK k : k = calls[c] /\ CallOK(k) /\ k \in Calls
      BY CallKnown, Zenon
    <3>2. k.pc \in {"read", "rotate_key", "write_blob", "swap"}
      BY <2>4, <3>1, CallShape, Zenon
    <3>3. CASE k.pc \in {"read", "rotate_key"}
      <4>1. \A n \in DOMAIN secrets : KeyOf(secrets[n]) # k.new
        BY <2>2, <3>1, <3>3, Zenon DEF HalfRotated, KeyOf
      <4> QED
        BY <2>2, <3>1, <3>3, <4>1, Zenon DEF CallOK, Under
    <3>4. CASE k.pc = "write_blob"
      BY <2>2, <3>1, <3>4, Zenon DEF HalfRotated, CallOK
    <3>5. CASE k.pc = "swap"
      BY <3>1, <3>5, Zenon DEF CallOK, Under
    <3> QED
      BY <3>2, <3>3, <3>4, <3>5, Zenon
  <2> QED
    BY <2>3, <2>4, Zenon
<1> QED
  BY <1>3, <1>4, Zenon DEF AloneInv

-----------------------------------------------------------------------------
(* The inductive invariant holds at first ...                              *)
LEMMA RotationInit ==
    ASSUME Init
    PROVE  RotationInv
<1>1. /\ DOMAIN secrets = {} /\ dek = {} /\ torn = FALSE /\ crossed = FALSE
      /\ restored = {}
      /\ calls \in [Conn -> Calls] /\ \A x \in Conn : calls[x].pc = "idle"
  BY CallsBuilt, Zenon DEF Init
<1>2. StateInv
  BY <1>1, Zenon DEF Init, StateInv
<1>3. BusyInv /\ RestInv /\ PlaintextKept
  BY <1>1, Zenon DEF BusyInv, Rotating, RestInv, PlaintextKept
<1>4. \A x \in Conn : CallOK(calls[x]) /\ CarriesOK(calls[x])
  BY <1>1, Zenon DEF CallOK, CarriesOK
<1> QED
  BY <1>2, <1>3, <1>4, Zenon DEF RotationInv, TextInv, AloneInv

(* What was crossed stays so.                                              *)
LEMMA CrossedStays ==
    ASSUME [Next]_vars, crossed
    PROVE  crossed'
<1>1. CASE UNCHANGED vars
  BY <1>1, Zenon DEF vars
<1>2. CASE LoadDek \/ CreateInKeychain \/ Restart
  BY <1>2, Zenon DEF LoadDek, CreateInKeychain, Restart
<1>3. ASSUME NEW c \in Conn,
             \/ CreateWithKms(c) \/ Encrypt(c) \/ Put(c) \/ Delete(c)
             \/ BeginRotate(c) \/ ReadOne(c) \/ BatchTransaction(c) \/ BatchOne(c)
             \/ RotateKey(c) \/ WriteBlob(c) \/ SwapDek(c) \/ BackendFails(c)
      PROVE  crossed'
  BY <1>3, Zenon
  DEF CreateWithKms, Encrypt, Put, Delete, BeginRotate, ReadOne, BatchTransaction,
      BatchOne, RotateKey, WriteBlob, SwapDek, BackendFails
<1> QED
  BY <1>1, <1>2, <1>3, Zenon DEF Next

(* ... and is preserved.                                                   *)
LEMMA AloneStep ==
    ASSUME AloneInv, StateInv', ~crossed', [Next]_vars
    PROVE  AloneInv'
<1>1. CASE UNCHANGED vars
  <2>1. UNCHANGED <<config, secrets, persisted, dek, calls, drawn, torn>>
    BY <1>1, Zenon DEF vars
  <2>2. BusyInv' /\ RestInv'
    BY <2>1, Zenon DEF AloneInv, BusyInv, Rotating, RestInv
  <2>3. ASSUME NEW c \in Conn PROVE CallOK(calls[c])'
    <3>1. PICK k : k = calls[c] /\ k = calls'[c] /\ CallOK(k)
      BY <2>1, CallKnown, Zenon
    <3>2. CallOK(k)'
      BY <2>1, <3>1, Zenon DEF CallOK, Under
    <3> QED
      BY <3>1, <3>2 DEF CallOK, Under
  <2> QED
    BY <2>2, <2>3, Zenon DEF AloneInv
<1>2. CASE Restart
  BY <1>2, RestartStep, Zenon
<1>3. CASE LoadDek \/ CreateInKeychain
  BY <1>3, InitializeStep, Zenon
<1>4. ASSUME NEW c \in Conn,
             \/ CreateWithKms(c) \/ Encrypt(c) \/ Put(c) \/ Delete(c)
             \/ BeginRotate(c) \/ ReadOne(c) \/ BatchTransaction(c) \/ BatchOne(c)
             \/ RotateKey(c) \/ WriteBlob(c) \/ SwapDek(c) \/ BackendFails(c)
      PROVE  AloneInv'
  BY <1>4, CreateWithKmsStep, EncryptStep, PutStep, DeleteStep, BeginRotateStep,
     ReadOneStep, BatchTransactionStep, BatchOneStep, RotateKeyStep, WriteBlobStep,
     SwapDekStep, BackendFailsStep, Zenon
<1> QED
  BY <1>1, <1>2, <1>3, <1>4, Zenon DEF Next

LEMMA RotationStep ==
    ASSUME RotationInv, [Next]_vars
    PROVE  RotationInv'
<1>1. TextInv'
  BY TextStep, Zenon DEF RotationInv
<1>2. ASSUME ~crossed' PROVE AloneInv'
  <2>1. ~crossed
    BY <1>2, CrossedStays, Zenon
  <2>2. AloneInv /\ StateInv'
    BY <1>1, <2>1, Zenon DEF RotationInv, TextInv
  <2> QED
    BY <1>2, <2>2, AloneStep, Zenon
<1> QED
  BY <1>1, <1>2, Zenon DEF RotationInv

(* A step that swaps a key in finds every secret under it.                 *)
LEMMA SwapReaches ==
    ASSUME AloneInv, [Next]_vars, NEW c \in Conn, SwapsIn(c)
    PROVE  Opens(dek')
<1>0. calls[c].pc = "swap" /\ calls'[c].pc = "idle" /\ dek' # {}
  BY Zenon DEF SwapsIn
<1>1. \A x \in Conn : x # c => calls[x].pc = "idle"
  BY <1>0, BusyAlone, Zenon
<1>2. PICK k : k = calls[c] /\ CallOK(k) /\ k.pc = "swap" /\ calls \in [Conn -> Calls]
  BY <1>0, ZenonT(40) DEF AloneInv, StateInv
<1>3. SwapDek(c)
  <2>1. vars' # vars
    BY <1>0, <1>2, Zenon DEF vars
  <2>2. ~Restart /\ ~LoadDek /\ ~CreateInKeychain
    BY <1>0, Zenon DEF Restart, LoadDek, CreateInKeychain, Quiet, Idle
  <2>3. PICK d \in Conn :
          \/ CreateWithKms(d) \/ Encrypt(d) \/ Put(d) \/ Delete(d)
          \/ BeginRotate(d) \/ ReadOne(d) \/ BatchTransaction(d) \/ BatchOne(d)
          \/ RotateKey(d) \/ WriteBlob(d) \/ SwapDek(d) \/ BackendFails(d)
    BY <2>1, <2>2, Zenon DEF Next
  <2>4. calls' # calls
    BY <1>0, <1>2, Zenon
  <2>5. CASE d = c
    BY <1>2, <2>3, <2>4, <2>5, ZenonT(40)
    DEF CreateWithKms, Quiet, Idle, Encrypt, Put, Delete, BeginRotate, ReadOne,
        BatchTransaction, BatchOne, RotateKey, WriteBlob, BackendFails
  <2>6. CASE d # c
    <3>1. calls'[c] # calls[c]
      BY <1>0, <1>2, Zenon
    <3> QED
      BY <1>1, <1>2, <2>3, <2>4, <2>6, <3>1, ZenonT(40)
      DEF CreateWithKms, Quiet, Idle, Encrypt, Put, Delete, BeginRotate, ReadOne,
          BatchTransaction, BatchOne, RotateKey, WriteBlob, SwapDek, BackendFails,
          Goto, Return
  <2> QED
    BY <2>5, <2>6, Zenon
<1>4. dek' = {k.new}
  BY <1>2, <1>3, Zenon DEF SwapDek
<1>5. \A n \in DOMAIN secrets : secrets[n] \in Sealed /\ KeyOf(secrets[n]) = k.new
  BY <1>2, ZenonT(40) DEF AloneInv, StateInv, CallOK, Under
<1>6. \A n \in DOMAIN secrets : Decrypt(secrets[n], k.new) # {}
  BY <1>5, Opening, Zenon
<1> QED
  BY <1>4, <1>6, Zenon DEF Opens

(* The invariant, of every behaviour.                                      *)
LEMMA RotationInvariant == Spec => []RotationInv
<1>1. Init => RotationInv
  BY RotationInit, Zenon
<1>2. RotationInv /\ [Next]_vars => RotationInv'
  BY RotationStep, Zenon
<1> QED
  BY <1>1, <1>2, PTL DEF Spec

(* TypeOK of the rotation: the rows are sealed under drawn keys by one of  *)
(* the two algorithms, and memory and key source hold one key each.        *)
THEOREM RotationTyped == Spec => []TypeOK
<1>1. RotationInv => TypeOK
  <2>1. SUFFICES ASSUME RotationInv PROVE TypeOK
    BY Zenon
  <2>2. StateInv
    BY <2>1, Zenon DEF RotationInv, TextInv
  <2>3. \A n \in DOMAIN secrets :
          \E a \in CipherAlgorithms, v \in Value, k \in Key : secrets[n] = Seal(a, v, k)
    BY <2>2 DEF StateInv, Sealed
  <2> QED
    BY <2>2, <2>3, Zenon DEF StateInv, TypeOK
<1> QED
  BY <1>1, RotationInvariant, PTL

(* rotate_dek never changes what is stored under a name nor brings a       *)
(* deleted secret back, whichever connections store, delete and rotate at  *)
(* once and wherever rotations are torn; names deleted and stored again    *)
(* between a rotation's read and its write are the exception.              *)
THEOREM PlaintextsSurvive == Spec => []PlaintextKept
<1>1. RotationInv => PlaintextKept
  BY Zenon DEF RotationInv, TextInv
<1> QED
  BY <1>1, RotationInvariant, PTL

(* Unless a rotation was torn, or overlapped a store_secret or another     *)
(* rotation, the persisted key opens every secret whenever no call is in   *)
(* flight, and a key in memory is the persisted one (initialize,           *)
(* rotate_dek, and crashes, failures and deletions anywhere in them).      *)
THEOREM KeysAgree == Spec => []KeyAgreement
<1>1. RotationInv => KeyAgreement
  <2>1. SUFFICES ASSUME RotationInv, ~torn, ~crossed, Quiet
                 PROVE  Opens(persisted) /\ dek \in {{}, persisted}
    BY Zenon DEF KeyAgreement
  <2>2. AloneInv
    BY <2>1, Zenon DEF RotationInv
  <2>3. /\ \A n \in DOMAIN secrets : KeyOf(secrets[n]) \in persisted
        /\ dek \in {{}, persisted}
    BY <2>1, <2>2, Zenon DEF AloneInv, RestInv, Quiet, Idle
  <2>4. \A n \in DOMAIN secrets : Decrypt(secrets[n], KeyOf(secrets[n])) # {}
    BY <2>2, Opening, Zenon DEF AloneInv, StateInv
  <2> QED
    BY <2>3, <2>4, Zenon DEF Opens
<1> QED
  BY <1>1, RotationInvariant, PTL

(* When rotate_dek swaps its key in, every secret opens with it, unless a  *)
(* rotation overlapped a store_secret or another rotation.                 *)
THEOREM RotationComplete == Spec => AloneRotationReachesAll
<1>1. RotationInv /\ [Next]_vars
        => [\A c \in Conn : SwapsIn(c) /\ ~crossed => Opens(dek')]_vars
  BY SwapReaches, Zenon DEF RotationInv
<1> QED
  BY <1>1, RotationInvariant, PTL DEF Spec, AloneRotationReachesAll
=============================================================================
