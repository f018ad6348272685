-------------------------------- MODULE Sni --------------------------------
(***************************************************************************)
(* extract_sni on the bytes handle_transparent peeks, which are however    *)
(* much of the client's stream has arrived.  Clients are external: they    *)
(* send one well-formed ClientHello, in one TLS record or split over two,  *)
(* perhaps with more behind it.  Offsets count from 0 as in the code;      *)
(* an option is a set of at most one element.                              *)
(***************************************************************************)
EXTENDS Integers, Sequences, SequencesExt

CONSTANTS
    Hellos   \* the ClientHellos clients send, see Hello

VARIABLES
    hello,   \* what the client sends: {} before it does, or {hello}
    arrived  \* how many bytes of it can be peeked

sniVars == <<hello, arrived>>

-----------------------------------------------------------------------------
(* external: the layout of a ClientHello                                   *)

Byte == 0 .. 255

U16(n) == <<n \div 256, n % 256>>

\* lengths of the vectors; per extension its type and either its data or, for
\* server_name (type 0), the names it lists; cut: the handshake bytes in the
\* first record if there are two; behind: what follows
Hello == [session : Nat, suites : Nat, extensions : Seq(
              [type : Nat \ {0}, data : Seq(Byte)] \cup
              [type : {0}, names : Seq([type : Byte, name : Seq(Byte)])]),
          cut : SUBSET Nat, behind : Seq(Byte)]

ASSUME HelloAssumption == Hellos \subseteq Hello

NameEntry(n) == <<n.type>> \o U16(Len(n.name)) \o n.name

ExtensionData(e) ==
    IF e.type # 0 THEN e.data
    ELSE LET list == FlattenSeq([i \in DOMAIN e.names |-> NameEntry(e.names[i])])
         IN  U16(Len(list)) \o list

ExtensionBytes(e) == U16(e.type) \o U16(Len(ExtensionData(e))) \o ExtensionData(e)

Filler(n) == [i \in 1 .. n |-> 0]

\* version, random, session id, suites, compression methods, extensions
Body(h) ==
    LET extensions == FlattenSeq([i \in DOMAIN h.extensions |->
                                      ExtensionBytes(h.extensions[i])])
    IN  <<3, 3>> \o Filler(32) \o <<h.session>> \o Filler(h.session)
        \o U16(h.suites) \o Filler(h.suites) \o <<1, 0>>
        \o IF h.extensions = <<>> THEN <<>> ELSE U16(Len(extensions)) \o extensions

Handshake(h) == <<1, 0>> \o U16(Len(Body(h))) \o Body(h)

Record(fragment) == <<22, 3, 1>> \o U16(Len(fragment)) \o fragment

Stream(h) ==
    LET hs == Handshake(h)
    IN  (IF h.cut = {} THEN Record(hs)
         ELSE LET k == CHOOSE k \in h.cut : TRUE
              IN  Record(SubSeq(hs, 1, k)) \o Record(SubSeq(hs, k + 1, Len(hs))))
        \o h.behind

-----------------------------------------------------------------------------
(* proxy/sni.rs                                                            *)

\* slice::get(a..b)
Get(s, a, b) == {SubSeq(s, a + 1, x) : x \in {b} \cap 0 .. Len(s)}

\* u16::from_be_bytes, u24_to_usize and one byte as usize
Value(bytes) == FoldLeft(LAMBDA n, b : 256 * n + b, 0, bytes)

\* indexing: out of bounds it would panic
At(s, a, b) == Value([i \in 1 .. b - a |-> s[a + i]])

\* parse_server_name: the first entry of type 0
ParseServerName(data) ==
    LET entry[pos \in Nat] ==
            IF pos + 3 > Len(data) THEN {}
            ELSE LET len == At(data, pos + 1, pos + 3)
                 IN  IF At(data, pos, pos + 1) = 0
                     THEN Get(data, pos + 3, pos + 3 + len)
                     ELSE entry[pos + 3 + len]
    IN  IF Len(data) < 2 THEN {} ELSE entry[2]

\* faulty: the type and the length of a skipped extension count as its data
WalkFromHeader(body, start, end) ==
    LET extension[pos \in Nat] ==
            IF pos + 4 > end THEN {}
            ELSE LET len == At(body, pos + 2, pos + 4)
                 IN  IF At(body, pos, pos + 2) = 0
                     THEN UNION {ParseServerName(d) : d \in Get(body, pos + 4, pos + 4 + len)}
                     ELSE extension[pos + (IF len < 4 THEN 4 ELSE len)]
    IN  extension[start]

\* the loop over the extensions, up to server_name
WalkExtensions(body, start, end) ==
    LET extension[pos \in Nat] ==
            IF pos + 4 > end THEN {}
            ELSE LET len == At(body, pos + 2, pos + 4)
                 IN  IF At(body, pos, pos + 2) = 0
                     THEN UNION {ParseServerName(d) : d \in Get(body, pos + 4, pos + 4 + len)}
                     ELSE extension[pos + 4 + len]
    IN  extension[start]

\* behind a vector whose length takes n bytes
Behind(body, pos, n) == {pos + n + Value(len) : len \in Get(body, pos, pos + n)}

\* past session id, cipher suites and compression methods to the extensions
FromHello(body) ==
    LET extensions ==
            UNION {UNION {Behind(body, suites, 1) : suites \in Behind(body, session, 2)} :
                       session \in Behind(body, 34, 1)}
    IN  IF Len(body) < 34 THEN {}
        ELSE UNION {UNION {WalkExtensions(body, pos + 2, pos + 2 + Value(len)) :
                               len \in Get(body, pos, pos + 2)} : pos \in extensions}

FromHandshake(hs) ==
    IF hs = <<>> \/ Head(hs) # 1 THEN {}
    ELSE UNION {UNION {FromHello(body) : body \in Get(hs, 4, 4 + Value(len))} :
                    len \in Get(hs, 1, 4)}

ExtractSni(data) ==
    IF Len(data) < 5 \/ Head(data) # 22 THEN {}
    ELSE UNION {FromHandshake(hs) : hs \in Get(data, 5, 5 + At(data, 3, 5))}

\* to_ascii_lowercase
Lower(name) == [i \in DOMAIN name |-> IF name[i] \in 65 .. 90 THEN name[i] + 32 ELSE name[i]]

\* handle_transparent: the domain it looks up, none if it drops the connection
PeekedDomain(data) == {Lower(name) : name \in ExtractSni(data)}

-----------------------------------------------------------------------------
\* external: the client, and the network between it and the proxy
ClientSends ==
    /\ hello = {}
    /\ \E h \in Hellos : hello' = {h}
    /\ UNCHANGED arrived

Arrives ==
    /\ \E h \in hello : arrived < Len(Stream(h))
    /\ arrived' = arrived + 1
    /\ UNCHANGED hello

SniInit == hello = {} /\ arrived = 0

SniNext == ClientSends \/ Arrives

-----------------------------------------------------------------------------
\* the host a hello names, in lower case
Named(h) ==
    LET names == FlattenSeq([i \in DOMAIN h.extensions |->
                    IF h.extensions[i].type = 0 THEN h.extensions[i].names ELSE <<>>])
        hosts == {i \in DOMAIN names : names[i].type = 0}
    IN  {Lower(names[i].name) : i \in {j \in hosts : \A k \in hosts : j <= k}}

(* Whenever handle_transparent peeks, it looks up the host the client      *)
(* named or none: the name is found exactly if the whole hello is in the   *)
(* first record and has arrived, whatever the lengths of the fields before *)
(* it and wherever the server_name extension stands; a part of a hello is  *)
(* never read as another name.                                             *)
NamedOrDropped ==
    \A h \in hello :
        PeekedDomain(SubSeq(Stream(h), 1, arrived)) =
            IF h.cut = {} /\ arrived >= Len(Record(Handshake(h))) THEN Named(h) ELSE {}
=============================================================================
