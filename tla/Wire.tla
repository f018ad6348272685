------------------------------- MODULE Wire -------------------------------
(* A VaultClient and a VaultServer on the two ends of a stream: handshake,   *)
(* authentication, requests and their responses.                             *)
(*                                                                           *)
(* Each member of Conns is one connection: the VaultClient on one side, the  *)
(* task handle_connection on the other, up and down the frames in flight.    *)
(* The vault behind dispatch answers with success or an error; what it does  *)
(* is the subject of Vault.  A caller may drop the future of a request       *)
(* (tokio::select!, timeout): the client object stays usable, and whatever   *)
(* the server answers is left in the stream.  Dropped in the middle of a     *)
(* write, it leaves a torn frame, after which the server reads frames        *)
(* misaligned; dropped in the middle of a read, it leaves the rest of a      *)
(* response, after which the client does.  The requests written on a         *)
(* connection have the ids 1, 2, ...; Nil is Uuid::nil().  unanswered, torn, *)
(* registered and last are history variables.                                *)
EXTENDS Naturals, Sequences

CONSTANTS Conns,        \* connections
          Agents,       \* agent names a request can carry
          Tokens,       \* bearer tokens
          Identities,   \* identities an operator may register
          Hellos,       \* hellos the clients open with
          Calls,        \* calls the clients make: method, agent, validity
          Transport,    \* "tcp", "uds" or "vsock"
          AllowAll,     \* TRUE: AllowAllAdmin, FALSE: TokenAuthenticator
          MaxRequests   \* bound: requests per connection

VARIABLES tokens,     \* TokenAuthenticator::tokens: an option per token
          accepting,  \* the accept loop is running
          client,     \* per connection: the client's position and request
          up,         \* frames from client to server
          down,       \* frames from server to client
          server,     \* per connection: handle_connection
          outcome,    \* per connection: what the last request returned
          last,       \* per connection: the last operation the vault was given
          unanswered, \* requests written in full whose call ended, on a
                      \* stream that goes on, without a response
          torn,       \* a caller went away in the middle of a write
          registered  \* per connection: the identities its token stood for
                      \* from its hello to its authentication, afterwards
                      \* the one of them it was admitted with

vars == <<tokens, accepting, client, up, down, server, outcome, last,
          unanswered, torn, registered>>

AllMethods == {"store_secret", "request_lease", "access_secret",
               "revoke_lease", "revoke_all_for_agent", "list_secrets",
               "renew_lease", "delete_secret"}

ADMIN_METHODS == {"store_secret", "delete_secret", "list_secrets"}

Role == {"admin", "agent", "orchestrator"}

(* ConnectionIdentity without its label; the agent is an option.             *)
Identity == [role : Role, agent : {{}} \cup {{a} : a \in Agents}]

ASSUME ParametersOK ==
    /\ Identities \subseteq Identity
    /\ Calls \subseteq [method : AllMethods, agent : Agents, valid : BOOLEAN]
    /\ Transport \in {"tcp", "uds", "vsock"}
    /\ AllowAll \in BOOLEAN
    /\ MaxRequests \in Nat
    /\ \A h \in Hellos : /\ h.protocol \in {"zerolease", "other"}
                         /\ h.version \in Nat
                         /\ h.token = {} \/ \E t \in Tokens : h.token = {t}

PROTOCOL_NAME == "zerolease"
CURRENT_VERSION == 1

Nil == 0
TornFrame == [id |-> Nil, kind |-> "torn"]

(* The bytes of a response a cancelled read has left in the stream.          *)
CutResponse == [id |-> Nil, kind |-> "torn", ok |-> FALSE, type |-> "error"]

---------------------------------------------------------------------------
(* Messages.                                                                 *)

ClientHello(h) == [id |-> Nil, kind |-> "hello", hello |-> h]

ServerHello(isOk) == [id |-> Nil, kind |-> "hello", ok |-> isOk]

(* Methods with an agent parameter carry one, the others none; valid says    *)
(* whether the parameters parse (other implementations of the client exist). *)
Request(i, call) ==
    [id |-> i, kind |-> "request", method |-> call.method,
     agent |-> IF call.method \in {"request_lease", "revoke_all_for_agent"}
               THEN {call.agent} ELSE {},
     valid |-> call.valid]

ResultType(m) ==
    CASE m = "store_secret" -> "metadata"
      [] m \in {"request_lease", "renew_lease"} -> "grant"
      [] m = "access_secret" -> "secret"
      [] m = "revoke_all_for_agent" -> "count"
      [] m = "list_secrets" -> "list"
      [] OTHER -> "empty"

Success(i, m) ==
    [id |-> i, kind |-> "response", ok |-> TRUE, type |-> ResultType(m)]

(* Response::from_error and Response::protocol_error.                        *)
Failure(i) == [id |-> i, kind |-> "response", ok |-> FALSE, type |-> "error"]

(* The typed client methods: two of them discard the result value, the       *)
(* others parse it.                                                          *)
Parses(m, type) ==
    m \in {"revoke_lease", "delete_secret"} \/ type = ResultType(m)

---------------------------------------------------------------------------
(* The peer a listener reports with an accepted stream.                      *)

TcpPeer == {[kind |-> "tcp", hash |-> {}]}
UdsPeer == {[kind |-> "unix", hash |-> {}], [kind |-> "anonymous", hash |-> {}]}
VsockPeer == {[kind |-> "vsock", hash |-> {}]}

PeersOf(transport) ==
    CASE transport = "tcp" -> TcpPeer
      [] transport = "uds" -> UdsPeer
      [] transport = "vsock" -> VsockPeer

(* PeerIdentity::set_token_hash; a token stands for its hash.                *)
WithTokenHash(peer, token) ==
    IF peer.kind = "tcp" /\ token # {} THEN [peer EXCEPT !.hash = token]
                                       ELSE peer

---------------------------------------------------------------------------
(* Authentication.                                                           *)

Register(t, i) ==
    /\ tokens' = [tokens EXCEPT ![t] = {i}]
    /\ registered' = [c \in Conns |->
                         registered[c] \cup
                            {r \in {i} : /\ server[c].pc = "auth"
                                        /\ t \in server[c].token}]
    /\ UNCHANGED <<accepting, client, up, down, server, outcome, last,
                   unanswered, torn>>

Revoke(t) ==
    /\ tokens' = [tokens EXCEPT ![t] = {}]
    /\ UNCHANGED <<accepting, client, up, down, server, outcome, last,
                   unanswered, torn, registered>>

AllowAllAdmin == [role |-> "admin", agent |-> {}]

(* Authenticator::authenticate: an option of an identity.                    *)
Authenticated(token) ==
    IF AllowAll THEN {AllowAllAdmin}
                ELSE UNION {tokens[t] : t \in token}

---------------------------------------------------------------------------
(* The client.                                                               *)

NoRequest == [id |-> Nil, kind |-> "none"]

(* connect_with_hello up to the hello; the stream waits in the listener.     *)
Connect(c, h) ==
    /\ client[c].pc = "off"
    /\ client' = [client EXCEPT ![c].pc = "hello"]
    /\ up' = [up EXCEPT ![c] = <<ClientHello(h)>>]
    /\ server' = [server EXCEPT ![c].pc = "backlog"]
    /\ UNCHANGED <<tokens, accepting, down, outcome, last, unanswered, torn,
                   registered>>

(* connect_with_hello from the ServerHello on.                               *)
TakeServerHello(c) ==
    /\ client[c].pc = "hello"
    /\ down[c] # <<>>
    /\ client' = [client EXCEPT ![c].pc =
                      IF Head(down[c]).ok THEN "open" ELSE "gone"]
    /\ down' = [down EXCEPT ![c] = Tail(@)]
    /\ UNCHANGED <<tokens, accepting, up, server, outcome, last, unanswered,
                   torn, registered>>

(* What a call returned, and the id of the last response that was taken.     *)
Returned(r, i, as) == [id |-> r.id, method |-> r.method, from |-> i, as |-> as]

Pending(i) == [id |-> Nil, method |-> "none", from |-> i, as |-> "none"]

(* The request a call makes: a new id.                                       *)
NextRequest(c, call) == Request(client[c].sent + 1, call)

(* VaultClient::request up to the end of write_frame.                        *)
SendRequest(c, call) ==
    /\ client[c].pc = "open"
    /\ client[c].sent < MaxRequests
    /\ LET r == NextRequest(c, call)
       IN  /\ client' = [client EXCEPT ![c] =
                             [pc |-> "waiting", ask |-> r, sent |-> r.id]]
           /\ up' = [up EXCEPT ![c] = Append(@, r)]
    /\ outcome' = [outcome EXCEPT ![c] = Pending(@.from)]
    /\ UNCHANGED <<tokens, accepting, down, server, last, unanswered, torn,
                   registered>>

\* faulty: the size is looked at after the write
RequestTooLargeSent(c, call) ==
    /\ client[c].pc = "open"
    /\ client[c].sent < MaxRequests
    /\ call.method = "store_secret"
    /\ up' = [up EXCEPT ![c] = Append(@, NextRequest(c, call))]
    /\ client' = [client EXCEPT ![c].sent = @ + 1]
    /\ UNCHANGED <<tokens, accepting, down, server, outcome, last, unanswered,
                   torn, registered>>

(* write_frame refuses a payload over MAX_FRAME_SIZE before the first byte:  *)
(* the call fails and the connection is as it was.                           *)
RequestTooLarge(c, call) ==
    /\ client[c].pc = "open"
    /\ client[c].sent < MaxRequests
    /\ call.method = "store_secret"
    /\ outcome' = [outcome EXCEPT ![c] =
                      Returned(NextRequest(c, call), Nil, "transport")]
    /\ UNCHANGED <<tokens, accepting, client, up, down, server, last,
                   unanswered, torn, registered>>

(* A read was cut short, and the next byte is in the middle of a response.   *)
Misaligned(s) == s # <<>> /\ Head(s).kind = "torn"

(* The rest of VaultClient::request and the typed method: the next response  *)
(* in the stream is the answer; its id is not compared with the request's.   *)
TakeResponse(c) ==
    /\ client[c].pc = "waiting"
    /\ down[c] # <<>> /\ ~Misaligned(down[c])
    /\ LET resp == Head(down[c])
           r == client[c].ask
           as == IF ~resp.ok THEN "remote"
                 ELSE IF Parses(r.method, resp.type) THEN "ok" ELSE "transport"
       IN  outcome' = [outcome EXCEPT ![c] = Returned(r, resp.id, as)]
    /\ down' = [down EXCEPT ![c] = Tail(@)]
    /\ client' = [client EXCEPT ![c].pc = "open", ![c].ask = NoRequest]
    /\ UNCHANGED <<tokens, accepting, up, server, last, unanswered, torn,
                   registered>>

(* A read or write that fails once the server closed the stream; responses   *)
(* still in flight may be lost with it.                                      *)
StreamFails(c) ==
    /\ server[c].pc = "closed"
    /\ \/ /\ client[c].pc = "waiting"
          /\ outcome' = [outcome EXCEPT ![c] =
                             Returned(client[c].ask, Nil, "transport")]
          /\ client' = [client EXCEPT ![c].pc = "open", ![c].ask = NoRequest]
       \/ /\ client[c].pc = "hello"
          /\ client' = [client EXCEPT ![c].pc = "gone"]
          /\ UNCHANGED outcome
    /\ down' = [down EXCEPT ![c] = <<>>]
    /\ UNCHANGED <<tokens, accepting, up, server, last, unanswered, torn,
                   registered>>

(* What reads that do not end with a whole frame can leave of a stream s:    *)
(* its first k frames are gone, and the rest is aligned or begins with what  *)
(* is left of the last of them.                                              *)
Leftover(s, k) ==
    LET rest == SubSeq(s, k + 1, Len(s))
    IN  {rest, <<CutResponse>> \o rest}

(* The caller drops the future of a request that is waiting for its          *)
(* response.  read_frame may have taken some bytes of it: between the length *)
(* and the payload, or within either.  In a stream that is misaligned        *)
(* already, the bytes it took may be those of several frames.                *)
Abandon(c) ==
    /\ client[c].pc = "waiting"
    /\ client' = [client EXCEPT ![c].pc = "open", ![c].ask = NoRequest]
    /\ unanswered' = [unanswered EXCEPT ![c] = @ + 1]
    /\ LET s == down[c]
       IN  \/ UNCHANGED down
          \/ /\ s # <<>> /\ ~Misaligned(s)
             /\ down' = [down EXCEPT ![c] = <<CutResponse>> \o Tail(s)]
          \/ /\ Misaligned(s)
             /\ \E k \in 1 .. Len(s) : \E left \in Leftover(s, k) :
                   down' = [down EXCEPT ![c] = left]
    /\ UNCHANGED <<tokens, accepting, up, server, outcome, last, torn,
                   registered>>

(* VaultClient::request on a misaligned stream: the four bytes read as a     *)
(* length are too large, or that many bytes are there and are no response.   *)
(* The call fails, and the next one reads on from where this one stopped.    *)
(* While fewer bytes are there the call waits.                               *)
ReadMisaligned(c) ==
    /\ client[c].pc = "waiting"
    /\ Misaligned(down[c])
    /\ \E k \in 1 .. Len(down[c]) : \E left \in Leftover(down[c], k) :
          down' = [down EXCEPT ![c] = left]
    /\ outcome' = [outcome EXCEPT ![c] =
                      Returned(client[c].ask, Nil, "transport")]
    /\ client' = [client EXCEPT ![c].pc = "open", ![c].ask = NoRequest]
    /\ unanswered' = [unanswered EXCEPT ![c] = @ + 1]
    /\ UNCHANGED <<tokens, accepting, up, server, last, torn, registered>>

(* The caller drops the future in the middle of write_frame; once per        *)
(* connection in the model.                                                  *)
AbandonWrite(c) ==
    /\ client[c].pc = "open"
    /\ ~torn[c]
    /\ up' = [up EXCEPT ![c] = Append(@, TornFrame)]
    /\ torn' = [torn EXCEPT ![c] = TRUE]
    /\ UNCHANGED <<tokens, accepting, client, down, server, outcome, last,
                   unanswered, registered>>

(* The client is dropped; its end of the stream closes.                      *)
DropClient(c) ==
    /\ client[c].pc \in {"hello", "open"}
    /\ client' = [client EXCEPT ![c].pc = "gone"]
    /\ UNCHANGED <<tokens, accepting, up, down, server, outcome, last,
                   unanswered, torn, registered>>

---------------------------------------------------------------------------
(* The server.                                                               *)

(* serve and serve_with_shutdown: one task per accepted connection.          *)
Accept(c) ==
    /\ accepting
    /\ server[c].pc = "backlog"
    /\ \E peer \in PeersOf(Transport) :
           server' = [server EXCEPT ![c].pc = "hello", ![c].peer = {peer}]
    /\ UNCHANGED <<tokens, accepting, client, up, down, outcome, last,
                   unanswered, torn, registered>>

(* The shutdown signal, or an error of accept: no new connections, while     *)
(* the spawned tasks go on.                                                  *)
Shutdown ==
    /\ accepting
    /\ accepting' = FALSE
    /\ UNCHANGED <<tokens, client, up, down, server, outcome, last, unanswered,
                   torn, registered>>

(* write_frame towards the client: a client that is gone may make it fail,   *)
(* which ends the task; otherwise the task goes on at next.                  *)
WriteThen(c, frame, next) ==
    \/ /\ down' = [down EXCEPT ![c] = Append(@, frame)]
       /\ server' = [server EXCEPT ![c] = next]
    \/ /\ client[c].pc = "gone"
       /\ server' = [server EXCEPT ![c].pc = "closed"]
       /\ UNCHANGED down

Acceptable(h) == h.protocol = PROTOCOL_NAME /\ h.version <= CURRENT_VERSION

(* The handshake: the hello is answered before anyone is authenticated.      *)
Handshake(c) ==
    /\ server[c].pc = "hello"
    /\ LET h == Head(up[c]).hello
       IN  WriteThen(c, ServerHello(Acceptable(h)),
                     [server[c] EXCEPT !.pc = IF Acceptable(h) THEN "auth"
                                                               ELSE "closed",
                                       !.token = h.token])
    /\ up' = [up EXCEPT ![c] = Tail(@)]
    /\ registered' = [registered EXCEPT ![c] =
                         Authenticated(Head(up[c]).hello.token)]
    /\ UNCHANGED <<tokens, accepting, client, outcome, last, unanswered, torn>>

(* The token's hash goes into the peer; a connection that is not             *)
(* authenticated is closed without a word.                                   *)
Authenticate(c) ==
    /\ server[c].pc = "auth"
    /\ LET found == Authenticated(server[c].token)
       IN  /\ server' = [server EXCEPT
                            ![c].pc = IF found = {} THEN "closed" ELSE "serving",
                            ![c].peer = {WithTokenHash(p, server[c].token) :
                                            p \in @},
                            ![c].identity = found]
           /\ registered' = [registered EXCEPT ![c] = @ \cap found]
    /\ UNCHANGED <<tokens, accepting, client, up, down, outcome, last,
                   unanswered, torn>>

\* faulty: the frame stays in the buffer
ReadRequestPeeks(c) ==
    /\ server[c].pc = "serving"
    /\ up[c] # <<>>
    /\ Head(up[c]).kind = "request"
    /\ server' = [server EXCEPT ![c].pc = "dispatch", ![c].job = Head(up[c])]
    /\ UNCHANGED <<tokens, accepting, client, up, down, outcome, last,
                   unanswered, torn, registered>>

(* The request loop takes the next frame.                                    *)
ReadRequest(c) ==
    /\ server[c].pc = "serving"
    /\ up[c] # <<>>
    /\ Head(up[c]).kind = "request"
    /\ server' = [server EXCEPT ![c].pc = "dispatch", ![c].job = Head(up[c])]
    /\ up' = [up EXCEPT ![c] = Tail(@)]
    /\ UNCHANGED <<tokens, accepting, client, down, outcome, last, unanswered,
                   torn, registered>>

(* What read_frame makes of a torn frame: it takes its missing bytes from    *)
(* the frames behind it.  The payload is no request, and the next length is  *)
(* read in the middle of a frame, or at a frame that happens to start        *)
(* there; or the length itself is too large and the connection ends.         *)
ReadGarbage(c) ==
    /\ server[c].pc = "serving"
    /\ Len(up[c]) >= 2
    /\ Head(up[c]).kind = "torn"
    /\ \/ \E k \in 2 .. Len(up[c]) :
             LET rest == SubSeq(up[c], k + 1, Len(up[c]))
             IN  /\ up' \in {[up EXCEPT ![c] = rest],
                             [up EXCEPT ![c] = <<TornFrame>> \o rest]}
                 /\ WriteThen(c, Failure(Nil), server[c])
       \/ /\ WriteThen(c, Failure(Nil), [server[c] EXCEPT !.pc = "closed"])
          /\ UNCHANGED up
    /\ UNCHANGED <<tokens, accepting, client, outcome, last, unanswered, torn,
                   registered>>

\* faulty: the end of the stream inside a frame is waited out
ReadEofCleanOnly(c) ==
    /\ server[c].pc = "serving"
    /\ client[c].pc = "gone"
    /\ up[c] = <<>>
    /\ server' = [server EXCEPT ![c].pc = "closed"]
    /\ UNCHANGED <<tokens, accepting, client, up, down, outcome, last,
                   unanswered, torn, registered>>

(* read_frame at the end of the stream: the clean end of the task.           *)
ReadEof(c) ==
    /\ server[c].pc = "serving"
    /\ client[c].pc = "gone"
    /\ up[c] # <<>> => Head(up[c]).kind = "torn"
    /\ server' = [server EXCEPT ![c].pc = "closed"]
    /\ UNCHANGED <<tokens, accepting, client, up, down, outcome, last,
                   unanswered, torn, registered>>

---------------------------------------------------------------------------
(* dispatch.                                                                 *)

\* faulty: the agent named in the request
ResolveAgentTrusting(identity, requested) == requested

(* The agent the operation is carried out for: a bound connection's own.     *)
ResolveAgent(identity, requested) ==
    IF identity.role = "agent" /\ identity.agent # {} THEN identity.agent
                                                      ELSE requested

Refused(identity, m) == m \in ADMIN_METHODS /\ identity.role # "admin"

(* Parameters that do not parse, an unknown method.                          *)
Invalid(r) == ~r.valid

Operation(r, identity) ==
    [id |-> r.id, method |-> r.method,
     agent |-> IF r.agent = {} THEN {}
               ELSE ResolveAgent(identity, r.agent)]

(* The vault is called, and answers.                                         *)
Performed(c, r, identity) ==
    /\ last' = [last EXCEPT ![c] = {Operation(r, identity)}]
    /\ \/ \E response \in {Success(r.id, r.method), Failure(r.id)} :
             WriteThen(c, response,
                       [server[c] EXCEPT !.pc = "serving", !.job = NoRequest])
       \/ (* the result does not fit into a frame: the task ends *)
          /\ r.method \in {"access_secret", "list_secrets"}
          /\ server' = [server EXCEPT ![c].pc = "closed"]
          /\ UNCHANGED down

\* faulty: a refused request is answered with success
DispatchAcknowledges(c) ==
    /\ server[c].pc = "dispatch"
    /\ \E identity \in server[c].identity :
          LET r == server[c].job
          IN  IF Refused(identity, r.method) \/ Invalid(r)
              THEN /\ WriteThen(c, Success(r.id, r.method),
                                [server[c] EXCEPT !.pc = "serving",
                                                  !.job = NoRequest])
                   /\ UNCHANGED last
              ELSE Performed(c, r, identity)
    /\ UNCHANGED <<tokens, accepting, client, up, outcome, unanswered, torn,
                   registered>>

\* faulty: a refused request is passed over in silence
DispatchSkips(c) ==
    /\ server[c].pc = "dispatch"
    /\ \E identity \in server[c].identity :
          LET r == server[c].job
          IN  IF Refused(identity, r.method) \/ Invalid(r)
              THEN /\ server' = [server EXCEPT ![c].pc = "serving",
                                               ![c].job = NoRequest]
                   /\ UNCHANGED <<down, last>>
              ELSE Performed(c, r, identity)
    /\ UNCHANGED <<tokens, accepting, client, up, outcome, unanswered, torn,
                   registered>>

Dispatch(c) ==
    /\ server[c].pc = "dispatch"
    /\ \E identity \in server[c].identity :
          LET r == server[c].job
          IN  IF Refused(identity, r.method) \/ Invalid(r)
              THEN /\ WriteThen(c, Failure(r.id),
                                [server[c] EXCEPT !.pc = "serving",
                                                  !.job = NoRequest])
                   /\ UNCHANGED last
              ELSE Performed(c, r, identity)
    /\ UNCHANGED <<tokens, accepting, client, up, outcome, unanswered, torn,
                   registered>>

---------------------------------------------------------------------------
Init ==
    /\ tokens = [t \in Tokens |-> {}]
    /\ accepting = TRUE
    /\ client = [c \in Conns |->
                    [pc |-> "off", ask |-> NoRequest, sent |-> 0]]
    /\ up = [c \in Conns |-> <<>>]
    /\ down = [c \in Conns |-> <<>>]
    /\ server = [c \in Conns |->
                    [pc |-> "none", peer |-> {}, token |-> {},
                     identity |-> {}, job |-> NoRequest]]
    /\ outcome = [c \in Conns |-> Pending(Nil)]
    /\ last = [c \in Conns |-> {}]
    /\ unanswered = [c \in Conns |-> 0]
    /\ torn = [c \in Conns |-> FALSE]
    /\ registered = [c \in Conns |-> {}]

ServerStep(c) ==
    \/ Accept(c)
    \/ Handshake(c)
    \/ Authenticate(c)
    \/ ReadRequest(c)
    \/ ReadGarbage(c)
    \/ ReadEof(c)
    \/ Dispatch(c)

ClientReads(c) ==
    \/ TakeServerHello(c)
    \/ TakeResponse(c)
    \/ StreamFails(c)

Call(c) ==
    \E call \in Calls : SendRequest(c, call) \/ RequestTooLarge(c, call)

Next ==
    \/ \E t \in Tokens : Revoke(t) \/ \E i \in Identities : Register(t, i)
    \/ Shutdown
    \/ \E c \in Conns :
          \/ \E h \in Hellos : Connect(c, h)
          \/ Call(c)
          \/ Abandon(c)
          \/ ReadMisaligned(c)
          \/ AbandonWrite(c)
          \/ DropClient(c)
          \/ ClientReads(c)
          \/ ServerStep(c)

Spec == Init /\ [][Next]_vars

(* The runtime polls every task that can make progress.                      *)
FairSpec ==
    Spec /\ \A c \in Conns : WF_vars(ServerStep(c)) /\ WF_vars(ClientReads(c))

---------------------------------------------------------------------------
(* Properties.                                                               *)

RequestId == 0 .. MaxRequests

RequestFrame ==
    [id : RequestId, kind : {"request"}, method : AllMethods,
     agent : {{}} \cup {{a} : a \in Agents}, valid : BOOLEAN]

UpFrame ==
    RequestFrame \cup {TornFrame} \cup {ClientHello(h) : h \in Hellos}

DownFrame ==
    {ServerHello(isOk) : isOk \in BOOLEAN}
        \cup {CutResponse}
        \cup {Failure(i) : i \in RequestId}
        \cup {Success(i, m) : i \in RequestId, m \in AllMethods}

(* The state of both ends of every stream.                                   *)
StreamsOK ==
    /\ tokens \in [Tokens -> {{}} \cup {{i} : i \in Identity}]
    /\ accepting \in BOOLEAN
    /\ client \in [Conns -> [pc : {"off", "hello", "open", "waiting", "gone"},
                             ask : RequestFrame \cup {NoRequest},
                             sent : RequestId]]
    /\ up \in [Conns -> Seq(UpFrame)]
    /\ down \in [Conns -> Seq(DownFrame)]
    /\ server \in [Conns ->
           [pc : {"none", "backlog", "hello", "auth", "serving", "dispatch",
                  "closed"},
            peer : SUBSET [kind : {"tcp", "unix", "vsock", "anonymous"},
                           hash : SUBSET Tokens],
            token : SUBSET Tokens,
            identity : SUBSET Identity,
            job : RequestFrame \cup {NoRequest}]]
    /\ outcome \in [Conns -> [id : RequestId, method : AllMethods \cup {"none"},
                              from : RequestId,
                              as : {"none", "ok", "remote", "transport"}]]
    /\ last \in [Conns -> SUBSET [id : RequestId, method : AllMethods,
                                 agent : {{}} \cup {{a} : a \in Agents}]]
    /\ unanswered \in [Conns -> Nat]
    /\ torn \in [Conns -> BOOLEAN]

(* Type invariant: the frames under way are of the protocol, and each end is *)
(* at a place handle_connection and VaultClient have.                        *)
TypeOK == StreamsOK /\ registered \in [Conns -> SUBSET Identity]

(* The frames of a connection that are under way, oldest first: responses    *)
(* in the stream, the request being dispatched, requests in the stream.      *)
UnderWay(c) ==
    down[c] \o (IF server[c].pc = "dispatch" THEN <<server[c].job>> ELSE <<>>)
            \o up[c]

(* A connection is answered in order and no request twice, whatever was      *)
(* abandoned on it and however it ended: the ids under way are increasing    *)
(* and later than the response taken last (request loop of                   *)
(* handle_connection, VaultClient::request).                                 *)
RepliesInOrder ==
    \A c \in Conns : LET s == UnderWay(c) IN
       \A i \in 1 .. Len(s) : s[i].id # Nil =>
          /\ outcome[c].from < s[i].id
          /\ \A j \in 1 .. Len(s) : i < j /\ s[j].id # Nil => s[i].id < s[j].id

(* VaultClient::request takes the next response without comparing ids.  What *)
(* it returns is an answer to this request or to an earlier one, and it is   *)
(* behind by no more than the requests whose call ended without a response   *)
(* while the stream went on: those that were cancelled, and those that       *)
(* failed because a cancelled read had left the stream misaligned, however   *)
(* many these are before it is aligned again.  A connection on which no call *)
(* was cancelled pairs every response with its own request.                  *)
AnswerLagBounded ==
    \A c \in Conns :
       outcome[c].from # Nil /\ outcome[c].id # Nil =>
          /\ outcome[c].from <= outcome[c].id
          /\ outcome[c].id - outcome[c].from <= unanswered[c]

(* On a connection on which no call was cancelled, a call that returned Ok   *)
(* was carried out by the vault, under the method that was called.           *)
OkMeansDone ==
    \A c \in Conns :
       outcome[c].as = "ok" /\ unanswered[c] = 0 =>
          \E d \in last[c] : /\ d.id = outcome[c].id
                             /\ d.method = outcome[c].method

(* A token counts from the hello to the authentication.  Whatever happens to *)
(* it meanwhile or later, every operation is carried out with the rights of  *)
(* one identity, which the token stood for in that time: administration by   *)
(* admins alone, an agent with an agent_id as itself, and on TCP with the    *)
(* peer naming the token that was presented.  A token revoked before the     *)
(* hello admits nobody; one revoked after the authentication goes on being   *)
(* served (dispatch, resolve_agent, set_token_hash).                         *)
ServedAsAuthenticated ==
    \A c \in Conns : \A d \in last[c] : LET s == server[c] IN
       /\ \E i \in s.identity \cap registered[c] :
             /\ d.method \in ADMIN_METHODS => i.role = "admin"
             /\ i.role = "agent" /\ i.agent # {} /\ d.agent # {}
                   => d.agent = i.agent
       /\ Transport = "tcp" => \A p \in s.peer : p.hash = s.token

(* docs/guide-vm-deployment.md:169 and docs/design.md:158: revoking a token  *)
(* ends what is done under it.  Refuted: TokenAuthenticator::revoke does not *)
(* reach the connections that were admitted with it.                         *)
RevokedTokenServesNothing ==
    [][\A c \in Conns : last'[c] # last[c] /\ ~AllowAll =>
          Authenticated(server[c].token) # {}]_vars

(* src/auth.rs:25: the agent field in the requests of an agent is ignored.   *)
(* Refuted: an agent registered without an agent_id acts as whomever each    *)
(* request names (resolve_agent).                                            *)
AgentFieldIgnored ==
    \A c \in Conns : \A d \in last[c] : \A i \in server[c].identity :
       i.role = "agent" /\ d.agent # {} => d.agent = i.agent

(* No request waits for ever: it is answered or its stream fails, also when  *)
(* the server has stopped accepting, refused the token, or closed the        *)
(* connection on a result too large for a frame.  The exceptions are a       *)
(* connection with a torn write, where the server may wait for bytes the     *)
(* client thinks it has sent, and one on which a cancelled read left the     *)
(* rest of a response, where the client may wait for a frame as long as four *)
(* bytes out of the middle of that response say.                             *)
RequestsResolved ==
    \A c \in Conns :
       client[c].pc = "waiting" ~>
          client[c].pc # "waiting" \/ torn[c] \/ Misaligned(down[c])

(* The task of a connection whose client is gone ends; only a stream the     *)
(* listener never accepted stays where it is.                                *)
HandlersEnd ==
    \A c \in Conns :
       client[c].pc = "gone" ~>
          \/ server[c].pc = "closed"
          \/ server[c].pc = "backlog" /\ ~accepting

===========================================================================
