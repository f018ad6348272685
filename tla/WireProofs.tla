---------------------------- MODULE WireProofs ----------------------------
(* Proofs about Wire, for any connections, tokens, hellos, calls, transport  *)
(* and bound on the requests: the pairing of responses with requests, what   *)
(* an Ok stands for, and whose rights an operation is carried out with.      *)
EXTENDS Wire, WirePairingProofs

---------------------------------------------------------------------------
(* The inductive invariant.                                                  *)

PairInv(c) ==
    PairOf(client[c], up[c], down[c], server[c].pc, server[c].job, outcome[c],
           last[c], unanswered[c], torn[c])

(* sv: the server's task.  Nothing is carried out before the connection is   *)
(* authenticated, and afterwards only what its identity allows.              *)
Admitted(sv, ops) ==
    /\ sv.pc \in {"none", "backlog", "hello", "auth"} => ops = {}
    /\ sv.pc \in {"hello", "auth"} /\ Transport = "tcp" =>
          \A p \in sv.peer : p.kind = "tcp" /\ p.hash = {}
    /\ sv.pc \in {"serving", "dispatch"} /\ Transport = "tcp" =>
          \A p \in sv.peer : p.hash = sv.token

Served(sv, ops) ==
    \A d \in ops :
       /\ \E i \in sv.identity :
             /\ d.method \in ADMIN_METHODS => i.role = "admin"
             /\ i.role = "agent" /\ i.agent # {} /\ d.agent # {}
                   => d.agent = i.agent
       /\ Transport = "tcp" => \A p \in sv.peer : p.hash = sv.token

RightsOf(sv, ops) == Admitted(sv, ops) /\ Served(sv, ops)

RightsInv(c) == RightsOf(server[c], last[c])

ConnInv(c) == PairInv(c) /\ RightsInv(c)

WireInv == \A c \in Conns : ConnInv(c)

---------------------------------------------------------------------------
(* Streams and frames.                                                       *)

LEMMA Appended ==
    ASSUME NEW S, NEW s \in Seq(S), NEW x \in S
    PROVE  /\ Append(s, x) \in Seq(S)
           /\ Len(s) \in Nat
           /\ Len(Append(s, x)) = Len(s) + 1
           /\ \A i \in 1 .. Len(s) : Append(s, x)[i] = s[i]
           /\ Append(s, x)[Len(s) + 1] = x
  OBVIOUS

LEMMA Shifted ==
    ASSUME NEW S, NEW s \in Seq(S), s # <<>>
    PROVE  /\ Tail(s) \in Seq(S)
           /\ Head(s) = s[1]
           /\ s[1] \in S
           /\ Len(s) \in Nat \ {0}
           /\ Len(Tail(s)) = Len(s) - 1
           /\ \A i \in 1 .. Len(s) - 1 : Tail(s)[i] = s[i + 1]
  OBVIOUS

LEMMA Concatenated ==
    ASSUME NEW S, NEW s \in Seq(S), NEW t \in Seq(S)
    PROVE  /\ s \o t \in Seq(S)
           /\ Len(s \o t) = Len(s) + Len(t)
           /\ \A i \in 1 .. Len(s) + Len(t) :
                 (s \o t)[i] = IF i <= Len(s) THEN s[i] ELSE t[i - Len(s)]
  OBVIOUS

(* The two ways a stream goes on behind what was misread.                      *)
LEMMA GoesOn ==
    ASSUME NEW S, NEW s, NEW k, NEW x,
           s \in Seq(S), k \in 1 .. Len(s), x \in S
    PROVE  /\ SubSeq(s, k + 1, Len(s)) \in Seq(S)
           /\ Len(SubSeq(s, k + 1, Len(s))) = Len(s) - k
           /\ \A i \in 1 .. Len(s) - k : SubSeq(s, k + 1, Len(s))[i] = s[i + k]
           /\ <<x>> \o SubSeq(s, k + 1, Len(s)) \in Seq(S)
           /\ Len(<<x>> \o SubSeq(s, k + 1, Len(s))) = Len(s) - k + 1
           /\ (<<x>> \o SubSeq(s, k + 1, Len(s)))[1] = x
           /\ \A i \in 2 .. Len(s) - k + 1 :
                 (<<x>> \o SubSeq(s, k + 1, Len(s)))[i] = s[i + k - 1]
<1> DEFINE r == SubSeq(s, k + 1, Len(s))
<1>1. /\ r \in Seq(S)
      /\ Len(r) = Len(s) - k
      /\ \A i \in 1 .. Len(s) - k : r[i] = s[i + k]
  OBVIOUS
<1> HIDE DEF r
<1>2. <<x>> \in Seq(S) /\ Len(<<x>>) = 1 /\ <<x>>[1] = x
  OBVIOUS
<1>3. /\ <<x>> \o r \in Seq(S)
      /\ Len(<<x>> \o r) = Len(s) - k + 1
      /\ \A i \in 1 .. Len(s) - k + 1 :
            (<<x>> \o r)[i] = IF i <= 1 THEN x ELSE r[i - 1]
  <2> DEFINE o == <<x>>
  <2>1. o \in Seq(S) /\ Len(o) = 1 /\ o[1] = x
    BY <1>2, Zenon
  <2> HIDE DEF o
  <2>2. /\ o \o r \in Seq(S)
        /\ Len(o \o r) = Len(o) + Len(r)
        /\ \A i \in 1 .. Len(o) + Len(r) :
              (o \o r)[i] = IF i <= Len(o) THEN o[i] ELSE r[i - Len(o)]
    BY <1>1, <2>1, Concatenated, ZenonT(40)
  <2>3. /\ o \o r \in Seq(S)
        /\ Len(o \o r) = Len(s) - k + 1
        /\ \A i \in 1 .. Len(s) - k + 1 :
              (o \o r)[i] = IF i <= 1 THEN x ELSE r[i - 1]
    BY <1>1, <2>1, <2>2
  <2> QED  BY <2>3, Zenon DEF o
<1>4. (<<x>> \o r)[1] = x
  BY <1>3
<1>5. ASSUME NEW i \in 2 .. Len(s) - k + 1
      PROVE  (<<x>> \o r)[i] = s[i + k - 1]
  <2>1. (<<x>> \o r)[i] = r[i - 1]
    BY <1>3
  <2>2. i - 1 \in 1 .. Len(s) - k /\ i - 1 + k = i + k - 1
    OBVIOUS
  <2> QED  BY <2>1, <2>2, <1>1, Zenon
<1> QED  BY <1>1, <1>3, <1>4, <1>5, Zenon DEF r

LEMMA UpFrames ==
    ASSUME NEW f \in UpFrame
    PROVE  /\ f.id \in RequestId
           /\ f.kind \in {"request", "torn", "hello"}
           /\ f.kind = "request" => f \in RequestFrame
           /\ f.kind # "request" => f.id = NilId
           /\ f.kind = "hello" => f.hello \in Hellos
  BY ParametersOK
     DEF UpFrame, RequestFrame, TornFrame, ClientHello, RequestId, Nil, NilId

LEMMA DownFrames ==
    ASSUME NEW f \in DownFrame
    PROVE  f.id \in RequestId /\ f.ok \in BOOLEAN
<1>1. Nil \in RequestId
  BY ParametersOK DEF Nil, RequestId
<1>2. CASE \E b \in BOOLEAN : f = ServerHello(b)
  BY <1>1, <1>2 DEF ServerHello
<1>3. CASE \E i \in RequestId : f = Failure(i)
  BY <1>3 DEF Failure
<1>4. CASE \E i \in RequestId, m \in AllMethods : f = Success(i, m)
  BY <1>4 DEF Success
<1>5. CASE f = CutResponse
  BY <1>1, <1>5 DEF CutResponse
<1> QED  BY <1>2, <1>3, <1>4, <1>5 DEF DownFrame

LEMMA DownMade ==
    /\ \A b \in BOOLEAN : /\ ServerHello(b) \in DownFrame
                          /\ ServerHello(b).id = NilId
    /\ \A i \in RequestId : /\ Failure(i) \in DownFrame
                            /\ Failure(i).id = i
                            /\ Failure(i).ok = FALSE
    /\ \A i \in RequestId, m \in AllMethods : /\ Success(i, m) \in DownFrame
                                              /\ Success(i, m).id = i
<1>1. \A b \in BOOLEAN : ServerHello(b) \in DownFrame /\ ServerHello(b).id = NilId
  <2>1. \A b \in BOOLEAN : ServerHello(b) \in DownFrame
    BY DEF DownFrame
  <2> QED  BY <2>1, Zenon DEF ServerHello, Nil, NilId
<1>2. \A i \in RequestId : /\ Failure(i) \in DownFrame
                           /\ Failure(i).id = i
                           /\ Failure(i).ok = FALSE
  <2>1. \A i \in RequestId : Failure(i) \in DownFrame
    BY DEF DownFrame
  <2> QED  BY <2>1, Zenon DEF Failure
<1>3. \A i \in RequestId, m \in AllMethods : /\ Success(i, m) \in DownFrame
                                             /\ Success(i, m).id = i
  <2>1. \A i \in RequestId, m \in AllMethods : Success(i, m) \in DownFrame
    BY DEF DownFrame
  <2> QED  BY <2>1, Zenon DEF Success
<1> QED  BY <1>1, <1>2, <1>3, Zenon

LEMMA TornMade == TornFrame \in UpFrame /\ TornFrame.id = NilId /\ TornFrame.kind = "torn"
  BY Zenon DEF UpFrame, TornFrame, Nil, NilId

---------------------------------------------------------------------------
(* What is typed about one connection, and what a step leaves alone.         *)

ClientState ==
    [pc : {"off", "hello", "open", "waiting", "gone"},
     ask : RequestFrame \cup {NoRequest},
     sent : RequestId]

ServerState ==
    [pc : {"none", "backlog", "hello", "auth", "serving", "dispatch", "closed"},
     peer : SUBSET [kind : {"tcp", "unix", "vsock", "anonymous"},
                    hash : SUBSET Tokens],
     token : SUBSET Tokens,
     identity : SUBSET Identity,
     job : RequestFrame \cup {NoRequest}]

OutcomeState ==
    [id : RequestId, method : AllMethods \cup {"none"}, from : RequestId,
     as : {"none", "ok", "remote", "transport"}]

OperationType ==
    [id : RequestId, method : AllMethods,
     agent : {{}} \cup {{a} : a \in Agents}]

LEMMA ConnTyped ==
    ASSUME StreamsOK, NEW c \in Conns
    PROVE  /\ client[c] \in ClientState
           /\ server[c] \in ServerState
           /\ outcome[c] \in OutcomeState
           /\ up[c] \in Seq(UpFrame)
           /\ down[c] \in Seq(DownFrame)
           /\ last[c] \subseteq OperationType
           /\ unanswered[c] \in Nat
           /\ torn[c] \in BOOLEAN
  BY Zenon DEF StreamsOK, ClientState, ServerState, OutcomeState, OperationType

(* The numbers of a connection.                                              *)
LEMMA ConnNumbers ==
    ASSUME StreamsOK, NEW c \in Conns
    PROVE  /\ client[c].sent \in Nat
           /\ outcome[c].from \in Nat
           /\ outcome[c].id \in Nat
           /\ unanswered[c] \in Nat
           /\ Len(up[c]) \in Nat
           /\ Len(down[c]) \in Nat
           /\ server[c].job.id \in Nat
           /\ \A k \in 1 .. Len(up[c]) : up[c][k].id \in Nat
           /\ \A j \in 1 .. Len(down[c]) : down[c][j].id \in Nat
           /\ \A d \in last[c] : d.id \in Nat
<1>1. RequestId \subseteq Nat
  BY DEF RequestId
<1>2. client[c].sent \in Nat /\ outcome[c].from \in Nat /\ outcome[c].id \in Nat
  BY <1>1, ConnTyped, Zenon DEF ClientState, OutcomeState
<1>3. Len(up[c]) \in Nat /\ Len(down[c]) \in Nat /\ unanswered[c] \in Nat
  BY ConnTyped
<1>4. server[c].job.id \in Nat
  <2>1. server[c].job \in RequestFrame \cup {NoRequest}
    BY ConnTyped, Zenon DEF ServerState
  <2>2. CASE server[c].job \in RequestFrame
    BY <1>1, <2>2, Zenon DEF RequestFrame
  <2>3. CASE server[c].job = NoRequest
    BY <2>3 DEF NoRequest, Nil, NilId
  <2> QED  BY <2>1, <2>2, <2>3, Zenon
<1>5. ASSUME NEW k \in 1 .. Len(up[c])
      PROVE  up[c][k].id \in Nat
  <2>1. up[c][k] \in UpFrame
    BY ConnTyped
  <2> QED  BY <1>1, <2>1, UpFrames, Zenon
<1>6. ASSUME NEW j \in 1 .. Len(down[c])
      PROVE  down[c][j].id \in Nat
  <2>1. down[c][j] \in DownFrame
    BY ConnTyped
  <2> QED  BY <1>1, <2>1, DownFrames, Zenon
<1>7. \A d \in last[c] : d.id \in Nat
  BY <1>1, ConnTyped, Zenon DEF OperationType
<1> QED  BY <1>2, <1>3, <1>4, <1>5, <1>6, <1>7, Zenon

SameAt(c) ==
    /\ client'[c] = client[c]
    /\ up'[c] = up[c]
    /\ down'[c] = down[c]
    /\ server'[c] = server[c]
    /\ outcome'[c] = outcome[c]
    /\ last'[c] = last[c]
    /\ unanswered'[c] = unanswered[c]
    /\ torn'[c] = torn[c]

(* The invariant of a connection speaks of that connection alone.            *)
LEMMA OthersKept ==
    ASSUME NEW c \in Conns, ConnInv(c), SameAt(c)
    PROVE  ConnInv(c)'
<1>1. PairInv(c)'
  BY Zenon DEF ConnInv, SameAt, PairInv
<1>2. RightsInv(c)'
  BY Zenon DEF ConnInv, RightsInv, SameAt
<1> QED  BY <1>1, <1>2, Zenon DEF ConnInv

---------------------------------------------------------------------------
(* From the state of one connection to the state of all.                     *)

(* A step of connection c leaves it in the state given.                      *)
Changed(c, cl, u, d, sv, out, ops, a, t) ==
    /\ tokens' = tokens /\ accepting' = accepting
    /\ client' = [client EXCEPT ![c] = cl]
    /\ up' = [up EXCEPT ![c] = u]
    /\ down' = [down EXCEPT ![c] = d]
    /\ server' = [server EXCEPT ![c] = sv]
    /\ outcome' = [outcome EXCEPT ![c] = out]
    /\ last' = [last EXCEPT ![c] = ops]
    /\ unanswered' = [unanswered EXCEPT ![c] = a]
    /\ torn' = [torn EXCEPT ![c] = t]

Typed(cl, u, d, sv, out, ops, a, t) ==
    /\ cl \in ClientState
    /\ u \in Seq(UpFrame)
    /\ d \in Seq(DownFrame)
    /\ sv \in ServerState
    /\ out \in OutcomeState
    /\ ops \subseteq OperationType
    /\ a \in Nat
    /\ t \in BOOLEAN

(* What has to be shown of a step.                                           *)
Settled(c) == StreamsOK' /\ ConnInv(c)' /\ \A e \in Conns \ {c} : SameAt(e)

LEMMA Settles ==
    ASSUME StreamsOK, NEW c \in Conns, NEW cl, NEW u, NEW d, NEW sv, NEW out,
           NEW ops, NEW a, NEW t,
           Changed(c, cl, u, d, sv, out, ops, a, t),
           Typed(cl, u, d, sv, out, ops, a, t),
           PairOf(cl, u, d, sv.pc, sv.job, out, ops, a, t),
           RightsOf(sv, ops)
    PROVE  Settled(c)
<1>1. StreamsOK'
  BY Zenon DEF StreamsOK, Changed, Typed, ClientState, ServerState, OutcomeState,
         OperationType
<1>2. /\ client'[c] = cl /\ up'[c] = u /\ down'[c] = d /\ server'[c] = sv
      /\ outcome'[c] = out /\ last'[c] = ops /\ unanswered'[c] = a
      /\ torn'[c] = t
  BY Zenon DEF StreamsOK, Changed
<1>3. ConnInv(c)'
  BY <1>2, Zenon DEF ConnInv, PairInv, RightsInv
<1>4. \A e \in Conns \ {c} : SameAt(e)
  BY Zenon DEF StreamsOK, Changed, SameAt
<1> QED  BY <1>1, <1>3, <1>4, Zenon DEF Settled

(* What is known of a connection before a step.                              *)
LEMMA Before ==
    ASSUME StreamsOK, NEW c \in Conns, ConnInv(c)
    PROVE  /\ Typed(client[c], up[c], down[c], server[c], outcome[c], last[c],
                    unanswered[c], torn[c])
           /\ Numbers(client[c], up[c], down[c], outcome[c], last[c],
                      unanswered[c])
           /\ PairOf(client[c], up[c], down[c], server[c].pc, server[c].job,
                     outcome[c], last[c], unanswered[c], torn[c])
           /\ RightsOf(server[c], last[c])
<1>1. Typed(client[c], up[c], down[c], server[c], outcome[c], last[c],
            unanswered[c], torn[c])
  BY ConnTyped, Zenon DEF Typed
<1>2. Numbers(client[c], up[c], down[c], outcome[c], last[c], unanswered[c])
  BY ConnNumbers, Zenon DEF Numbers
<1> QED  BY <1>1, <1>2, Zenon DEF ConnInv, PairInv, RightsInv

(* A variable a step leaves alone is the same at c.                          *)
LEMMA Alone ==
    ASSUME StreamsOK, NEW c \in Conns
    PROVE  /\ client = [client EXCEPT ![c] = client[c]]
           /\ up = [up EXCEPT ![c] = up[c]]
           /\ down = [down EXCEPT ![c] = down[c]]
           /\ server = [server EXCEPT ![c] = server[c]]
           /\ outcome = [outcome EXCEPT ![c] = outcome[c]]
           /\ last = [last EXCEPT ![c] = last[c]]
           /\ unanswered = [unanswered EXCEPT ![c] = unanswered[c]]
           /\ torn = [torn EXCEPT ![c] = torn[c]]
  BY Zenon DEF StreamsOK

---------------------------------------------------------------------------
(* The client's steps.                                                       *)

LEMMA RequestMade ==
    ASSUME NEW i \in RequestId, NEW call \in Calls
    PROVE  /\ Request(i, call) \in RequestFrame
           /\ Request(i, call).id = i
           /\ Request(i, call).kind = "request"
           /\ Request(i, call) \in UpFrame
<1>1. call.method \in AllMethods /\ call.agent \in Agents /\ call.valid \in BOOLEAN
  BY ParametersOK, Zenon
<1>2. Request(i, call) \in RequestFrame
  BY <1>1, Zenon DEF Request, RequestFrame
<1>3. Request(i, call).id = i /\ Request(i, call).kind = "request"
  BY Zenon DEF Request
<1> QED  BY <1>2, <1>3, Zenon DEF UpFrame

LEMMA SendRequestStep ==
    ASSUME StreamsOK, NEW c \in Conns, ConnInv(c),
           NEW call \in Calls, SendRequest(c, call)
    PROVE  Settled(c)
<1> DEFINE r == Request(client[c].sent + 1, call)
           cl2 == [pc |-> "waiting", ask |-> r, sent |-> r.id]
           u2 == Append(up[c], r)
           out2 == Pending(outcome[c].from)
<1>1. Changed(c, cl2, u2, down[c], server[c], out2, last[c], unanswered[c],
              torn[c])
  BY Alone, Zenon DEF SendRequest, NextRequest, Changed
<1>2. /\ client[c].pc = "open" /\ client[c].sent + 1 \in RequestId
      /\ r \in RequestFrame /\ r.id = client[c].sent + 1 /\ r.kind = "request"
      /\ r \in UpFrame
  <2>1. client[c].pc = "open" /\ client[c].sent + 1 \in RequestId
    BY ConnNumbers, ParametersOK DEF SendRequest, RequestId
  <2> QED  BY <2>1, RequestMade, Zenon
<1> HIDE DEF r
<1>3. Typed(cl2, u2, down[c], server[c], out2, last[c], unanswered[c], torn[c])
  <2>1. cl2 \in ClientState
    BY <1>2, Zenon DEF ClientState
  <2>2. u2 \in Seq(UpFrame)
    BY <1>2, ConnTyped
  <2>3. out2 \in OutcomeState
    BY ConnTyped, ParametersOK DEF OutcomeState, RequestId, Nil, NilId, Pending
  <2> QED  BY <2>1, <2>2, <2>3, Before, Zenon DEF Typed
<1>4. Sent(client[c], up[c], outcome[c], cl2, u2, out2, r)
  <2>1. /\ Len(u2) = Len(up[c]) + 1 /\ Extended(Len(up[c]), up[c], u2)
        /\ u2[Len(up[c]) + 1] = r
    BY <1>2, ConnTyped, Appended DEF Extended
  <2>2. out2.from = outcome[c].from /\ out2.as = "none" /\ out2.id = NilId
    BY Zenon DEF Pending, Nil, NilId
  <2> HIDE DEF u2, out2
  <2> QED  BY <1>2, <2>1, <2>2, Zenon DEF Sent
<1> HIDE DEF r, cl2, u2, out2
<1>5. PairOf(cl2, u2, down[c], server[c].pc, server[c].job, out2, last[c],
             unanswered[c], torn[c])
  BY <1>4, Before, PairSent, ZenonT(40)
<1> QED  BY <1>1, <1>3, <1>5, Before, Settles, ZenonT(40)

LEMMA RequestTooLargeStep ==
    ASSUME StreamsOK, NEW c \in Conns, ConnInv(c),
           NEW call \in Calls, RequestTooLarge(c, call)
    PROVE  Settled(c)
<1> DEFINE r == Request(client[c].sent + 1, call)
           out2 == Returned(r, Nil, "transport")
<1>1. Changed(c, client[c], up[c], down[c], server[c], out2, last[c],
              unanswered[c], torn[c])
  BY Alone, Zenon DEF RequestTooLarge, NextRequest, Changed
<1>2. /\ client[c].pc = "open" /\ r \in RequestFrame
      /\ out2.from = NilId /\ out2.as # "ok"
  <2>1. client[c].pc = "open" /\ client[c].sent + 1 \in RequestId
    BY ConnNumbers, ParametersOK DEF RequestTooLarge, RequestId
  <2>2. out2.from = NilId /\ out2.as # "ok"
    BY DEF Returned, Nil, NilId
  <2> QED  BY <2>1, <2>2, RequestMade, Zenon
<1> HIDE DEF r
<1>3. Typed(client[c], up[c], down[c], server[c], out2, last[c], unanswered[c],
            torn[c])
  <2>1. out2 \in OutcomeState
    BY <1>2, ParametersOK
       DEF OutcomeState, RequestFrame, RequestId, Nil, NilId, Returned
  <2> QED  BY <2>1, Before, Zenon DEF Typed
<1>4. client[c].pc = "open" /\ out2.from = NilId /\ out2.as # "ok"
  BY <1>2, Zenon
<1> HIDE DEF r, out2
<1>5. PairOf(client[c], up[c], down[c], server[c].pc, server[c].job, out2,
             last[c], unanswered[c], torn[c])
  BY <1>4, Before, PairRefused, ZenonT(40)
<1> QED  BY <1>1, <1>3, <1>5, Before, Settles, ZenonT(40)

(* What the client is left with when a call is over.                         *)
LEMMA CallOver ==
    ASSUME NEW cl \in ClientState
    PROVE  /\ [cl EXCEPT !.pc = "open", !.ask = NoRequest] \in ClientState
           /\ [cl EXCEPT !.pc = "open", !.ask = NoRequest].pc = "open"
           /\ [cl EXCEPT !.pc = "open", !.ask = NoRequest].sent = cl.sent
  BY Zenon DEF ClientState

(* The request waited for.                                                   *)
LEMMA WaitedFor ==
    ASSUME StreamsOK, NEW c \in Conns, ConnInv(c), client[c].pc = "waiting"
    PROVE  client[c].ask \in RequestFrame
<1>1. client[c].ask.kind = "request"
  BY Before, Zenon DEF PairOf, IdOf
<1>2. client[c].ask \in RequestFrame \cup {NoRequest}
  BY ConnTyped, Zenon DEF ClientState
<1> QED  BY <1>1, <1>2 DEF NoRequest

LEMMA TakeResponseStep ==
    ASSUME StreamsOK, NEW c \in Conns, ConnInv(c), TakeResponse(c)
    PROVE  Settled(c)
<1> DEFINE r == client[c].ask
           x == Head(down[c])
           as == IF ~x.ok THEN "remote" ELSE IF Parses(r.method, x.type) THEN "ok" ELSE "transport"
           cl2 == [client[c] EXCEPT !.pc = "open", !.ask = NoRequest]
           d2 == Tail(down[c])
           out2 == Returned(r, x.id, as)
<1>1. Changed(c, cl2, up[c], d2, server[c], out2, last[c], unanswered[c],
              torn[c])
  <2>1. /\ client' = [client EXCEPT ![c] = cl2]
        /\ down' = [down EXCEPT ![c] = d2]
        /\ outcome' = [outcome EXCEPT ![c] = out2]
    BY Zenon DEF TakeResponse, StreamsOK
  <2> HIDE DEF cl2, d2, out2
  <2> QED  BY <2>1, Alone, Zenon DEF TakeResponse, Changed
<1>2. /\ client[c].pc = "waiting" /\ r \in RequestFrame
      /\ down[c] # <<>> /\ x = down[c][1] /\ x \in DownFrame
      /\ d2 \in Seq(DownFrame) /\ Len(down[c]) # 0
      /\ Len(d2) = Len(down[c]) - 1 /\ Advanced(Len(down[c]), down[c], d2)
  <2>1. client[c].pc = "waiting" /\ down[c] # <<>>
    BY Zenon DEF TakeResponse
  <2> QED  BY <2>1, ConnTyped, WaitedFor, Shifted DEF Advanced
<1>7. as \in {"ok", "remote", "transport"} /\ (as = "ok" => x.ok)
  BY <1>2, DownFrames, Zenon
<1>8. /\ out2.from = x.id /\ out2.id = r.id /\ out2.method = r.method
      /\ out2.as = as
  BY Zenon DEF Returned
<1> HIDE DEF x, as, d2
<1>3. Typed(cl2, up[c], d2, server[c], out2, last[c], unanswered[c], torn[c])
  <2>1. cl2 \in ClientState
    BY ConnTyped, CallOver, Zenon
  <2>2. out2 \in OutcomeState
    BY <1>2, <1>7, DownFrames, Zenon DEF OutcomeState, RequestFrame, Returned
  <2> QED  BY <1>2, <2>1, <2>2, Before, Zenon DEF Typed
<1>4. Took(client[c], down[c], outcome[c], cl2, d2, out2)
  <2>1. cl2.pc = "open" /\ cl2.sent = client[c].sent
    BY ConnTyped, CallOver, Zenon
  <2> HIDE DEF cl2, out2
  <2> QED  BY <1>2, <1>7, <1>8, <2>1, Zenon DEF Took
<1> HIDE DEF r, x, as, cl2, d2, out2
<1>5. PairOf(cl2, up[c], d2, server[c].pc, server[c].job, out2, last[c],
             unanswered[c], torn[c])
  BY <1>4, Before, PairTaken, ZenonT(40)
<1> QED  BY <1>1, <1>3, <1>5, Before, Settles, ZenonT(40)

(* What a stream is left as when a read of it is cut short or misreads.      *)
LEMMA LeftBehind ==
    ASSUME NEW s \in Seq(DownFrame), s # <<>>
    PROVE  /\ <<CutResponse>> \o Tail(s) \in Seq(DownFrame)
           /\ Lost(0, Len(s), s, Len(<<CutResponse>> \o Tail(s)),
                   <<CutResponse>> \o Tail(s))
           /\ \A k \in 1 .. Len(s) : \A left \in Leftover(s, k) :
                 /\ left \in Seq(DownFrame)
                 /\ \E o \in Nat : Lost(o, Len(s), s, Len(left), left)
<1>1. CutResponse \in DownFrame /\ CutResponse.id = NilId /\ ~CutResponse.ok
  BY DEF DownFrame, CutResponse, Nil, NilId
<1> DEFINE x == CutResponse
<1> HIDE DEF x
<1>2. x \in DownFrame /\ x.id = NilId /\ ~x.ok /\ Len(s) \in Nat
  BY <1>1 DEF x
<1>3. /\ <<x>> \o Tail(s) \in Seq(DownFrame)
      /\ Lost(0, Len(s), s, Len(<<x>> \o Tail(s)), <<x>> \o Tail(s))
  <2> DEFINE r == Tail(s)
             e == <<x>>
  <2>1. /\ r \in Seq(DownFrame) /\ Len(r) = Len(s) - 1 /\ Len(s) \in Nat \ {0}
        /\ \A i \in 1 .. Len(s) - 1 : r[i] = s[i + 1]
        /\ e \in Seq(DownFrame) /\ Len(e) = 1 /\ e[1] = x
    BY <1>2, Shifted
  <2> HIDE DEF r, e
  <2> DEFINE q == e \o r
  <2>2. /\ q \in Seq(DownFrame) /\ Len(q) = Len(e) + Len(r)
        /\ \A i \in 1 .. Len(e) + Len(r) :
              q[i] = IF i <= Len(e) THEN e[i] ELSE r[i - Len(e)]
    BY <2>1, Concatenated, ZenonT(40)
  <2> HIDE DEF q
  <2>3. Len(q) = Len(s) /\ q[1] = x
    BY <2>1, <2>2
  <2>4. ASSUME NEW i \in 1 .. Len(q), i # 1
        PROVE  i + 0 \in 1 .. Len(s) /\ q[i] = s[i + 0]
    <3>1. q[i] = r[i - 1] /\ i - 1 \in 1 .. Len(s) - 1 /\ (i - 1) + 1 = i + 0
      BY <2>1, <2>2, <2>3, <2>4
    <3> QED  BY <2>1, <2>3, <3>1, SMT
  <2>5. Lost(0, Len(s), s, Len(q), q)
    <3>1. 0 \in Nat /\ Len(q) \in Nat /\ Len(q) <= Len(s)
      BY <2>1, <2>3
    <3> QED  BY <1>2, <2>3, <2>4, <3>1, Zenon DEF Lost
  <2> QED  BY <2>2, <2>5, Zenon DEF q, r, e
<1>4. ASSUME NEW k \in 1 .. Len(s), NEW left \in Leftover(s, k)
      PROVE  /\ left \in Seq(DownFrame)
             /\ \E o \in Nat : Lost(o, Len(s), s, Len(left), left)
  <2> DEFINE r == SubSeq(s, k + 1, Len(s))
             q == <<x>> \o r
  <2>1. /\ r \in Seq(DownFrame) /\ Len(r) = Len(s) - k
        /\ \A i \in 1 .. Len(s) - k : r[i] = s[i + k]
        /\ q \in Seq(DownFrame) /\ Len(q) = Len(s) - k + 1 /\ q[1] = x
        /\ \A i \in 2 .. Len(s) - k + 1 : q[i] = s[i + k - 1]
    BY <1>2, GoesOn, SMTT(40)
  <2> HIDE DEF q, r
  <2>2. Lost(k, Len(s), s, Len(r), r)
    BY <1>2, <2>1 DEF Lost
  <2>3. Lost(k - 1, Len(s), s, Len(q), q)
    <3>1. k - 1 \in Nat /\ Len(q) \in Nat /\ Len(q) <= Len(s)
      BY <1>2, <2>1
    <3>2. ASSUME NEW i \in 1 .. Len(q), i # 1
          PROVE  i + (k - 1) \in 1 .. Len(s) /\ q[i] = s[i + (k - 1)]
      <4>1. /\ i \in 2 .. Len(s) - k + 1 /\ i + k - 1 = i + (k - 1)
            /\ i + (k - 1) \in 1 .. Len(s)
        BY <1>2, <2>1, <3>2
      <4> QED  BY <2>1, <4>1, Zenon
    <3> QED  BY <1>2, <2>1, <3>1, <3>2, Zenon DEF Lost
  <2>4. left = r \/ left = q
    BY Zenon DEF Leftover, r, q, x
  <2>5. k \in Nat /\ k - 1 \in Nat
    BY <1>2
  <2> QED  BY <2>1, <2>2, <2>3, <2>4, <2>5, Zenon
<1> QED  BY <1>3, <1>4, Zenon DEF x

(* A call that ends without a response, on a stream that goes on as d2.      *)
LEMMA CallUnanswered ==
    ASSUME StreamsOK, NEW c \in Conns, ConnInv(c), client[c].pc = "waiting",
           NEW d2 \in Seq(DownFrame), NEW o \in Nat, NEW out2 \in OutcomeState,
           Lost(o, Len(down[c]), down[c], Len(d2), d2),
           out2 = outcome[c] \/ (out2.from = NilId /\ out2.as # "ok"),
           client' = [client EXCEPT ![c].pc = "open", ![c].ask = NoRequest],
           down' = [down EXCEPT ![c] = d2],
           outcome' = [outcome EXCEPT ![c] = out2],
           unanswered' = [unanswered EXCEPT ![c] = @ + 1],
           UNCHANGED <<tokens, accepting, up, server, last, torn>>
    PROVE  Settled(c)
<1> DEFINE cl2 == [client[c] EXCEPT !.pc = "open", !.ask = NoRequest]
<1>1. Changed(c, cl2, up[c], d2, server[c], out2, last[c],
              unanswered[c] + 1, torn[c])
  <2>1. client' = [client EXCEPT ![c] = cl2]
    BY Zenon DEF StreamsOK
  <2> HIDE DEF cl2
  <2> QED  BY <2>1, Alone, Zenon DEF Changed
<1>2. cl2 \in ClientState /\ cl2.pc = "open" /\ cl2.sent = client[c].sent
  BY ConnTyped, CallOver, Zenon
<1> HIDE DEF cl2
<1>3. Typed(cl2, up[c], d2, server[c], out2, last[c], unanswered[c] + 1,
            torn[c])
  BY <1>2, Before DEF Typed
<1>4. PairOf(cl2, up[c], d2, server[c].pc, server[c].job, out2, last[c],
             unanswered[c] + 1, torn[c])
  BY <1>2, Before, PairUnanswered, ZenonT(40)
<1> QED  BY <1>1, <1>3, <1>4, Before, Settles, ZenonT(40)

LEMMA AbandonStep ==
    ASSUME StreamsOK, NEW c \in Conns, ConnInv(c), Abandon(c)
    PROVE  Settled(c)
<1> DEFINE s == down[c]
<1>1. s \in Seq(DownFrame) /\ outcome[c] \in OutcomeState
  BY ConnTyped, Zenon
<1>2. ASSUME NEW d2 \in Seq(DownFrame), NEW o \in Nat,
             Lost(o, Len(s), s, Len(d2), d2), down' = [down EXCEPT ![c] = d2]
      PROVE  Settled(c)
  <2>1. outcome' = [outcome EXCEPT ![c] = outcome[c]]
    BY Alone, Zenon DEF Abandon
  <2> QED  BY <1>1, <1>2, <2>1, CallUnanswered, ZenonT(40) DEF Abandon
<1>3. CASE UNCHANGED down
  <2>1. Lost(0, Len(s), s, Len(s), s)
    BY <1>1 DEF Lost
  <2> QED  BY <1>1, <1>2, <1>3, <2>1, Alone, 0 \in Nat, Zenon
<1>4. CASE s # <<>> /\ down' = [down EXCEPT ![c] = <<CutResponse>> \o Tail(s)]
  BY <1>1, <1>2, <1>4, LeftBehind, 0 \in Nat, Zenon
<1>5. ASSUME s # <<>>, NEW k \in 1 .. Len(s), NEW left \in Leftover(s, k),
             down' = [down EXCEPT ![c] = left]
      PROVE  Settled(c)
  BY <1>1, <1>2, <1>5, LeftBehind, Zenon
<1> QED  BY <1>3, <1>4, <1>5, Zenon DEF Abandon, Misaligned

LEMMA ReadMisalignedStep ==
    ASSUME StreamsOK, NEW c \in Conns, ConnInv(c), ReadMisaligned(c)
    PROVE  Settled(c)
<1> DEFINE s == down[c]
           r == client[c].ask
           out2 == Returned(r, Nil, "transport")
<1>1. client[c].pc = "waiting" /\ s # <<>> /\ s \in Seq(DownFrame)
  BY ConnTyped, Zenon DEF ReadMisaligned, Misaligned
<1>2. out2 \in OutcomeState /\ out2.from = NilId /\ out2.as # "ok"
  <2>1. r \in RequestFrame
    BY <1>1, WaitedFor, Zenon
  <2> HIDE DEF r
  <2> QED  BY <2>1, ParametersOK
           DEF OutcomeState, RequestFrame, RequestId, Nil, NilId, Returned
<1>3. PICK k \in 1 .. Len(s) : \E left \in Leftover(s, k) :
         down' = [down EXCEPT ![c] = left]
  BY Zenon DEF ReadMisaligned
<1>6. PICK left \in Leftover(s, k) : down' = [down EXCEPT ![c] = left]
  BY <1>3, Zenon
<1>4. left \in Seq(DownFrame) /\ \E o \in Nat : Lost(o, Len(s), s, Len(left), left)
  BY <1>1, LeftBehind, Zenon
<1>5. outcome' = [outcome EXCEPT ![c] = out2]
  BY Zenon DEF ReadMisaligned
<1> HIDE DEF out2
<1> QED  BY <1>1, <1>2, <1>6, <1>4, <1>5, CallUnanswered, ZenonT(40)
         DEF ReadMisaligned

LEMMA AbandonWriteStep ==
    ASSUME StreamsOK, NEW c \in Conns, ConnInv(c), AbandonWrite(c)
    PROVE  Settled(c)
<1> DEFINE u2 == Append(up[c], TornFrame)
<1>1. Changed(c, client[c], u2, down[c], server[c], outcome[c], last[c],
              unanswered[c], TRUE)
  BY Alone, Zenon DEF AbandonWrite, Changed
<1>2. /\ u2 \in Seq(UpFrame) /\ Len(u2) = Len(up[c]) + 1
      /\ Extended(Len(up[c]), up[c], u2) /\ u2[Len(up[c]) + 1] = TornFrame
  BY ConnTyped, TornMade, Appended DEF Extended
<1> HIDE DEF u2
<1>3. Typed(client[c], u2, down[c], server[c], outcome[c], last[c],
            unanswered[c], TRUE)
  BY <1>2, Before, Zenon DEF Typed
<1>4. Tore(client[c], up[c], u2, torn[c], TRUE)
  BY <1>2, TornMade, Zenon DEF AbandonWrite, Tore
<1> HIDE DEF u2
<1>5. PairOf(client[c], u2, down[c], server[c].pc, server[c].job, outcome[c],
             last[c], unanswered[c], TRUE)
  BY <1>4, Before, PairTorn, ZenonT(40)
<1> QED  BY <1>1, <1>3, <1>5, Before, Settles, ZenonT(40)

LEMMA DropClientStep ==
    ASSUME StreamsOK, NEW c \in Conns, ConnInv(c), DropClient(c)
    PROVE  Settled(c)
<1> DEFINE cl2 == [client[c] EXCEPT !.pc = "gone"]
<1>1. Changed(c, cl2, up[c], down[c], server[c], outcome[c], last[c],
              unanswered[c], torn[c])
  <2>1. client' = [client EXCEPT ![c] = cl2]
    BY Zenon DEF DropClient, StreamsOK
  <2> HIDE DEF cl2
  <2> QED  BY <2>1, Alone, Zenon DEF DropClient, Changed
<1>2. cl2 \in ClientState /\ cl2.pc = "gone" /\ cl2.sent = client[c].sent
  BY ConnTyped, Zenon DEF ClientState
<1> HIDE DEF cl2
<1>3. Typed(cl2, up[c], down[c], server[c], outcome[c], last[c], unanswered[c],
            torn[c])
  BY <1>2, Before, Zenon DEF Typed
<1>4. /\ client[c].pc \in {"hello", "open"}
      /\ cl2.pc = "gone" /\ cl2.sent = client[c].sent
  BY <1>2, Zenon DEF DropClient
<1> HIDE DEF cl2
<1>5. PairOf(cl2, up[c], down[c], server[c].pc, server[c].job, outcome[c],
             last[c], unanswered[c], torn[c])
  BY <1>4, Before, PairDropped, ZenonT(40)
<1> QED  BY <1>1, <1>3, <1>5, Before, Settles, ZenonT(40)

LEMMA TakeServerHelloStep ==
    ASSUME StreamsOK, NEW c \in Conns, ConnInv(c), TakeServerHello(c)
    PROVE  Settled(c)
<1> DEFINE cl2 == [client[c] EXCEPT !.pc = IF Head(down[c]).ok THEN "open" ELSE "gone"]
           d2 == Tail(down[c])
<1>1. Changed(c, cl2, up[c], d2, server[c], outcome[c], last[c], unanswered[c],
              torn[c])
  <2>1. client' = [client EXCEPT ![c] = cl2] /\ down' = [down EXCEPT ![c] = d2]
    BY Zenon DEF TakeServerHello, StreamsOK
  <2> HIDE DEF cl2, d2
  <2> QED  BY <2>1, Alone, Zenon DEF TakeServerHello, Changed
<1>2. /\ cl2 \in ClientState /\ cl2.pc \in {"open", "gone"}
      /\ cl2.sent = client[c].sent
  BY ConnTyped, Zenon DEF ClientState
<1>7. /\ client[c].pc = "hello" /\ Len(down[c]) # 0
      /\ d2 \in Seq(DownFrame) /\ Len(d2) = Len(down[c]) - 1
  BY ConnTyped, Shifted, Zenon DEF TakeServerHello
<1> HIDE DEF cl2, d2
<1>3. Typed(cl2, up[c], d2, server[c], outcome[c], last[c], unanswered[c],
            torn[c])
  BY <1>2, <1>7, Before, Zenon DEF Typed
<1>4. Greeted(client[c], down[c], cl2, d2)
  BY <1>2, <1>7, Zenon DEF Greeted
<1> HIDE DEF cl2, d2
<1>5. PairOf(cl2, up[c], d2, server[c].pc, server[c].job, outcome[c], last[c],
             unanswered[c], torn[c])
  BY <1>4, Before, PairGreeted, ZenonT(40)
<1> QED  BY <1>1, <1>3, <1>5, Before, Settles, ZenonT(40)

LEMMA StreamFailsStep ==
    ASSUME StreamsOK, NEW c \in Conns, ConnInv(c), StreamFails(c)
    PROVE  Settled(c)
<1>1. \E cl2, out2 :
         /\ Changed(c, cl2, up[c], <<>>, server[c], out2, last[c],
                    unanswered[c], torn[c])
         /\ cl2 \in ClientState /\ out2 \in OutcomeState
         /\ Broke(client[c], down[c], server[c].pc, outcome[c], cl2, <<>>, out2)
  <2>1. CASE client[c].pc = "waiting"
    <3> DEFINE cl2 == [client[c] EXCEPT !.pc = "open", !.ask = NoRequest]
               out2 == Returned(client[c].ask, Nil, "transport")
    <3>1. client' = [client EXCEPT ![c] = cl2]
      BY <2>1, Zenon DEF StreamFails, StreamsOK
    <3>2. outcome' = [outcome EXCEPT ![c] = out2]
      BY <2>1, Zenon DEF StreamFails
    <3>3. cl2 \in ClientState /\ cl2.pc = "open" /\ cl2.sent = client[c].sent
      BY ConnTyped, CallOver, Zenon
    <3>4. /\ out2 \in OutcomeState /\ out2.from = NilId
          /\ out2.as = "transport"
      BY <2>1, WaitedFor, ParametersOK
         DEF OutcomeState, RequestFrame, RequestId, Nil, NilId, Returned
    <3> HIDE DEF cl2, out2
    <3>5. Changed(c, cl2, up[c], <<>>, server[c], out2, last[c], unanswered[c],
                  torn[c])
      BY <3>1, <3>2, Alone, Zenon DEF StreamFails, Changed
    <3>6. Broke(client[c], down[c], server[c].pc, outcome[c], cl2, <<>>, out2)
      BY <2>1, <3>3, <3>4, Zenon DEF StreamFails, Broke
    <3> QED  BY <3>3, <3>4, <3>5, <3>6, Zenon
  <2>2. CASE client[c].pc = "hello"
    <3> DEFINE cl2 == [client[c] EXCEPT !.pc = "gone"]
    <3>1. client' = [client EXCEPT ![c] = cl2]
      BY <2>2, Zenon DEF StreamFails, StreamsOK
    <3>2. outcome' = outcome
      BY <2>2, Zenon DEF StreamFails
    <3>3. cl2 \in ClientState /\ cl2.pc = "gone" /\ cl2.sent = client[c].sent
      BY ConnTyped, Zenon DEF ClientState
    <3> HIDE DEF cl2
    <3>4. Changed(c, cl2, up[c], <<>>, server[c], outcome[c], last[c],
                  unanswered[c], torn[c])
      BY <3>1, <3>2, Alone, Zenon DEF StreamFails, Changed
    <3>5. Broke(client[c], down[c], server[c].pc, outcome[c], cl2, <<>>,
                outcome[c])
      BY <2>2, <3>3, Zenon DEF StreamFails, Broke
    <3> QED  BY <3>3, <3>4, <3>5, ConnTyped, Zenon
  <2> QED  BY <2>1, <2>2, Zenon DEF StreamFails
<1>2. PICK cl2, out2 :
         /\ Changed(c, cl2, up[c], <<>>, server[c], out2, last[c],
                    unanswered[c], torn[c])
         /\ cl2 \in ClientState /\ out2 \in OutcomeState
         /\ Broke(client[c], down[c], server[c].pc, outcome[c], cl2, <<>>, out2)
  BY <1>1, Zenon
<1>3. Typed(cl2, up[c], <<>>, server[c], out2, last[c], unanswered[c], torn[c])
  BY <1>2, Before DEF Typed
<1>4. PairOf(cl2, up[c], <<>>, server[c].pc, server[c].job, out2, last[c],
             unanswered[c], torn[c])
  BY <1>2, Before, PairBroken, ZenonT(40)
<1> QED  BY <1>2, <1>3, <1>4, Before, Settles, ZenonT(40)

LEMMA ConnectStep ==
    ASSUME StreamsOK, NEW c \in Conns, ConnInv(c),
           NEW h \in Hellos, Connect(c, h)
    PROVE  Settled(c)
<1> DEFINE cl2 == [client[c] EXCEPT !.pc = "hello"]
           sv2 == [server[c] EXCEPT !.pc = "backlog"]
           u2 == <<ClientHello(h)>>
<1>1. Changed(c, cl2, u2, down[c], sv2, outcome[c], last[c], unanswered[c],
              torn[c])
  <2>1. /\ client' = [client EXCEPT ![c] = cl2]
        /\ server' = [server EXCEPT ![c] = sv2]
    BY Zenon DEF Connect, StreamsOK
  <2> HIDE DEF cl2, sv2
  <2> QED  BY <2>1, Alone, Zenon DEF Connect, Changed
<1>2. /\ cl2 \in ClientState /\ cl2.pc = "hello" /\ cl2.sent = client[c].sent
      /\ sv2 \in ServerState /\ sv2.pc = "backlog" /\ sv2.job = server[c].job
  BY ConnTyped, ZenonT(40) DEF ClientState, ServerState
<1>7. /\ u2 \in Seq(UpFrame) /\ Len(u2) = 1 /\ u2[1].kind = "hello"
      /\ u2[1].id = NilId
  <2>1. ClientHello(h) \in UpFrame
    BY Zenon DEF UpFrame
  <2>2. ClientHello(h).kind = "hello" /\ ClientHello(h).id = NilId
    BY Zenon DEF ClientHello, Nil, NilId
  <2> QED  BY <2>1, <2>2
<1> HIDE DEF cl2, sv2, u2
<1>3. Typed(cl2, u2, down[c], sv2, outcome[c], last[c], unanswered[c], torn[c])
  BY <1>2, <1>7, Before, Zenon DEF Typed
<1>4. Connected(client[c], up[c], server[c].pc, cl2, u2, sv2.pc)
  BY <1>2, <1>7, Zenon DEF Connect, Connected
<1> HIDE DEF cl2, sv2, u2
<1>5. PairOf(cl2, u2, down[c], sv2.pc, sv2.job, outcome[c], last[c],
             unanswered[c], torn[c])
  <2>1. PairOf(cl2, u2, down[c], sv2.pc, server[c].job, outcome[c], last[c],
               unanswered[c], torn[c])
    BY <1>4, Before, PairConnected, ZenonT(40)
  <2> QED  BY <1>2, <2>1, Zenon
<1>6. RightsOf(sv2, last[c])
  <2>1. server[c].pc = "none"
    BY Before, Zenon DEF Connect, PairOf, PhaseOf
  <2>2. last[c] = {}
    BY <2>1, Before, Zenon DEF RightsOf, Admitted
  <2> QED  BY <1>2, <2>2, Zenon DEF RightsOf, Admitted, Served
<1> QED  BY <1>1, <1>3, <1>5, <1>6, Before, Settles, ZenonT(40)

---------------------------------------------------------------------------
(* The server's steps.                                                       *)

LEMMA AcceptStep ==
    ASSUME StreamsOK, NEW c \in Conns, ConnInv(c), Accept(c)
    PROVE  Settled(c)
<1>1. PICK peer \in PeersOf(Transport) :
         server' = [server EXCEPT ![c].pc = "hello", ![c].peer = {peer}]
  BY Zenon DEF Accept
<1> DEFINE sv2 == [server[c] EXCEPT !.pc = "hello", !.peer = {peer}]
<1>2. Changed(c, client[c], up[c], down[c], sv2, outcome[c], last[c],
              unanswered[c], torn[c])
  <2>1. server' = [server EXCEPT ![c] = sv2]
    BY <1>1, Zenon DEF StreamsOK
  <2> HIDE DEF sv2
  <2> QED  BY <2>1, Alone, Zenon DEF Accept, Changed
<1>3. /\ peer \in [kind : {"tcp", "unix", "vsock", "anonymous"},
                   hash : SUBSET Tokens]
      /\ Transport = "tcp" => peer.kind = "tcp" /\ peer.hash = {}
  BY ParametersOK DEF PeersOf, TcpPeer, UdsPeer, VsockPeer
<1>4. /\ sv2 \in ServerState /\ sv2.pc = "hello" /\ sv2.job = server[c].job
      /\ sv2.peer = {peer}
  BY <1>3, ConnTyped, ZenonT(40) DEF ServerState
<1>5. server[c].pc = "backlog"
  BY Zenon DEF Accept
<1> HIDE DEF sv2
<1>6. Typed(client[c], up[c], down[c], sv2, outcome[c], last[c], unanswered[c],
            torn[c])
  BY <1>4, Before, Zenon DEF Typed
<1>7. PairOf(client[c], up[c], down[c], sv2.pc, sv2.job, outcome[c], last[c],
             unanswered[c], torn[c])
  <2>1. <<server[c].pc, sv2.pc>>
           \in {<<"backlog", "hello">>, <<"auth", "serving">>}
    BY <1>4, <1>5, Zenon
  <2>2. PairOf(client[c], up[c], down[c], sv2.pc, server[c].job, outcome[c],
               last[c], unanswered[c], torn[c])
    BY <2>1, Before, PairMoved, ZenonT(40)
  <2> QED  BY <1>4, <2>2, Zenon
<1>8. RightsOf(sv2, last[c])
  <2>1. last[c] = {}
    BY <1>5, Before, Zenon DEF RightsOf, Admitted
  <2> QED  BY <1>3, <1>4, <2>1, Zenon DEF RightsOf, Admitted, Served
<1> QED  BY <1>2, <1>6, <1>7, <1>8, Before, Settles, ZenonT(40)

(* The task that is over.                                                    *)
LEMMA TaskOver ==
    ASSUME NEW sv \in ServerState, NEW ops
    PROVE  /\ [sv EXCEPT !.pc = "closed"] \in ServerState
           /\ [sv EXCEPT !.pc = "closed"].pc = "closed"
           /\ [sv EXCEPT !.pc = "closed"].job = sv.job
           /\ Served(sv, ops) => RightsOf([sv EXCEPT !.pc = "closed"], ops)
<1> DEFINE sv2 == [sv EXCEPT !.pc = "closed"]
<1>1. /\ sv2 \in ServerState /\ sv2.pc = "closed" /\ sv2.job = sv.job
      /\ sv2.identity = sv.identity /\ sv2.peer = sv.peer
      /\ sv2.token = sv.token
  BY Zenon DEF ServerState
<1> HIDE DEF sv2
<1>2. Served(sv, ops) => RightsOf(sv2, ops)
  BY <1>1, Zenon DEF RightsOf, Admitted, Served
<1> QED  BY <1>1, <1>2, Zenon DEF sv2

(* The first frame of a connection is a hello.                               *)
LEMMA HelloHeard ==
    ASSUME StreamsOK, NEW c \in Conns, ConnInv(c), server[c].pc = "hello"
    PROVE  /\ Tail(up[c]) \in Seq(UpFrame) /\ Len(Tail(up[c])) = Len(up[c]) - 1
           /\ Head(up[c]).hello.token \in SUBSET Tokens
           /\ Acceptable(Head(up[c]).hello) \in BOOLEAN
<1>1. Len(up[c]) = 1 /\ up[c][1].kind = "hello"
  BY Before, Zenon DEF PairOf, PhaseOf
<1>2. /\ Tail(up[c]) \in Seq(UpFrame) /\ Len(Tail(up[c])) = Len(up[c]) - 1
      /\ Head(up[c]) = up[c][1] /\ up[c][1] \in UpFrame
  BY <1>1, ConnTyped, Shifted
<1>3. up[c][1].hello \in Hellos
  BY <1>1, <1>2, UpFrames, Zenon
<1> QED  BY <1>2, <1>3, ParametersOK, Zenon DEF Acceptable

LEMMA HandshakeStep ==
    ASSUME StreamsOK, NEW c \in Conns, ConnInv(c), Handshake(c)
    PROVE  Settled(c)
<1> DEFINE h == Head(up[c]).hello
           u2 == Tail(up[c])
           pc2 == IF Acceptable(h) THEN "auth" ELSE "closed"
           sv2 == [server[c] EXCEPT !.pc = pc2, !.token = h.token]
           d2 == Append(down[c], ServerHello(Acceptable(h)))
<1>1. server[c].pc = "hello" /\ up' = [up EXCEPT ![c] = u2]
  BY Zenon DEF Handshake
<1>2. /\ u2 \in Seq(UpFrame) /\ Len(u2) = Len(up[c]) - 1
      /\ h.token \in SUBSET Tokens /\ Acceptable(h) \in BOOLEAN
      /\ pc2 \in {"auth", "closed"}
  BY <1>1, HelloHeard, Zenon
<1>3. last[c] = {}
  BY <1>1, Before, Zenon DEF RightsOf, Admitted
<1>4. CASE down' = [down EXCEPT ![c] = d2] /\ server' = [server EXCEPT ![c] = sv2]
  <2> HIDE DEF h, pc2
  <2>1. /\ sv2 \in ServerState /\ sv2.pc = pc2 /\ sv2.job = server[c].job
        /\ sv2.peer = server[c].peer
    BY <1>2, ConnTyped, Zenon DEF ServerState
  <2>2. ServerHello(Acceptable(h)) \in DownFrame /\ ServerHello(Acceptable(h)).id = NilId
    BY <1>2, DownMade, Zenon
  <2>3. /\ d2 \in Seq(DownFrame) /\ Len(d2) = Len(down[c]) + 1
        /\ d2[Len(down[c]) + 1].id = NilId
    BY <2>2, ConnTyped, Appended
  <2> HIDE DEF sv2, d2, u2
  <2>4. Changed(c, client[c], u2, d2, sv2, outcome[c], last[c], unanswered[c],
                torn[c])
    BY <1>1, <1>4, Alone, Zenon DEF Handshake, Changed
  <2>5. Typed(client[c], u2, d2, sv2, outcome[c], last[c], unanswered[c],
              torn[c])
    BY <1>2, <2>1, <2>3, Before, Zenon DEF Typed
  <2>6. Shaken(up[c], down[c], server[c].pc, u2, d2, sv2.pc)
    BY <1>1, <1>2, <2>1, <2>3, Zenon DEF Shaken
  <2>7. PairOf(client[c], u2, d2, sv2.pc, server[c].job, outcome[c], last[c],
               unanswered[c], torn[c])
    BY <2>6, Before, PairShaken, ZenonT(40)
  <2>8. PairOf(client[c], u2, d2, sv2.pc, sv2.job, outcome[c], last[c],
               unanswered[c], torn[c])
    BY <2>1, <2>7, Zenon
  <2>9. RightsOf(sv2, last[c])
    BY <1>1, <1>2, <1>3, <2>1, Before, Zenon DEF RightsOf, Admitted, Served
  <2> QED  BY <2>4, <2>5, <2>8, <2>9, Settles, ZenonT(40)
<1>5. CASE /\ server' = [server EXCEPT ![c].pc = "closed"]
           /\ down' = down
  <2> DEFINE sv3 == [server[c] EXCEPT !.pc = "closed"]
  <2>1. server' = [server EXCEPT ![c] = sv3]
    BY <1>5, Zenon DEF StreamsOK
  <2>2. /\ sv3 \in ServerState /\ sv3.pc = "closed" /\ sv3.job = server[c].job
        /\ RightsOf(sv3, last[c])
    BY ConnTyped, TaskOver, Before, Zenon DEF RightsOf
  <2> HIDE DEF sv3, u2
  <2>3. Changed(c, client[c], u2, down[c], sv3, outcome[c], last[c],
                unanswered[c], torn[c])
    BY <1>1, <1>5, <2>1, Alone, Zenon DEF Handshake, Changed
  <2>4. Typed(client[c], u2, down[c], sv3, outcome[c], last[c], unanswered[c],
              torn[c])
    BY <1>2, <2>2, Before, Zenon DEF Typed
  <2>5. Shaken(up[c], down[c], server[c].pc, u2, down[c], sv3.pc)
    BY <1>1, <1>2, <2>2, Zenon DEF Shaken
  <2>6. PairOf(client[c], u2, down[c], sv3.pc, server[c].job, outcome[c],
               last[c], unanswered[c], torn[c])
    BY <2>5, Before, PairShaken, ZenonT(40)
  <2>7. PairOf(client[c], u2, down[c], sv3.pc, sv3.job, outcome[c], last[c],
               unanswered[c], torn[c])
    BY <2>2, <2>6, Zenon
  <2> QED  BY <2>2, <2>3, <2>4, <2>7, Settles, ZenonT(40)
<1> QED  BY <1>4, <1>5, Zenon DEF Handshake, WriteThen

(* Whom a token stands for, who is admitted, and how the peer is named       *)
(* afterwards.                                                               *)
LEMMA Stands ==
    ASSUME StreamsOK, NEW token \in SUBSET Tokens
    PROVE  Authenticated(token) \in SUBSET Identity
<1>1. \A t \in token : tokens[t] \subseteq Identity
  <2>1. tokens \in [Tokens -> {{}} \cup {{i} : i \in Identity}]
    BY Zenon DEF StreamsOK
  <2>2. ASSUME NEW t \in Tokens
        PROVE  tokens[t] \subseteq Identity
    <3>1. tokens[t] = {} \/ \E i \in Identity : tokens[t] = {i}
      BY <2>1, Zenon
    <3> QED  BY <3>1, Zenon
  <2> QED  BY <2>2, Zenon
<1>2. AllowAllAdmin \in Identity
  BY Zenon DEF AllowAllAdmin, Identity, Role
<1> QED  BY <1>1, <1>2, Zenon DEF Authenticated

LEMMA Identified ==
    ASSUME StreamsOK, NEW c \in Conns
    PROVE  Authenticated(server[c].token) \in SUBSET Identity
<1>1. server[c].token \subseteq Tokens
  BY ConnTyped, Zenon DEF ServerState
<1> QED  BY <1>1, Stands, Zenon

LEMMA PeerNamed ==
    ASSUME NEW token \in SUBSET Tokens,
           NEW p \in [kind : {"tcp", "unix", "vsock", "anonymous"},
                      hash : SUBSET Tokens]
    PROVE  /\ WithTokenHash(p, token)
                 \in [kind : {"tcp", "unix", "vsock", "anonymous"},
                      hash : SUBSET Tokens]
           /\ p.kind = "tcp" /\ p.hash = {} => WithTokenHash(p, token).hash = token
  BY Zenon DEF WithTokenHash

LEMMA AuthenticateStep ==
    ASSUME StreamsOK, NEW c \in Conns, ConnInv(c), Authenticate(c)
    PROVE  Settled(c)
<1> DEFINE found == Authenticated(server[c].token)
           named == {WithTokenHash(p, server[c].token) : p \in server[c].peer}
           pc2 == IF found = {} THEN "closed" ELSE "serving"
           sv2 == [server[c] EXCEPT !.pc = pc2, !.peer = named,
                                    !.identity = found]
<1>1. server[c].pc = "auth"
  BY Zenon DEF Authenticate
<1>2. server' = [server EXCEPT ![c] = sv2]
  BY Zenon DEF Authenticate, StreamsOK
<1>3. found \in SUBSET Identity
  BY Identified, Zenon
<1>4. /\ named \in SUBSET [kind : {"tcp", "unix", "vsock", "anonymous"},
                           hash : SUBSET Tokens]
      /\ Transport = "tcp" => \A p \in named : p.hash = server[c].token
  <2>1. /\ server[c].token \in SUBSET Tokens
        /\ server[c].peer \in SUBSET [kind : {"tcp", "unix", "vsock", "anonymous"},
                                      hash : SUBSET Tokens]
    BY ConnTyped, Zenon DEF ServerState
  <2>2. Transport = "tcp" => \A p \in server[c].peer : p.kind = "tcp" /\ p.hash = {}
    BY <1>1, Before, Zenon DEF RightsOf, Admitted
  <2>3. ASSUME NEW p \in server[c].peer
        PROVE  /\ WithTokenHash(p, server[c].token)
                     \in [kind : {"tcp", "unix", "vsock", "anonymous"},
                          hash : SUBSET Tokens]
               /\ Transport = "tcp" =>
                     WithTokenHash(p, server[c].token).hash = server[c].token
    <3>1. p \in [kind : {"tcp", "unix", "vsock", "anonymous"},
                 hash : SUBSET Tokens]
      BY <2>1, Zenon
    <3> QED  BY <2>1, <2>2, <3>1, PeerNamed, Zenon
  <2> QED  BY <2>3
<1>5. pc2 \in {"closed", "serving"}
  BY Zenon
<1> HIDE DEF found, named, pc2
<1>6. /\ sv2 \in ServerState /\ sv2.pc = pc2 /\ sv2.job = server[c].job
      /\ sv2.peer = named /\ sv2.token = server[c].token
  BY <1>3, <1>4, <1>5, ConnTyped, Zenon DEF ServerState
<1> HIDE DEF sv2
<1>7. Changed(c, client[c], up[c], down[c], sv2, outcome[c], last[c],
              unanswered[c], torn[c])
  BY <1>2, Alone, Zenon DEF Authenticate, Changed
<1>8. Typed(client[c], up[c], down[c], sv2, outcome[c], last[c], unanswered[c],
            torn[c])
  BY <1>6, Before, Zenon DEF Typed
<1>9. PairOf(client[c], up[c], down[c], sv2.pc, sv2.job, outcome[c], last[c],
             unanswered[c], torn[c])
  <2>1. CASE pc2 = "serving"
    <3>1. <<server[c].pc, pc2>>
             \in {<<"backlog", "hello">>, <<"auth", "serving">>}
      BY <1>1, <2>1, Zenon
    <3>2. PairOf(client[c], up[c], down[c], pc2, server[c].job, outcome[c],
                 last[c], unanswered[c], torn[c])
      BY <3>1, Before, PairMoved, ZenonT(40)
    <3> QED  BY <1>6, <3>2, Zenon
  <2>2. CASE pc2 = "closed"
    <3>1. /\ server[c].pc \in {"auth", "serving", "dispatch"}
          /\ Operated(server[c].job, server[c].pc, last[c], last[c])
      BY <1>1, Zenon DEF Operated
    <3>2. PairOf(client[c], up[c], down[c], pc2, server[c].job, outcome[c],
                 last[c], unanswered[c], torn[c])
      BY <2>2, <3>1, Before, PairClosed, ZenonT(40)
    <3> QED  BY <1>6, <3>2, Zenon
  <2> QED  BY <1>5, <2>1, <2>2, Zenon
<1>10. RightsOf(sv2, last[c])
  <2>1. last[c] = {}
    BY <1>1, Before, Zenon DEF RightsOf, Admitted
  <2> QED  BY <1>4, <1>5, <1>6, <2>1, Zenon DEF RightsOf, Admitted, Served
<1> QED  BY <1>7, <1>8, <1>9, <1>10, Settles, ZenonT(40)

LEMMA ReadRequestStep ==
    ASSUME StreamsOK, NEW c \in Conns, ConnInv(c), ReadRequest(c)
    PROVE  Settled(c)
<1> DEFINE u2 == Tail(up[c])
           r == Head(up[c])
           sv2 == [server[c] EXCEPT !.pc = "dispatch", !.job = r]
<1>1. /\ server[c].pc = "serving"
      /\ server' = [server EXCEPT ![c] = sv2]
      /\ up' = [up EXCEPT ![c] = u2]
  BY Zenon DEF ReadRequest, StreamsOK
<1>2. /\ u2 \in Seq(UpFrame) /\ Len(up[c]) # 0
      /\ Len(u2) = Len(up[c]) - 1 /\ Advanced(Len(up[c]), up[c], u2)
      /\ r = up[c][1] /\ r \in UpFrame /\ r.kind = "request"
  BY ConnTyped, Shifted DEF ReadRequest, Advanced
<1>3. r \in RequestFrame
  BY <1>2, UpFrames, Zenon
<1> HIDE DEF u2, r
<1>4. /\ sv2 \in ServerState /\ sv2.pc = "dispatch" /\ sv2.job = r
      /\ sv2.identity = server[c].identity /\ sv2.peer = server[c].peer
      /\ sv2.token = server[c].token
  BY <1>3, ConnTyped, Zenon DEF ServerState
<1> HIDE DEF sv2
<1>5. Changed(c, client[c], u2, down[c], sv2, outcome[c], last[c],
              unanswered[c], torn[c])
  BY <1>1, Alone, Zenon DEF ReadRequest, Changed
<1>6. Typed(client[c], u2, down[c], sv2, outcome[c], last[c], unanswered[c],
            torn[c])
  BY <1>2, <1>4, Before, Zenon DEF Typed
<1>7. Read(up[c], server[c].pc, u2, sv2.pc, sv2.job)
  BY <1>1, <1>2, <1>4, Zenon DEF Read
<1>8. PairOf(client[c], u2, down[c], sv2.pc, sv2.job, outcome[c], last[c],
             unanswered[c], torn[c])
  BY <1>7, Before, PairRead, ZenonT(40)
<1>9. RightsOf(sv2, last[c])
  BY <1>1, <1>4, Before, ZenonT(40) DEF RightsOf, Admitted, Served
<1> QED  BY <1>5, <1>6, <1>8, <1>9, Settles, ZenonT(40)

LEMMA ReadEofStep ==
    ASSUME StreamsOK, NEW c \in Conns, ConnInv(c), ReadEof(c)
    PROVE  Settled(c)
<1> DEFINE sv2 == [server[c] EXCEPT !.pc = "closed"]
<1>1. server[c].pc = "serving" /\ server' = [server EXCEPT ![c] = sv2]
  BY Zenon DEF ReadEof, StreamsOK
<1>2. /\ sv2 \in ServerState /\ sv2.pc = "closed" /\ sv2.job = server[c].job
      /\ RightsOf(sv2, last[c])
  BY ConnTyped, TaskOver, Before, Zenon DEF RightsOf
<1> HIDE DEF sv2
<1>3. Changed(c, client[c], up[c], down[c], sv2, outcome[c], last[c],
              unanswered[c], torn[c])
  BY <1>1, Alone, Zenon DEF ReadEof, Changed
<1>4. Typed(client[c], up[c], down[c], sv2, outcome[c], last[c], unanswered[c],
            torn[c])
  BY <1>2, Before, Zenon DEF Typed
<1>5. /\ server[c].pc \in {"auth", "serving", "dispatch"}
      /\ Operated(server[c].job, server[c].pc, last[c], last[c])
  BY <1>1, Zenon DEF Operated
<1>6. PairOf(client[c], up[c], down[c], sv2.pc, server[c].job, outcome[c],
             last[c], unanswered[c], torn[c])
  BY <1>2, <1>5, Before, PairClosed, ZenonT(40)
<1>7. PairOf(client[c], up[c], down[c], sv2.pc, sv2.job, outcome[c], last[c],
             unanswered[c], torn[c])
  BY <1>2, <1>6, Zenon
<1> QED  BY <1>2, <1>3, <1>4, <1>7, Settles, ZenonT(40)

(* The stream behind a torn frame.                                           *)
LEMMA GarbageRead ==
    ASSUME NEW u \in Seq(UpFrame), u[1].kind = "torn", NEW k \in 2 .. Len(u),
           NEW u2, u2 \in {SubSeq(u, k + 1, Len(u)),
                          <<TornFrame>> \o SubSeq(u, k + 1, Len(u))}
    PROVE  u2 \in Seq(UpFrame) /\ \E b : Misread(u, u2, k, b)
<1>1. TornFrame \in UpFrame /\ TornFrame.id = NilId /\ TornFrame.kind = "torn"
  BY TornMade, Zenon
<1> DEFINE r == SubSeq(u, k + 1, Len(u))
           v == <<TornFrame>> \o r
<1>2. /\ r \in Seq(UpFrame) /\ Len(r) = Len(u) - k
      /\ \A i \in 1 .. Len(u) - k : r[i] = u[i + k]
  OBVIOUS
<1>3. /\ v \in Seq(UpFrame) /\ Len(v) = Len(u) - k + 1 /\ v[1] = TornFrame
      /\ \A i \in 2 .. Len(u) - k + 1 : v[i] = u[i + k - 1]
  BY <1>1, GoesOn, SMTT(40)
<1> HIDE DEF r, v
<1>4. CASE u2 = r
  <2>1. Misread(u, u2, k, 0)
    BY <1>2, <1>4 DEF Misread
  <2> QED  BY <1>2, <1>4, <2>1, Zenon
<1>5. CASE u2 = v
  <2>1. Misread(u, u2, k, 1)
    BY <1>1, <1>3, <1>5, SMTT(40) DEF Misread
  <2> QED  BY <1>3, <1>5, <2>1, Zenon
<1> QED  BY <1>4, <1>5, Zenon DEF r, v

(* A torn frame is read and answered, and the task goes on or is over.       *)
LEMMA ReadGarbageStep ==
    ASSUME StreamsOK, NEW c \in Conns, ConnInv(c), ReadGarbage(c)
    PROVE  Settled(c)
<1> DEFINE over == [server[c] EXCEPT !.pc = "closed"]
           d2 == Append(down[c], Failure(Nil))
<1>1. /\ server[c].pc = "serving" /\ Len(up[c]) # 0
      /\ up[c] \in Seq(UpFrame) /\ up[c][1].kind = "torn"
  BY ConnTyped DEF ReadGarbage
<1>2. /\ over \in ServerState /\ over.pc = "closed" /\ over.job = server[c].job
      /\ RightsOf(over, last[c])
  BY ConnTyped, TaskOver, Before, Zenon DEF RightsOf
<1>3. /\ d2 \in Seq(DownFrame) /\ Len(d2) = Len(down[c]) + 1
      /\ Extended(Len(down[c]), down[c], d2)
      /\ d2[Len(down[c]) + 1].id = NilId /\ ~d2[Len(down[c]) + 1].ok
  <2>1. Nil \in RequestId
    BY ParametersOK DEF Nil, RequestId
  <2>2. Failure(Nil) \in DownFrame /\ Failure(Nil).id = NilId /\ ~Failure(Nil).ok
    BY <2>1, DownMade, Zenon DEF Nil, NilId
  <2> QED  BY <2>2, ConnTyped, Appended DEF Extended
<1>4. \/ /\ down' = [down EXCEPT ![c] = d2]
         /\ server' = [server EXCEPT ![c] = server[c]]
         /\ \E k \in 2 .. Len(up[c]) :
               up' \in {[up EXCEPT ![c] = SubSeq(up[c], k + 1, Len(up[c]))],
                       [up EXCEPT ![c] =
                           <<TornFrame>> \o SubSeq(up[c], k + 1, Len(up[c]))]}
      \/ /\ down' \in {[down EXCEPT ![c] = d2], down}
         /\ server' = [server EXCEPT ![c] = over]
         /\ \/ up' = up
            \/ \E k \in 2 .. Len(up[c]) :
                  up' \in {[up EXCEPT ![c] = SubSeq(up[c], k + 1, Len(up[c]))],
                          [up EXCEPT ![c] =
                              <<TornFrame>> \o SubSeq(up[c], k + 1, Len(up[c]))]}
  <2>1. [server EXCEPT ![c].pc = "closed"] = [server EXCEPT ![c] = over]
    BY Zenon DEF StreamsOK
  <2> QED  BY <2>1, Zenon DEF ReadGarbage, WriteThen
<1> HIDE DEF over, d2
<1>5. ASSUME NEW k \in 2 .. Len(up[c]),
             up' \in {[up EXCEPT ![c] = SubSeq(up[c], k + 1, Len(up[c]))],
                     [up EXCEPT ![c] =
                         <<TornFrame>> \o SubSeq(up[c], k + 1, Len(up[c]))]}
      PROVE  \E u2, b : /\ up' = [up EXCEPT ![c] = u2]
                        /\ u2 \in Seq(UpFrame) /\ Misread(up[c], u2, k, b)
  <2>1. PICK u2 \in {SubSeq(up[c], k + 1, Len(up[c])),
                     <<TornFrame>> \o SubSeq(up[c], k + 1, Len(up[c]))} :
           up' = [up EXCEPT ![c] = u2]
    BY <1>5, Zenon
  <2>2. u2 \in Seq(UpFrame) /\ \E b : Misread(up[c], u2, k, b)
    BY <1>1, <2>1, GarbageRead, Zenon
  <2> QED  BY <2>1, <2>2, Zenon
<1>6. CASE server' = [server EXCEPT ![c] = server[c]] /\ down' = [down EXCEPT ![c] = d2]
           /\ \E k, u2, b : /\ up' = [up EXCEPT ![c] = u2]
                            /\ u2 \in Seq(UpFrame) /\ Misread(up[c], u2, k, b)
  <2>1. PICK k, u2, b : /\ up' = [up EXCEPT ![c] = u2]
                        /\ u2 \in Seq(UpFrame) /\ Misread(up[c], u2, k, b)
    BY <1>6, Zenon
  <2>2. Changed(c, client[c], u2, d2, server[c], outcome[c], last[c],
                unanswered[c], torn[c])
    BY <1>6, <2>1, Alone, Zenon DEF ReadGarbage, Changed
  <2>3. Typed(client[c], u2, d2, server[c], outcome[c], last[c], unanswered[c],
              torn[c])
    BY <1>3, <2>1, Before, Zenon DEF Typed
  <2>4. Garbled(up[c], down[c], server[c].pc, u2, d2, k, b)
    BY <1>1, <1>3, <2>1, Zenon DEF Garbled
  <2>5. PairOf(client[c], u2, d2, server[c].pc, server[c].job, outcome[c],
               last[c], unanswered[c], torn[c])
    BY <2>4, Before, PairGarbled, ZenonT(40)
  <2> QED  BY <2>2, <2>3, <2>5, Before, Settles, ZenonT(40)
<1>7. ASSUME NEW u2 \in Seq(UpFrame), NEW e \in {d2, down[c]},
             u2 = up[c] \/ \E k, b : Misread(up[c], u2, k, b),
             up' = [up EXCEPT ![c] = u2], down' = [down EXCEPT ![c] = e],
             server' = [server EXCEPT ![c] = over]
      PROVE  Settled(c)
  <2>1. Changed(c, client[c], u2, e, over, outcome[c], last[c], unanswered[c],
                torn[c])
    BY <1>7, Alone, Zenon DEF ReadGarbage, Changed
  <2>2. Typed(client[c], u2, e, over, outcome[c], last[c], unanswered[c],
              torn[c])
    BY <1>2, <1>3, Before, Zenon DEF Typed
  <2>3. GarbledEnd(up[c], down[c], server[c].pc, u2, e, over.pc)
    BY <1>1, <1>2, <1>3, <1>7, ZenonT(40) DEF GarbledEnd
  <2>4. PairOf(client[c], u2, e, over.pc, server[c].job, outcome[c], last[c],
               unanswered[c], torn[c])
    BY <2>3, Before, PairGarbledEnd, ZenonT(40)
  <2>5. PairOf(client[c], u2, e, over.pc, over.job, outcome[c], last[c],
               unanswered[c], torn[c])
    BY <1>2, <2>4, Zenon
  <2> QED  BY <1>2, <2>1, <2>2, <2>5, Settles, ZenonT(40)
<1>8. CASE /\ down' \in {[down EXCEPT ![c] = d2], down}
           /\ server' = [server EXCEPT ![c] = over]
           /\ \/ up' = up
              \/ \E k, u2, b : /\ up' = [up EXCEPT ![c] = u2]
                               /\ u2 \in Seq(UpFrame) /\ Misread(up[c], u2, k, b)
  <2>1. PICK e \in {d2, down[c]} : down' = [down EXCEPT ![c] = e]
    BY <1>8, Alone, Zenon
  <2>2. PICK u2 \in Seq(UpFrame) :
           /\ up' = [up EXCEPT ![c] = u2]
           /\ u2 = up[c] \/ \E k, b : Misread(up[c], u2, k, b)
    BY <1>1, <1>8, Alone, Zenon
  <2> QED  BY <1>7, <1>8, <2>1, <2>2, ZenonT(40)
<1> QED  BY <1>4, <1>5, <1>6, <1>8, Zenon

(* The operation of a request that is not refused is one its connection has  *)
(* the rights for.                                                           *)
LEMMA OperationAllowed ==
    ASSUME NEW r \in RequestFrame, NEW identity \in Identity,
           ~Refused(identity, r.method)
    PROVE  LET o == Operation(r, identity)
           IN  /\ o \in OperationType /\ o.id = r.id /\ o.method = r.method
               /\ o.method \in ADMIN_METHODS => identity.role = "admin"
               /\ identity.role = "agent" /\ identity.agent # {} /\ o.agent # {}
                     => o.agent = identity.agent
<1> DEFINE o == Operation(r, identity)
<1>1. o.id = r.id /\ o.method = r.method
  BY Zenon DEF Operation
<1>2. o.agent = IF r.agent = {} THEN {} ELSE ResolveAgent(identity, r.agent)
  BY Zenon DEF Operation
<1>3. /\ r.agent \in {{}} \cup {{a} : a \in Agents}
      /\ identity.agent \in {{}} \cup {{a} : a \in Agents}
      /\ r.id \in RequestId /\ r.method \in AllMethods
  BY Zenon DEF RequestFrame, Identity
<1>4. /\ o.agent \in {{}} \cup {{a} : a \in Agents}
      /\ identity.role = "agent" /\ identity.agent # {} /\ o.agent # {}
            => o.agent = identity.agent
  BY <1>2, <1>3, Zenon DEF ResolveAgent
<1>5. o \in OperationType
  BY <1>1, <1>3, <1>4, Zenon DEF Operation, OperationType
<1> HIDE DEF o
<1>6. o.method \in ADMIN_METHODS => identity.role = "admin"
  BY <1>1, Zenon DEF Refused
<1> QED  BY <1>1, <1>4, <1>5, <1>6, Zenon DEF o

(* The request being dispatched.                                             *)
LEMMA Dispatched ==
    ASSUME StreamsOK, NEW c \in Conns, ConnInv(c), server[c].pc = "dispatch"
    PROVE  /\ server[c].job \in RequestFrame
           /\ server[c].job.id \in RequestId
           /\ server[c].job.method \in AllMethods
<1>1. server[c].job.kind = "request"
  BY Before, Zenon DEF PairOf, DoneOf
<1>2. server[c].job \in RequestFrame \cup {NoRequest}
  BY ConnTyped, Zenon DEF ServerState
<1>3. server[c].job \in RequestFrame
  BY <1>1, <1>2 DEF NoRequest
<1> QED  BY <1>3, Zenon DEF RequestFrame

(* What a dispatch leaves as the last operation: a refused request changes   *)
(* nothing, another one is carried out.                                      *)
Carried(c, ops) ==
    \/ ops = last[c]
    \/ \E identity \in server[c].identity :
          /\ ~Refused(identity, server[c].job.method)
          /\ ops = {Operation(server[c].job, identity)}

LEMMA CarriedOut ==
    ASSUME StreamsOK, NEW c \in Conns, ConnInv(c), server[c].pc = "dispatch",
           NEW ops, Carried(c, ops)
    PROVE  /\ ops \subseteq OperationType
           /\ Operated(server[c].job, server[c].pc, last[c], ops)
           /\ Served(server[c], ops)
<1>1. CASE ops = last[c]
  BY <1>1, ConnTyped, Before, Zenon DEF Operated, RightsOf
<1>2. CASE \E identity \in server[c].identity :
              /\ ~Refused(identity, server[c].job.method)
              /\ ops = {Operation(server[c].job, identity)}
  <2>1. PICK identity \in server[c].identity :
           /\ ~Refused(identity, server[c].job.method)
           /\ ops = {Operation(server[c].job, identity)}
    BY <1>2, Zenon
  <2> DEFINE o == Operation(server[c].job, identity)
  <2>2. identity \in Identity
    BY ConnTyped, Zenon DEF ServerState
  <2>3. /\ o \in OperationType
        /\ o.id = server[c].job.id /\ o.method = server[c].job.method
        /\ o.method \in ADMIN_METHODS => identity.role = "admin"
        /\ identity.role = "agent" /\ identity.agent # {} /\ o.agent # {}
              => o.agent = identity.agent
    BY <2>1, <2>2, Dispatched, OperationAllowed, Zenon
  <2> HIDE DEF o
  <2>4. ops = {o}
    BY <2>1, Zenon DEF o
  <2>5. Transport = "tcp" => \A p \in server[c].peer : p.hash = server[c].token
    BY Before, Zenon DEF RightsOf, Admitted
  <2>6. Served(server[c], ops)
    BY <2>3, <2>4, <2>5, Zenon DEF Served
  <2>7. Operated(server[c].job, server[c].pc, last[c], ops)
    BY <2>3, <2>4, Zenon DEF Operated
  <2> QED  BY <2>3, <2>4, <2>6, <2>7, Zenon
<1> QED  BY <1>1, <1>2, Zenon DEF Carried

LEMMA DispatchStep ==
    ASSUME StreamsOK, NEW c \in Conns, ConnInv(c), Dispatch(c)
    PROVE  Settled(c)
<1> DEFINE job == server[c].job
           over == [server[c] EXCEPT !.pc = "closed"]
           next == [server[c] EXCEPT !.pc = "serving", !.job = NoRequest]
<1>1. /\ server[c].pc = "dispatch" /\ job \in RequestFrame
      /\ job.id \in RequestId /\ job.method \in AllMethods
  BY Dispatched, Zenon DEF Dispatch
<1>2. /\ over \in ServerState /\ over.pc = "closed" /\ over.job = job
      /\ \A ops : Served(server[c], ops) => RightsOf(over, ops)
  BY ConnTyped, TaskOver, Zenon
<1>3. /\ next \in ServerState /\ next.pc = "serving"
      /\ next.identity = server[c].identity /\ next.peer = server[c].peer
      /\ next.token = server[c].token
  BY ConnTyped, Zenon DEF ServerState
<1>4. [server EXCEPT ![c].pc = "closed"] = [server EXCEPT ![c] = over]
  BY Zenon DEF StreamsOK
<1> HIDE DEF over, next
<1>5. ASSUME NEW ops, Carried(c, ops), last' = [last EXCEPT ![c] = ops],
             NEW response \in DownFrame, response.id = job.id,
             response.ok => \E o \in ops : o.id = job.id,
             down' = [down EXCEPT ![c] = Append(@, response)],
             server' = [server EXCEPT ![c] = next]
      PROVE  Settled(c)
  <2> DEFINE d2 == Append(down[c], response)
  <2>1. /\ ops \subseteq OperationType
        /\ Operated(server[c].job, server[c].pc, last[c], ops)
        /\ Served(server[c], ops)
    BY <1>1, <1>5, CarriedOut, Zenon
  <2>2. /\ d2 \in Seq(DownFrame) /\ Len(d2) = Len(down[c]) + 1
        /\ Extended(Len(down[c]), down[c], d2)
        /\ d2[Len(down[c]) + 1] = response
    BY ConnTyped, Appended DEF Extended
  <2>3. down' = [down EXCEPT ![c] = d2]
    BY <1>5, Zenon
  <2> HIDE DEF d2
  <2>4. Changed(c, client[c], up[c], d2, next, outcome[c], ops, unanswered[c],
                torn[c])
    BY <1>5, <2>3, Alone, Zenon DEF Dispatch, Changed
  <2>5. Typed(client[c], up[c], d2, next, outcome[c], ops, unanswered[c],
              torn[c])
    BY <1>3, <2>1, <2>2, Before, Zenon DEF Typed
  <2>6. Answered(down[c], server[c].pc, server[c].job, d2, next.pc, ops)
    BY <1>1, <1>3, <1>5, <2>2, Zenon DEF Answered
  <2>7. PairOf(client[c], up[c], d2, next.pc, next.job, outcome[c], ops,
               unanswered[c], torn[c])
    BY <2>1, <2>6, Before, PairAnswered, ZenonT(40)
  <2>8. RightsOf(next, ops)
    BY <1>1, <1>3, <2>1, Before, Zenon DEF RightsOf, Admitted, Served
  <2> QED  BY <2>4, <2>5, <2>7, <2>8, Settles, ZenonT(40)
<1>6. ASSUME NEW ops, Carried(c, ops), last' = [last EXCEPT ![c] = ops],
             down' = down, server' = [server EXCEPT ![c] = over]
      PROVE  Settled(c)
  <2>1. /\ ops \subseteq OperationType
        /\ Operated(server[c].job, server[c].pc, last[c], ops)
        /\ Served(server[c], ops)
    BY <1>1, <1>6, CarriedOut, Zenon
  <2>2. Changed(c, client[c], up[c], down[c], over, outcome[c], ops,
                unanswered[c], torn[c])
    BY <1>6, Alone, Zenon DEF Dispatch, Changed
  <2>3. Typed(client[c], up[c], down[c], over, outcome[c], ops, unanswered[c],
              torn[c])
    BY <1>2, <2>1, Before, Zenon DEF Typed
  <2>4. server[c].pc \in {"auth", "serving", "dispatch"}
    BY <1>1, Zenon
  <2>5. PairOf(client[c], up[c], down[c], over.pc, server[c].job, outcome[c],
               ops, unanswered[c], torn[c])
    BY <1>2, <2>1, <2>4, Before, PairClosed, ZenonT(40)
  <2>6. PairOf(client[c], up[c], down[c], over.pc, over.job, outcome[c], ops,
               unanswered[c], torn[c])
    BY <1>2, <2>5, Zenon
  <2> QED  BY <1>2, <2>1, <2>2, <2>3, <2>6, Settles, ZenonT(40)
<1>7. PICK identity \in server[c].identity :
         IF Refused(identity, job.method) \/ Invalid(job)
         THEN WriteThen(c, Failure(job.id), next) /\ UNCHANGED last
         ELSE Performed(c, job, identity)
  BY Zenon DEF Dispatch, next
<1>8. /\ Failure(job.id) \in DownFrame /\ Failure(job.id).id = job.id
      /\ ~Failure(job.id).ok
      /\ Success(job.id, job.method) \in DownFrame
      /\ Success(job.id, job.method).id = job.id
  BY <1>1, DownMade, Zenon
<1> HIDE DEF job
<1>9. CASE Refused(identity, job.method) \/ Invalid(job)
  <2>1. Carried(c, last[c]) /\ last' = [last EXCEPT ![c] = last[c]]
    BY <1>7, <1>9, Alone, Zenon DEF Carried
  <2>2. CASE /\ down' = [down EXCEPT ![c] = Append(@, Failure(job.id))]
             /\ server' = [server EXCEPT ![c] = next]
    BY <1>5, <1>8, <2>1, <2>2, Zenon
  <2>3. CASE server' = [server EXCEPT ![c] = over] /\ down' = down
    BY <1>6, <2>1, <2>3, Zenon
  <2> QED  BY <1>4, <1>7, <1>9, <2>2, <2>3, Zenon DEF WriteThen
<1>10. CASE ~Refused(identity, job.method) /\ Performed(c, job, identity)
  <2> DEFINE ops == {Operation(job, identity)}
  <2>1. Carried(c, ops) /\ last' = [last EXCEPT ![c] = ops]
    BY <1>10, Zenon DEF Performed, Carried, job
  <2>2. \E o \in ops : o.id = job.id
    BY Zenon DEF Operation
  <2> HIDE DEF ops
  <2>3. ASSUME NEW response \in {Success(job.id, job.method), Failure(job.id)},
               WriteThen(c, response, next)
        PROVE  Settled(c)
    <3>1. response \in DownFrame /\ response.id = job.id
      BY <1>8, Zenon
    <3>2. CASE /\ down' = [down EXCEPT ![c] = Append(@, response)]
               /\ server' = [server EXCEPT ![c] = next]
      BY <1>5, <2>1, <2>2, <3>1, <3>2, ZenonT(40)
    <3>3. CASE server' = [server EXCEPT ![c] = over] /\ down' = down
      BY <1>6, <2>1, <3>3, Zenon
    <3> QED  BY <1>4, <2>3, <3>2, <3>3, Zenon DEF WriteThen
  <2>4. CASE server' = [server EXCEPT ![c] = over] /\ down' = down
    BY <1>6, <2>1, <2>4, Zenon
  <2> QED  BY <1>4, <1>10, <2>3, <2>4, Zenon DEF Performed, next
<1> QED  BY <1>7, <1>9, <1>10, Zenon

---------------------------------------------------------------------------
(* The invariant holds initially and every step keeps it.                    *)

LEMMA WireInitial ==
    ASSUME Init
    PROVE  StreamsOK /\ WireInv
<1>1. Nil \in RequestId /\ 0 \in RequestId /\ Nil = 0
  BY ParametersOK DEF Nil, RequestId
<1>2. StreamsOK
  <2>1. Pending(Nil) \in OutcomeState
    BY <1>1, Zenon DEF Pending, OutcomeState
  <2>2. [pc |-> "off", ask |-> NoRequest, sent |-> 0] \in ClientState
    BY <1>1, Zenon DEF ClientState
  <2>3. [pc |-> "none", peer |-> {}, token |-> {}, identity |-> {},
         job |-> NoRequest] \in ServerState
    BY Zenon DEF ServerState
  <2> QED  BY <2>1, <2>2, <2>3
           DEF Init, StreamsOK, ClientState, ServerState, OutcomeState
<1>3. ASSUME NEW c \in Conns
      PROVE  ConnInv(c)
  <2>1. /\ client[c].pc = "off" /\ client[c].sent = 0
        /\ Len(up[c]) = 0 /\ Len(down[c]) = 0
        /\ server[c].pc = "none" /\ outcome[c].from = 0
        /\ outcome[c].id = 0 /\ outcome[c].as = "none"
        /\ last[c] = {} /\ unanswered[c] = 0 /\ torn[c] = FALSE
    BY <1>1, Zenon DEF Init, Pending
  <2>2. Waits(client[c]) = 0 /\ Serves(server[c].pc) = 0
    BY <2>1, Zenon DEF Waits, Serves
  <2>3. PhaseOf(client[c], up[c], down[c], server[c].pc, unanswered[c], torn[c])
    BY <2>1 DEF PhaseOf, TornOnce, Replies
  <2>4. IdOf(client[c], up[c], down[c], server[c].pc, server[c].job,
             outcome[c], last[c])
    BY <2>1, <2>2 DEF IdOf, Ids, Ordered, After, Upward
  <2>5. LagOf(client[c], up[c], down[c], server[c].pc, server[c].job,
              unanswered[c])
    BY <2>1, <2>2 DEF LagOf, DownLag, JobLag, UpLag
  <2>6. DoneOf(client[c], up[c], down[c], server[c].pc, server[c].job, last[c],
               unanswered[c])
    BY <2>1, <2>2 DEF DoneOf, OkDone
  <2>7. ReturnedOf(outcome[c], last[c], unanswered[c])
    BY <1>1, <2>1 DEF ReturnedOf
  <2>8. RightsOf(server[c], last[c])
    BY <2>1, Zenon DEF RightsOf, Admitted, Served
  <2> QED  BY <2>3, <2>4, <2>5, <2>6, <2>7, <2>8, ZenonT(40)
           DEF ConnInv, PairInv, PairOf, RightsInv
<1> QED  BY <1>2, <1>3, Zenon DEF WireInv

(* A step of one connection is a step of all of them.                        *)
LEMMA Spread ==
    ASSUME WireInv, NEW c \in Conns, Settled(c)
    PROVE  StreamsOK' /\ WireInv'
<1>1. ASSUME NEW e \in Conns
      PROVE  ConnInv(e)'
  <2>1. CASE e = c
    BY <2>1, Zenon DEF Settled
  <2>2. CASE e # c
    BY <2>2, OthersKept, Zenon DEF Settled, WireInv
  <2> QED  BY <2>1, <2>2, Zenon
<1> QED  BY <1>1, Zenon DEF Settled, WireInv

(* Tokens come and go, and the listener stops, beside the connections.       *)
LEMMA Beside ==
    ASSUME StreamsOK, WireInv, tokens' \in [Tokens -> {{}} \cup {{i} : i \in Identity}],
           accepting' \in BOOLEAN,
           UNCHANGED <<client, up, down, server, outcome, last, unanswered, torn>>
    PROVE  StreamsOK' /\ WireInv'
<1>1. StreamsOK'
  BY Zenon DEF StreamsOK
<1>2. ASSUME NEW c \in Conns
      PROVE  ConnInv(c)'
  <2>1. SameAt(c)
    BY Zenon DEF SameAt
  <2> QED  BY <2>1, OthersKept, Zenon DEF WireInv
<1> QED  BY <1>1, <1>2, Zenon DEF WireInv

LEMMA WireStep ==
    ASSUME StreamsOK, WireInv, [Next]_vars
    PROVE  StreamsOK' /\ WireInv'
<1>1. ASSUME NEW t \in Tokens, Revoke(t) \/ \E i \in Identities : Register(t, i)
      PROVE  StreamsOK' /\ WireInv'
  <2>1. /\ tokens' \in [Tokens -> {{}} \cup {{i} : i \in Identity}]
        /\ accepting' = accepting
        /\ UNCHANGED <<client, up, down, server, outcome, last, unanswered, torn>>
    <3>1. tokens \in [Tokens -> {{}} \cup {{i} : i \in Identity}]
      BY Zenon DEF StreamsOK
    <3>2. CASE Revoke(t)
      BY <3>1, <3>2, Zenon DEF Revoke
    <3>3. ASSUME NEW i \in Identities, Register(t, i)
          PROVE  /\ tokens' \in [Tokens -> {{}} \cup {{j} : j \in Identity}]
                 /\ accepting' = accepting
                 /\ UNCHANGED <<client, up, down, server, outcome, last,
                                unanswered, torn>>
      <4>1. {i} \in {{}} \cup {{j} : j \in Identity}
        BY ParametersOK, Zenon
      <4> QED  BY <3>1, <3>3, <4>1, Zenon DEF Register
    <3> QED  BY <1>1, <3>2, <3>3, Zenon
  <2> QED  BY <2>1, Beside, ZenonT(40) DEF StreamsOK
<1>2. CASE Shutdown
  BY <1>2, Beside, ZenonT(40) DEF Shutdown, StreamsOK
<1>3. CASE UNCHANGED vars
  BY <1>3, Beside, Zenon DEF vars, StreamsOK
<1>4. ASSUME NEW c \in Conns,
             \/ \E h \in Hellos : Connect(c, h)
             \/ Call(c)
             \/ Abandon(c)
             \/ ReadMisaligned(c)
             \/ AbandonWrite(c)
             \/ DropClient(c)
             \/ ClientReads(c)
             \/ ServerStep(c)
      PROVE  StreamsOK' /\ WireInv'
  <2>1. ConnInv(c)
    BY Zenon DEF WireInv
  <2>2. CASE \E h \in Hellos : Connect(c, h)
    BY <2>1, <2>2, ConnectStep, Spread, Zenon
  <2>3. CASE Call(c)
    BY <2>1, <2>3, SendRequestStep, RequestTooLargeStep, Spread, ZenonT(40) DEF Call
  <2>4. CASE Abandon(c) \/ ReadMisaligned(c) \/ AbandonWrite(c) \/ DropClient(c)
    BY <2>1, <2>4, AbandonStep, ReadMisalignedStep, AbandonWriteStep,
       DropClientStep, Spread, ZenonT(40)
  <2>5. CASE ClientReads(c)
    BY <2>1, <2>5, TakeServerHelloStep, TakeResponseStep, StreamFailsStep,
       Spread, SMTT(40) DEF ClientReads
  <2>6. CASE Accept(c) \/ Handshake(c) \/ Authenticate(c)
    BY <2>1, <2>6, AcceptStep, HandshakeStep, AuthenticateStep, Spread, Zenon
  <2>7. CASE ReadRequest(c) \/ ReadGarbage(c) \/ ReadEof(c) \/ Dispatch(c)
    BY <2>1, <2>7, ReadRequestStep, ReadGarbageStep, ReadEofStep, DispatchStep,
       Spread, Zenon
  <2> QED  BY <1>4, <2>2, <2>3, <2>4, <2>5, <2>6, <2>7, ZenonT(40) DEF ServerStep
<1> QED  BY <1>1, <1>2, <1>3, <1>4, ZenonT(40) DEF Next

---------------------------------------------------------------------------
(* The frames under way, seen as one sequence.                               *)

LEMMA UnderWayPlaces ==
    ASSUME StreamsOK, NEW c \in Conns, NEW i \in 1 .. Len(UnderWay(c))
    PROVE  Place(UnderWay(c), i, Len(down[c]), down[c], Serves(server[c].pc),
                 server[c].job, Len(up[c]), up[c])
<1> DEFINE S == UpFrame \cup DownFrame \cup RequestFrame \cup {NoRequest}
           j == server[c].job
           m == IF server[c].pc = "dispatch" THEN <<j>> ELSE <<>>
           x == Serves(server[c].pc)
           q == down[c] \o m
<1>1. up[c] \in Seq(S) /\ down[c] \in Seq(S)
  BY ConnTyped
<1>2. m \in Seq(S) /\ Len(m) = x /\ (x = 1 => m[1] = j) /\ x \in {0, 1}
  <2>1. j \in S
    BY ConnTyped, Zenon DEF ServerState
  <2> HIDE DEF j, S
  <2> QED  BY <2>1 DEF Serves
<1> HIDE DEF S, j, m, x
<1>3. /\ q \in Seq(S) /\ Len(q) = Len(down[c]) + Len(m)
      /\ \A k \in 1 .. Len(down[c]) + Len(m) :
            q[k] = IF k <= Len(down[c]) THEN down[c][k] ELSE m[k - Len(down[c])]
  BY <1>1, <1>2, Concatenated, ZenonT(40)
<1> HIDE DEF q
<1>4. UnderWay(c) = q \o up[c]
  BY Zenon DEF UnderWay, q, m, j
<1>5. /\ Len(q \o up[c]) = Len(q) + Len(up[c])
      /\ \A k \in 1 .. Len(q) + Len(up[c]) :
            (q \o up[c])[k] = IF k <= Len(q) THEN q[k] ELSE up[c][k - Len(q)]
  <2>1. q \in Seq(S) /\ up[c] \in Seq(S)
    BY <1>1, <1>3, Zenon
  <2> QED  BY <2>1, Concatenated, ZenonT(40)
<1>6. Len(down[c]) \in Nat /\ Len(up[c]) \in Nat
  BY ConnTyped
<1> DEFINE ld == Len(down[c])
           lu == Len(up[c])
           s == UnderWay(c)
<1>7. i \in 1 .. ld + x + lu
  BY <1>2, <1>3, <1>4, <1>5, Zenon
<1>8. s[i] = IF i <= ld + x THEN q[i] ELSE up[c][i - (ld + x)]
  BY <1>2, <1>3, <1>4, <1>5, <1>7, ZenonT(40)
<1>9. i <= ld + x => q[i] = IF i <= ld THEN down[c][i] ELSE m[i - ld]
  BY <1>2, <1>3, <1>6, <1>7
<1> HIDE DEF ld, lu, s
<1>10. ld \in Nat /\ lu \in Nat
  BY <1>6, ZenonT(40) DEF ld, lu
<1>11. CASE i <= ld
  BY <1>2, <1>7, <1>8, <1>9, <1>10, <1>11, SMTT(40) DEF Place, ld, lu, s, j, x
<1>12. CASE ld < i /\ i <= ld + x
  <2>1. x = 1 /\ i = ld + 1 /\ i - ld = 1
    BY <1>2, <1>7, <1>10, <1>12
  <2>2. s[i] = j
    BY <1>2, <1>8, <1>9, <1>10, <1>12, <2>1, SMTT(40)
  <2> QED  BY <2>1, <2>2, Zenon DEF Place, ld, lu, s, j, x
<1>13. CASE ld + x < i
  <2>1. i - (ld + x) = i - ld - x /\ i - ld - x \in 1 .. lu /\ ~(i <= ld + x)
    BY <1>2, <1>7, <1>10, <1>13
  <2>2. s[i] = up[c][i - ld - x]
    BY <1>8, <2>1, Zenon
  <2> QED  BY <2>1, <2>2, Zenon DEF Place, ld, lu, s, j, x
<1> QED  BY <1>2, <1>7, <1>10, <1>11, <1>12, <1>13

LEMMA InvariantOrders ==
    ASSUME StreamsOK, WireInv
    PROVE  RepliesInOrder
<1>1. SUFFICES ASSUME NEW c \in Conns, NEW i \in 1 .. Len(UnderWay(c)),
                      UnderWay(c)[i].id # NilId
               PROVE  /\ outcome[c].from < UnderWay(c)[i].id
                      /\ \A k \in 1 .. Len(UnderWay(c)) :
                            i < k /\ UnderWay(c)[k].id # NilId
                               => UnderWay(c)[i].id < UnderWay(c)[k].id
  BY ZenonT(40) DEF RepliesInOrder, Nil, NilId
<1> DEFINE s == UnderWay(c)
           x == Serves(server[c].pc)
<1>2. /\ Ordered(outcome[c].from, Len(down[c]), down[c], x, server[c].job,
                 Len(up[c]), up[c])
      /\ Len(down[c]) \in Nat /\ Len(up[c]) \in Nat /\ x \in {0, 1}
  BY ConnTyped DEF WireInv, ConnInv, PairInv, PairOf, IdOf, Serves
<1>3. ASSUME NEW k \in 1 .. Len(s)
      PROVE  Place(s, k, Len(down[c]), down[c], x, server[c].job, Len(up[c]),
                   up[c]) /\ k \in Nat
  BY UnderWayPlaces
<1> HIDE DEF s, x
<1>4. ASSUME NEW k \in 1 .. Len(s), s[k].id # NilId
      PROVE  outcome[c].from < s[i].id /\ (i < k => s[i].id < s[k].id)
  <2>1. i \in 1 .. Len(s) /\ s[i].id # NilId
    BY <1>1, Zenon DEF s
  <2>2. /\ Place(s, i, Len(down[c]), down[c], x, server[c].job, Len(up[c]),
                 up[c])
        /\ Place(s, k, Len(down[c]), down[c], x, server[c].job, Len(up[c]),
                 up[c])
        /\ i \in Nat /\ k \in Nat
    BY <1>3, <2>1, Zenon
  <2> QED  BY <1>2, <1>4, <2>1, <2>2, PlacesOrdered, ZenonT(40)
<1> QED  BY <1>1, <1>4, Zenon DEF s

---------------------------------------------------------------------------
(* Whose rights a connection has.                                            *)

(* Nobody is admitted before the authentication; while it is due, what the   *)
(* token stands for is recorded; and who is admitted was recorded.           *)
KnownOf(c) ==
    /\ server[c].pc \in {"none", "backlog", "hello", "auth"}
          => server[c].identity = {}
    /\ server[c].pc = "auth"
          => Authenticated(server[c].token) \subseteq registered[c]
    /\ server[c].identity \subseteq registered[c]

KnownInv ==
    registered \in [Conns -> SUBSET Identity] /\ \A c \in Conns : KnownOf(c)

LEMMA KnownInitial ==
    ASSUME Init
    PROVE  KnownInv
<1>1. registered \in [Conns -> SUBSET Identity]
  BY Zenon DEF Init
<1>2. ASSUME NEW c \in Conns
      PROVE  KnownOf(c)
  <2>1. server[c].pc = "none" /\ server[c].identity = {}
    BY Zenon DEF Init
  <2> QED  BY <2>1, Zenon DEF KnownOf
<1> QED  BY <1>1, <1>2, Zenon DEF KnownInv

(* A step that leaves tokens, tasks and records alone.                       *)
LEMMA KnownKept ==
    ASSUME KnownInv, UNCHANGED <<tokens, server, registered>>
    PROVE  KnownInv'
  BY Zenon DEF KnownInv, KnownOf, Authenticated

(* A task moves on, to before its authentication only from there.            *)
LEMMA KnownMoved ==
    ASSUME StreamsOK, KnownInv, UNCHANGED <<tokens, registered>>,
           NEW c \in Conns, NEW sv, server' = [server EXCEPT ![c] = sv],
           sv.identity = server[c].identity, sv.pc # "auth",
           sv.pc \in {"none", "backlog", "hello"} =>
              server[c].pc \in {"none", "backlog"}
    PROVE  KnownInv'
<1>1. /\ server'[c] = sv
      /\ \A e \in Conns \ {c} : server'[e] = server[e]
  BY Zenon DEF StreamsOK
<1>2. KnownOf(c)'
  BY <1>1, Zenon DEF KnownInv, KnownOf
<1>3. ASSUME NEW e \in Conns \ {c}
      PROVE  KnownOf(e)'
  <2>1. KnownOf(e) /\ server'[e] = server[e] /\ registered'[e] = registered[e]
    BY <1>1, Zenon DEF KnownInv
  <2>2. Authenticated(server[e].token)' = Authenticated(server[e].token)
    BY <2>1, Zenon DEF Authenticated
  <2> QED  BY <2>1, <2>2, Zenon DEF KnownOf
<1> QED  BY <1>2, <1>3, Zenon DEF KnownInv

LEMMA KnownRegistered ==
    ASSUME StreamsOK, KnownInv, NEW t \in Tokens, NEW i \in Identities,
           Register(t, i)
    PROVE  KnownInv'
<1>1. i \in Identity
  BY ParametersOK, Zenon
<1>2. registered' \in [Conns -> SUBSET Identity]
  BY <1>1, Zenon DEF Register, KnownInv
<1>3. ASSUME NEW c \in Conns
      PROVE  KnownOf(c)'
  <2>1. /\ registered[c] \subseteq registered'[c]
        /\ server[c].pc = "auth" /\ t \in server[c].token
              => i \in registered'[c]
        /\ server' = server
    BY Zenon DEF Register
  <2>2. KnownOf(c)
    BY Zenon DEF KnownInv
  <2>3. ASSUME server[c].pc = "auth"
        PROVE  Authenticated(server[c].token)' \subseteq registered'[c]
    <3>1. CASE AllowAll
      BY <2>1, <2>2, <2>3, <3>1, Zenon DEF KnownOf, Authenticated
    <3>2. ASSUME ~AllowAll, NEW u \in server[c].token
          PROVE  tokens'[u] \subseteq registered'[c]
      <4>1. CASE u = t
        <5>1. tokens'[u] = {i} /\ i \in registered'[c]
          BY <2>1, <2>3, <3>2, <4>1, Zenon DEF Register, StreamsOK
        <5> QED  BY <5>1, Zenon
      <4>2. CASE u # t
        <5>1. tokens'[u] = tokens[u]
          <6>1. u \in Tokens
            BY <3>2, ConnTyped, Zenon DEF ServerState
          <6> QED  BY <4>2, <6>1, Zenon DEF Register, StreamsOK
        <5>2. tokens[u] \subseteq Authenticated(server[c].token)
          BY <3>2, Zenon DEF Authenticated
        <5> QED  BY <2>1, <2>2, <2>3, <5>1, <5>2, Zenon DEF KnownOf
      <4> QED  BY <4>1, <4>2, Zenon
    <3> QED  BY <2>1, <3>1, <3>2, Zenon DEF Authenticated
  <2> QED  BY <2>1, <2>2, <2>3, Zenon DEF KnownOf
<1> QED  BY <1>2, <1>3, Zenon DEF KnownInv

LEMMA KnownRevoked ==
    ASSUME StreamsOK, KnownInv, NEW t \in Tokens, Revoke(t)
    PROVE  KnownInv'
<1>1. \A u \in Tokens : tokens'[u] \subseteq tokens[u]
  BY Zenon DEF Revoke, StreamsOK
<1>2. ASSUME NEW c \in Conns
      PROVE  KnownOf(c)'
  <2>1. /\ KnownOf(c) /\ server' = server /\ registered' = registered
        /\ server[c].token \subseteq Tokens
    BY ConnTyped, Zenon DEF Revoke, KnownInv, ServerState
  <2>2. Authenticated(server[c].token)' \subseteq Authenticated(server[c].token)
    BY <1>1, <2>1, Zenon DEF Authenticated
  <2> QED  BY <2>1, <2>2, Zenon DEF KnownOf
<1> QED  BY <1>2, Zenon DEF Revoke, KnownInv

LEMMA KnownGreeted ==
    ASSUME StreamsOK, KnownInv, NEW c \in Conns, ConnInv(c), Handshake(c)
    PROVE  KnownInv'
<1>8. PICK token : token = Head(up[c]).hello.token
  OBVIOUS
<1>1. token \subseteq Tokens
  BY <1>8, HelloHeard, Zenon DEF Handshake
<1>2. Authenticated(token) \subseteq Identity
  BY <1>1, Stands, Zenon
<1>3. /\ registered' = [registered EXCEPT ![c] = Authenticated(token)]
      /\ tokens' = tokens
  BY <1>8, Zenon DEF Handshake
<1>4. /\ registered' \in [Conns -> SUBSET Identity]
      /\ registered'[c] = Authenticated(token)
      /\ \A e \in Conns \ {c} : registered'[e] = registered[e]
  BY <1>2, <1>3, Zenon DEF KnownInv
<1>5. PICK sv : /\ server' = [server EXCEPT ![c] = sv]
                /\ sv.identity = server[c].identity
                /\ sv.pc = "auth" => sv.token = token
  <2>1. server[c] \in ServerState
    BY ConnTyped, Zenon
  <2>2. [server EXCEPT ![c].pc = "closed"]
           = [server EXCEPT ![c] = [server[c] EXCEPT !.pc = "closed"]]
    BY Zenon DEF StreamsOK
  <2> DEFINE ok == Acceptable(Head(up[c]).hello)
             sv1 == [server[c] EXCEPT !.pc = IF ok THEN "auth" ELSE "closed",
                                      !.token = token]
             sv2 == [server[c] EXCEPT !.pc = "closed"]
  <2>3. \/ server' = [server EXCEPT ![c] = sv1]
        \/ server' = [server EXCEPT ![c] = sv2]
    BY <1>8, <2>2, Zenon DEF Handshake, WriteThen
  <2>4. /\ sv1.identity = server[c].identity /\ sv1.token = token
        /\ sv2.identity = server[c].identity /\ sv2.pc = "closed"
    BY <2>1, Zenon DEF ServerState
  <2> HIDE DEF sv1, sv2
  <2> QED  BY <2>3, <2>4, Zenon
<1>6. server[c].identity = {}
  BY Zenon DEF Handshake, KnownInv, KnownOf
<1>7. server'[c] = sv /\ \A e \in Conns \ {c} : server'[e] = server[e]
  BY <1>5, Zenon DEF StreamsOK
<1>9. KnownOf(c)'
  <2>1. server'[c].identity = {}
    BY <1>5, <1>6, <1>7, Zenon
  <2>2. server'[c].pc = "auth"
           => Authenticated(server[c].token)' \subseteq registered'[c]
    <3>1. Authenticated(token)' = Authenticated(token)
      BY <1>3, Zenon DEF Authenticated
    <3> QED  BY <1>4, <1>5, <1>7, <3>1, Zenon DEF Authenticated
  <2> QED  BY <2>1, <2>2, Zenon DEF KnownOf
<1>10. ASSUME NEW e \in Conns \ {c}
       PROVE  KnownOf(e)'
  <2>1. KnownOf(e) /\ server'[e] = server[e] /\ registered'[e] = registered[e]
    BY <1>4, <1>7, Zenon DEF KnownInv
  <2>2. Authenticated(server[e].token)' = Authenticated(server[e].token)
    BY <1>3, <2>1, Zenon DEF Authenticated
  <2> QED  BY <2>1, <2>2, Zenon DEF KnownOf
<1> QED  BY <1>4, <1>9, <1>10, Zenon DEF KnownInv

LEMMA KnownAdmitted ==
    ASSUME StreamsOK, KnownInv, NEW c \in Conns, Authenticate(c)
    PROVE  KnownInv'
<1> DEFINE found == Authenticated(server[c].token)
<1>1. found \subseteq registered[c]
  BY Zenon DEF Authenticate, KnownInv, KnownOf
<1>2. server'[c].identity = found /\ server'[c].pc \in {"closed", "serving"}
  BY ConnTyped, Zenon DEF Authenticate, StreamsOK, ServerState
<1>3. /\ registered' = [registered EXCEPT ![c] = registered[c] \cap found]
      /\ tokens' = tokens
      /\ \A e \in Conns \ {c} : server'[e] = server[e]
  BY Zenon DEF Authenticate, StreamsOK
<1> HIDE DEF found
<1>4. /\ registered' \in [Conns -> SUBSET Identity]
      /\ registered'[c] = registered[c] \cap found
      /\ \A e \in Conns \ {c} : registered'[e] = registered[e]
  BY <1>3, Zenon DEF KnownInv
<1>5. KnownOf(c)'
  BY <1>1, <1>2, <1>4, Zenon DEF KnownOf
<1>6. ASSUME NEW e \in Conns \ {c}
      PROVE  KnownOf(e)'
  <2>1. KnownOf(e) /\ server'[e] = server[e] /\ registered'[e] = registered[e]
    BY <1>3, <1>4, Zenon DEF KnownInv
  <2>2. Authenticated(server[e].token)' = Authenticated(server[e].token)
    BY <1>3, <2>1, Zenon DEF Authenticated
  <2> QED  BY <2>1, <2>2, Zenon DEF KnownOf
<1> QED  BY <1>4, <1>5, <1>6, Zenon DEF KnownInv

(* The steps of a task other than the handshake and the authentication.      *)
LEMMA KnownServing ==
    ASSUME StreamsOK, KnownInv, NEW c \in Conns,
           \/ Accept(c)
           \/ ReadRequest(c)
           \/ ReadGarbage(c)
           \/ ReadEof(c)
           \/ Dispatch(c)
    PROVE  KnownInv'
<1> DEFINE at(pc) == [server[c] EXCEPT !.pc = pc]
<1>1. server[c] \in ServerState
  BY ConnTyped, Zenon
<1>2. \A pc : /\ [server EXCEPT ![c].pc = pc] = [server EXCEPT ![c] = at(pc)]
              /\ at(pc).identity = server[c].identity /\ at(pc).pc = pc
  BY <1>1, Zenon DEF StreamsOK, ServerState
<1>3. CASE Accept(c)
  <2>1. PICK peer : server' = [server EXCEPT ![c].pc = "hello",
                                             ![c].peer = {peer}]
    BY <1>3, Zenon DEF Accept
  <2> DEFINE s2 == [server[c] EXCEPT !.pc = "hello", !.peer = {peer}]
  <2>2. /\ server' = [server EXCEPT ![c] = s2]
        /\ s2.identity = server[c].identity /\ s2.pc = "hello"
    BY <1>1, <2>1, Zenon DEF StreamsOK, ServerState
  <2>3. UNCHANGED <<tokens, registered>> /\ server[c].pc = "backlog"
    BY <1>3, Zenon DEF Accept
  <2> HIDE DEF s2
  <2> QED  BY <2>2, <2>3, KnownMoved, Zenon
<1>4. CASE ReadRequest(c)
  <2> DEFINE job == Head(up[c])
             s2 == [server[c] EXCEPT !.pc = "dispatch", !.job = job]
  <2>1. server' = [server EXCEPT ![c].pc = "dispatch", ![c].job = job]
    BY <1>4, Zenon DEF ReadRequest
  <2>2. /\ server' = [server EXCEPT ![c] = s2]
        /\ s2.identity = server[c].identity /\ s2.pc = "dispatch"
    BY <1>1, <2>1, Zenon DEF StreamsOK, ServerState
  <2>3. UNCHANGED <<tokens, registered>>
    BY <1>4, Zenon DEF ReadRequest
  <2> HIDE DEF s2
  <2> QED  BY <2>2, <2>3, KnownMoved, Zenon
<1>5. ASSUME server' = [server EXCEPT ![c].pc = "closed"],
             UNCHANGED <<tokens, registered>>
      PROVE  KnownInv'
  <2>1. /\ server' = [server EXCEPT ![c] = at("closed")]
        /\ at("closed").identity = server[c].identity /\ at("closed").pc = "closed"
    BY <1>2, <1>5, Zenon
  <2> HIDE DEF at
  <2> QED  BY <1>5, <2>1, KnownMoved, Zenon
<1>6. ASSUME NEW f, NEW s2, WriteThen(c, f, s2), s2.identity = server[c].identity,
             s2.pc \in {"serving", "closed"}, UNCHANGED <<tokens, registered>>
      PROVE  KnownInv'
  <2>1. CASE server' = [server EXCEPT ![c] = s2]
    BY <1>6, <2>1, KnownMoved, Zenon
  <2> QED  BY <1>5, <1>6, <2>1, Zenon DEF WriteThen
<1>7. CASE ReadGarbage(c)
  <2>1. server[c].pc = "serving" /\ UNCHANGED <<tokens, registered>>
    BY <1>7, Zenon DEF ReadGarbage
  <2>2. CASE WriteThen(c, Failure(Nil), server[c])
    BY <1>6, <2>1, <2>2, Zenon
  <2>3. CASE WriteThen(c, Failure(Nil), [server[c] EXCEPT !.pc = "closed"])
    BY <1>2, <1>6, <2>1, <2>3, Zenon
  <2> QED  BY <1>7, <2>2, <2>3, Zenon DEF ReadGarbage
<1>8. CASE ReadEof(c)
  BY <1>5, <1>8, Zenon DEF ReadEof
<1>9. CASE Dispatch(c)
  <2> DEFINE s2 == [server[c] EXCEPT !.pc = "serving", !.job = NoRequest]
  <2>1. UNCHANGED <<tokens, registered>>
    BY <1>9, Zenon DEF Dispatch
  <2>2. s2.identity = server[c].identity /\ s2.pc = "serving"
    BY <1>1, Zenon DEF ServerState
  <2>3. \/ \E f : WriteThen(c, f, s2)
        \/ server' = [server EXCEPT ![c].pc = "closed"]
    BY <1>9, Zenon DEF Dispatch, Performed
  <2> HIDE DEF s2
  <2> QED  BY <1>5, <1>6, <2>1, <2>2, <2>3, Zenon
<1> QED  BY <1>3, <1>4, <1>7, <1>8, <1>9, Zenon

LEMMA KnownStep ==
    ASSUME StreamsOK, WireInv, KnownInv, [Next]_vars
    PROVE  KnownInv'
<1>1. ASSUME NEW t \in Tokens, Revoke(t) \/ \E i \in Identities : Register(t, i)
      PROVE  KnownInv'
  BY <1>1, KnownRevoked, KnownRegistered, Zenon
<1>2. CASE Shutdown
  BY <1>2, KnownKept, Zenon DEF Shutdown
<1>3. CASE UNCHANGED vars
  BY <1>3, KnownKept, Zenon DEF vars
<1>4. ASSUME NEW c \in Conns, NEW h \in Hellos, Connect(c, h)
      PROVE  KnownInv'
  <2> DEFINE s2 == [server[c] EXCEPT !.pc = "backlog"]
  <2>1. server' = [server EXCEPT ![c] = s2] /\ UNCHANGED <<tokens, registered>>
    BY <1>4, Zenon DEF Connect, StreamsOK
  <2>2. s2.identity = server[c].identity /\ s2.pc = "backlog"
    BY ConnTyped, Zenon DEF ServerState
  <2>3. server[c].pc = "none"
    BY <1>4, Zenon DEF Connect, WireInv, ConnInv, PairInv, PairOf, PhaseOf
  <2> HIDE DEF s2
  <2> QED  BY <2>1, <2>2, <2>3, KnownMoved, Zenon
<1>5. ASSUME NEW c \in Conns,
             Call(c) \/ Abandon(c) \/ ReadMisaligned(c) \/ AbandonWrite(c)
                \/ DropClient(c) \/ ClientReads(c)
      PROVE  KnownInv'
  <2>1. UNCHANGED <<tokens, server, registered>>
    BY <1>5, Zenon DEF Call, SendRequest, RequestTooLarge, Abandon,
       ReadMisaligned, AbandonWrite, DropClient, ClientReads, TakeServerHello,
       TakeResponse, StreamFails
  <2> QED  BY <2>1, KnownKept, Zenon
<1>6. ASSUME NEW c \in Conns, ServerStep(c)
      PROVE  KnownInv'
  <2>1. ConnInv(c)
    BY Zenon DEF WireInv
  <2> QED  BY <1>6, <2>1, KnownServing, KnownGreeted, KnownAdmitted, Zenon
           DEF ServerStep
<1> QED  BY <1>1, <1>2, <1>3, <1>4, <1>5, <1>6, ZenonT(40) DEF Next

---------------------------------------------------------------------------
(* The theorems.                                                             *)

LEMMA WireInvariant == Spec => [](StreamsOK /\ WireInv /\ KnownInv)
<1>1. Init => StreamsOK /\ WireInv /\ KnownInv
  BY WireInitial, KnownInitial, Zenon
<1>2. StreamsOK /\ WireInv /\ KnownInv /\ [Next]_vars
         => StreamsOK' /\ WireInv' /\ KnownInv'
  BY WireStep, KnownStep, Zenon
<1> QED  BY <1>1, <1>2, PTL DEF Spec

(* Both ends of every stream keep their types: the frames are of the         *)
(* protocol, and handle_connection meets no frame it cannot name.            *)
THEOREM WireTyped == Spec => []TypeOK
<1>1. StreamsOK /\ KnownInv => TypeOK
  BY Zenon DEF TypeOK, KnownInv
<1> QED  BY <1>1, WireInvariant, PTL

(* A connection is answered in order and no request twice, whatever was      *)
(* abandoned on it, torn, or cut short (request loop of handle_connection,   *)
(* VaultClient::request).                                                    *)
THEOREM AnsweredInOrder == Spec => []RepliesInOrder
<1>1. StreamsOK /\ WireInv => RepliesInOrder
  BY InvariantOrders, ZenonT(40)
<1> QED  BY <1>1, WireInvariant, PTL

(* VaultClient::request, which compares no ids, returns an answer to this    *)
(* request or an earlier one, behind by no more than the requests whose call *)
(* ended without a response while the stream went on: cancelled ones, and    *)
(* ones that failed because a cancelled read left the stream misaligned.     *)
THEOREM LagWithinUnanswered == Spec => []AnswerLagBounded
<1>1. StreamsOK /\ WireInv => AnswerLagBounded
  <2>1. SUFFICES ASSUME StreamsOK, WireInv, NEW c \in Conns,
                        outcome[c].from # NilId, outcome[c].id # NilId
                 PROVE  /\ outcome[c].from <= outcome[c].id
                        /\ outcome[c].id - outcome[c].from <= unanswered[c]
    BY DEF AnswerLagBounded, Nil, NilId
  <2>2. /\ outcome[c].from <= outcome[c].id
        /\ outcome[c].id <= outcome[c].from + unanswered[c]
    <3>1. ReturnedOf(outcome[c], last[c], unanswered[c])
      BY <2>1, Zenon DEF WireInv, ConnInv, PairInv, PairOf
    <3> QED  BY <2>1, <3>1, Zenon DEF ReturnedOf
  <2>3. /\ outcome[c].from \in Nat /\ outcome[c].id \in Nat
        /\ unanswered[c] \in Nat
    BY <2>1, ConnNumbers, Zenon
  <2> QED  BY <2>2, <2>3
<1> QED  BY <1>1, WireInvariant, PTL

(* On a connection on which no call was cancelled, an Ok of the client's     *)
(* typed methods stands for an operation of the vault under that method.     *)
THEOREM OkIsCarriedOut == Spec => []OkMeansDone
<1>1. WireInv => OkMeansDone
  BY Zenon DEF OkMeansDone, WireInv, ConnInv, PairInv, PairOf, ReturnedOf
<1> QED  BY <1>1, WireInvariant, PTL

(* Every operation is carried out with the rights of one identity, which the *)
(* connection's token stood for at some time between its hello and its       *)
(* authentication, however tokens are registered and revoked meanwhile and   *)
(* later (handle_connection, TokenAuthenticator, dispatch, resolve_agent,    *)
(* set_token_hash).                                                          *)
THEOREM RightsOfAdmission == Spec => []ServedAsAuthenticated
<1>1. WireInv /\ KnownInv => ServedAsAuthenticated
  <2>1. SUFFICES ASSUME WireInv, KnownInv, NEW c \in Conns, NEW d \in last[c]
                 PROVE  /\ \E i \in server[c].identity \cap registered[c] :
                              /\ d.method \in ADMIN_METHODS => i.role = "admin"
                              /\ i.role = "agent" /\ i.agent # {} /\ d.agent # {}
                                    => d.agent = i.agent
                        /\ Transport = "tcp" =>
                              \A p \in server[c].peer : p.hash = server[c].token
    BY Zenon DEF ServedAsAuthenticated
  <2>2. Served(server[c], last[c])
    BY <2>1, Zenon DEF WireInv, ConnInv, RightsInv, RightsOf
  <2>3. server[c].identity \subseteq registered[c]
    BY <2>1, Zenon DEF KnownInv, KnownOf
  <2> QED  BY <2>2, <2>3, Zenon DEF Served
<1> QED  BY <1>1, WireInvariant, PTL

===========================================================================
