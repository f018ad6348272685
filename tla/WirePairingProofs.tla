------------------------ MODULE WirePairingProofs ------------------------
(* How responses are paired with requests on one connection of Wire: what    *)
(* holds of its state, and that everything that can happen to a connection   *)
(* keeps it.  WireProofs shows that the actions of Wire do nothing else.     *)
EXTENDS Integers, Sequences, TLAPS

---------------------------------------------------------------------------
(* The inductive invariant, per connection.                                  *)

(* The id of a response to nothing that was understood (Wire's Nil).         *)
NilId == 0

(* How far the two ends can be apart; lu and ld are the lengths of u and d.  *)
TornOnce(t, lu, u) ==
    \A i, k \in 1 .. lu : u[i].kind = "torn" /\ u[k].kind = "torn" => i = k /\ t

Replies(ld, d) == \A i \in 1 .. ld : d[i].ok => d[i].id # NilId

(* n: requests sent; f: the response taken last; d, of length ld, and u, of  *)
(* length lu: the streams; j: the request being dispatched if x is 1.  Ids   *)
(* are given out once, and what is under way is in their order.              *)
Ids(n, ld, d, x, j, lu, u) ==
    /\ \A i \in 1 .. ld : d[i].id \in Nat /\ d[i].id <= n
    /\ x = 1 => j.id \in Nat /\ j.id # NilId /\ j.id <= n
    /\ \A i \in 1 .. lu : /\ u[i].id \in Nat /\ u[i].id <= n
                          /\ u[i].kind = "request" <=> u[i].id # NilId

After(f, l, s) == \A i \in 1 .. l : s[i].id # NilId => f < s[i].id

Upward(l, s) ==
    \A i, k \in 1 .. l :
       i < k /\ s[i].id # NilId /\ s[k].id # NilId => s[i].id < s[k].id

Ordered(f, ld, d, x, j, lu, u) ==
    /\ After(f, ld, d) /\ After(f, lu, u)
    /\ Upward(ld, d) /\ Upward(lu, u)
    /\ \A i \in 1 .. ld : d[i].id # NilId => After(d[i].id, lu, u)
    /\ x = 1 => /\ f < j.id
                /\ \A i \in 1 .. ld : d[i].id < j.id
                /\ After(j.id, lu, u)

(* What is under way before a call went unanswered, or will: a frame with n  *)
(* others before it is at least n short of the newest request, the s         *)
(* unanswered or waiting ones not counted.  A torn frame takes the next one   *)
(* with it.                                                                  *)
Torn(k, u) == IF \E i \in 1 .. k : u[i].kind = "torn" THEN 1 ELSE 0

DownLag(n, s, ld, d) == \A i \in 1 .. ld : d[i].id # NilId => n + i <= d[i].id + s

JobLag(n, s, ld, x, j) == x = 1 => n + ld + 1 <= j.id + s

UpLag(n, s, ld, x, lu, u) ==
    \A k \in 1 .. lu : u[k].id # NilId => n + ld + x + k <= u[k].id + s + Torn(k, u)

Load(s, ld, x, lu, u) == ld + x + lu <= s + Torn(lu, u)

(* m: the method of the request waited for; ops: the last operation.  What   *)
(* is under way with the newest id, and the operation with that id, is that  *)
(* request; a response of success is the last operation's.                   *)
Asked(n, m, x, j, lu, u, ops) ==
    /\ \A k \in 1 .. lu : u[k].id = n /\ n # NilId => u[k].method = m
    /\ x = 1 /\ j.id = n => j.method = m
    /\ \A o \in ops : o.id = n => o.method = m

OkDone(ld, d, ops) ==
    \A i \in 1 .. ld :
       d[i].id # NilId /\ d[i].ok => \E o \in ops : o.id = d[i].id

(* The state of one connection: cl, the client; u and d, the streams; pc and *)
(* j, the server's task; out, what the last call returned; ops, the last     *)
(* operation; a, the unanswered requests; t, a write was torn.               *)
Waits(cl) == IF cl.pc = "waiting" THEN 1 ELSE 0
Serves(pc) == IF pc = "dispatch" THEN 1 ELSE 0

PhaseOf(cl, u, d, pc, a, t) ==
    /\ cl.pc = "off" => pc = "none"
    /\ cl.pc \in {"off", "hello"} => cl.sent = 0 /\ a = 0 /\ ~t
    /\ pc \in {"none", "backlog", "hello"} =>
          cl.pc \in {"off", "hello", "gone"} /\ Len(d) = 0 /\ cl.sent = 0
    /\ pc = "none" => Len(u) = 0
    /\ pc \in {"backlog", "hello"} => Len(u) = 1 /\ u[1].kind = "hello"
    /\ cl.pc = "hello" /\ pc \notin {"backlog", "hello"} =>
          pc \in {"auth", "serving", "closed"} /\ Len(u) = 0 /\ Len(d) \in {0, 1}
    /\ TornOnce(t, Len(u), u)
    /\ cl.pc \in {"open", "waiting"} => Replies(Len(d), d)

IdOf(cl, u, d, pc, j, out, ops) ==
    /\ Ids(cl.sent, Len(d), d, Serves(pc), j, Len(u), u)
    /\ Ordered(out.from, Len(d), d, Serves(pc), j, Len(u), u)
    /\ cl.pc = "waiting" => /\ cl.ask.kind = "request"
                            /\ cl.ask.id = cl.sent
                            /\ cl.sent # NilId
                            /\ out.as = "none"
    /\ out.from <= cl.sent
    /\ \A o \in ops : o.id <= cl.sent

LagOf(cl, u, d, pc, j, a) ==
    /\ DownLag(cl.sent, a + Waits(cl), Len(d), d)
    /\ JobLag(cl.sent, a + Waits(cl), Len(d), Serves(pc), j)
    /\ pc # "closed" =>
          UpLag(cl.sent, a + Waits(cl), Len(d), Serves(pc), Len(u), u)
    /\ cl.pc \in {"open", "waiting"} /\ pc # "closed" =>
          Load(a + Waits(cl), Len(d), Serves(pc), Len(u), u)

DoneOf(cl, u, d, pc, j, ops, a) ==
    /\ pc = "dispatch" => j.kind = "request"
    /\ cl.pc = "waiting" =>
          Asked(cl.sent, cl.ask.method, Serves(pc), j, Len(u), u, ops)
    /\ a = 0 => OkDone(Len(d), d, ops)

(* AnswerLagBounded and OkMeansDone of the connection.                       *)
ReturnedOf(out, ops, a) ==
    /\ out.from # NilId /\ out.id # NilId =>
          out.from <= out.id /\ out.id <= out.from + a
    /\ out.as = "ok" /\ a = 0 =>
          \E o \in ops : o.id = out.id /\ o.method = out.method

PairOf(cl, u, d, pc, j, out, ops, a, t) ==
    /\ PhaseOf(cl, u, d, pc, a, t)
    /\ IdOf(cl, u, d, pc, j, out, ops)
    /\ LagOf(cl, u, d, pc, j, a)
    /\ DoneOf(cl, u, d, pc, j, ops, a)
    /\ ReturnedOf(out, ops, a)

---------------------------------------------------------------------------
(* The ids under way, step by step.  A stream with a frame more, and one     *)
(* with its first frame taken:                                               *)

Extended(l, s, s2) == \A i \in 1 .. l : s2[i] = s[i]

Advanced(l, s, s2) == \A i \in 1 .. l - 1 : s2[i] = s[i + 1]

LEMMA IdsSent ==
    ASSUME NEW n, NEW f, NEW ld, NEW d, NEW x, NEW j, NEW lu, NEW u, NEW v,
           Ids(n, ld, d, x, j, lu, u), Ordered(f, ld, d, x, j, lu, u),
           Extended(lu, u, v), n \in Nat, f \in Nat, ld \in Nat, x \in {0, 1},
           lu \in Nat, f <= n, v[lu + 1].id = n + 1,
           v[lu + 1].kind = "request"
    PROVE  Ids(n + 1, ld, d, x, j, lu + 1, v) /\ Ordered(f, ld, d, x, j, lu + 1, v)
<1> USE DEF Extended
<1>1. \A i \in 1 .. lu + 1 : i \in 1 .. lu \/ i = lu + 1
  OBVIOUS
<1>2. Ids(n + 1, ld, d, x, j, lu + 1, v)
  BY <1>1 DEF Ids, NilId
<1>3. ASSUME NEW g \in Nat, g <= n, After(g, lu, u)
      PROVE  After(g, lu + 1, v)
  BY <1>1, <1>3 DEF After, NilId
<1>4. Upward(lu + 1, v)
  BY <1>1 DEF Ids, Ordered, Upward, NilId
<1> QED  BY <1>2, <1>3, <1>4, Zenon DEF Ids, Ordered

LEMMA IdsTaken ==
    ASSUME NEW n, NEW f, NEW ld, NEW d, NEW x, NEW j, NEW lu, NEW u, NEW e,
           Ids(n, ld, d, x, j, lu, u), Ordered(f, ld, d, x, j, lu, u),
           Advanced(ld, d, e), n \in Nat, f \in Nat, ld \in Nat \ {0},
           x \in {0, 1}, lu \in Nat
    PROVE  /\ Ids(n, ld - 1, e, x, j, lu, u)
           /\ Ordered(d[1].id, ld - 1, e, x, j, lu, u)
<1> USE DEF Advanced
<1>1. \A i \in 1 .. ld - 1 : i + 1 \in 1 .. ld /\ 1 < i + 1 /\ 1 \in 1 .. ld
  OBVIOUS
<1>2. Ids(n, ld - 1, e, x, j, lu, u)
  BY <1>1, Zenon DEF Ids
<1>3. 1 \in 1 .. ld /\ d[1].id \in Nat
  BY DEF Ids
<1>4. After(d[1].id, ld - 1, e) /\ Upward(ld - 1, e)
  BY <1>1, <1>3 DEF Ids, Ordered, After, Upward, NilId
<1>5. After(d[1].id, lu, u)
  BY <1>3 DEF Ids, Ordered, After, NilId
<1>6. \A i \in 1 .. ld - 1 : e[i].id # NilId => After(e[i].id, lu, u)
  BY <1>1, Zenon DEF Ordered
<1>7. x = 1 => d[1].id < j.id /\ \A i \in 1 .. ld - 1 : e[i].id < j.id
  BY <1>1, <1>3, Zenon DEF Ordered
<1> QED  BY <1>2, <1>4, <1>5, <1>6, <1>7, Zenon DEF Ordered

(* A response that is not looked at any more, and a stream that is lost.     *)
LEMMA IdsForgotten ==
    ASSUME NEW n, NEW f, NEW ld, NEW d, NEW x, NEW j, NEW lu, NEW u, NEW e,
           Ids(n, ld, d, x, j, lu, u), Ordered(f, ld, d, x, j, lu, u),
           n \in Nat, f \in Nat, ld \in Nat, x \in {0, 1}, lu \in Nat
    PROVE  /\ Ordered(0, ld, d, x, j, lu, u)
           /\ Ids(n, 0, e, x, j, lu, u)
           /\ Ordered(f, 0, e, x, j, lu, u)
           /\ Ordered(0, 0, e, x, j, lu, u)
<1>1. After(0, ld, d) /\ After(0, lu, u)
  BY DEF Ids, After, NilId
<1>2. Ordered(0, ld, d, x, j, lu, u)
  BY <1>1 DEF Ids, Ordered, NilId
<1>3. Ids(n, 0, e, x, j, lu, u)
  BY DEF Ids
<1>4. After(f, 0, e) /\ After(0, 0, e) /\ Upward(0, e)
  BY DEF After, Upward
<1> QED  BY <1>1, <1>2, <1>3, <1>4 DEF Ordered

LEMMA IdsRead ==
    ASSUME NEW n, NEW f, NEW ld, NEW d, NEW j, NEW lu, NEW u, NEW v,
           Ids(n, ld, d, 0, j, lu, u), Ordered(f, ld, d, 0, j, lu, u),
           Advanced(lu, u, v), n \in Nat, f \in Nat, ld \in Nat,
           lu \in Nat \ {0}, u[1].kind = "request"
    PROVE  /\ Ids(n, ld, d, 1, u[1], lu - 1, v)
           /\ Ordered(f, ld, d, 1, u[1], lu - 1, v)
<1> USE DEF Advanced
<1>1. \A i \in 1 .. lu - 1 : i + 1 \in 1 .. lu /\ 1 < i + 1
  OBVIOUS
<1>2. 1 \in 1 .. lu /\ u[1].id \in Nat /\ u[1].id # NilId /\ u[1].id <= n
  <2>1. 1 \in 1 .. lu
    OBVIOUS
  <2>2. \A i \in 1 .. lu : /\ u[i].id \in Nat /\ u[i].id <= n
                           /\ u[i].kind = "request" <=> u[i].id # NilId
    BY Zenon DEF Ids
  <2> QED  BY <2>1, <2>2, Zenon
<1>3. Ids(n, ld, d, 1, u[1], lu - 1, v)
  BY <1>1, <1>2, Zenon DEF Ids
<1>4. \A g \in Nat : After(g, lu, u) => After(g, lu - 1, v)
  BY <1>1, Zenon DEF After
<1>5. Upward(lu - 1, v) /\ After(u[1].id, lu - 1, v)
  BY <1>1, <1>2 DEF Ordered, Upward, After
<1>6. f < u[1].id
  BY <1>2, Zenon DEF Ordered, After
<1>7. \A i \in 1 .. ld : d[i].id < u[1].id
  BY <1>2 DEF Ids, Ordered, After, NilId
<1> QED  BY <1>3, <1>4, <1>5, <1>6, <1>7, Zenon DEF Ordered, Ids

LEMMA IdsAnswered ==
    ASSUME NEW n, NEW f, NEW ld, NEW d, NEW j, NEW lu, NEW u, NEW e, NEW k,
           Ids(n, ld, d, 1, j, lu, u), Ordered(f, ld, d, 1, j, lu, u),
           Extended(ld, d, e), n \in Nat, f \in Nat, ld \in Nat, lu \in Nat,
           e[ld + 1].id = j.id
    PROVE  /\ Ids(n, ld + 1, e, 0, k, lu, u)
           /\ Ordered(f, ld + 1, e, 0, k, lu, u)
<1> USE DEF Extended
<1>1. \A i \in 1 .. ld + 1 : i \in 1 .. ld \/ i = ld + 1
  OBVIOUS
<1>2. Ids(n, ld + 1, e, 0, k, lu, u)
  BY <1>1 DEF Ids
<1>3. After(f, ld + 1, e)
  BY <1>1, Zenon DEF Ordered, After
<1>4. Upward(ld + 1, e)
  BY <1>1 DEF Ids, Ordered, Upward
<1>5. \A i \in 1 .. ld + 1 : e[i].id # NilId => After(e[i].id, lu, u)
  BY <1>1, Zenon DEF Ordered
<1> QED  BY <1>2, <1>3, <1>4, <1>5 DEF Ordered

(* The request being dispatched is given up.                                 *)
LEMMA IdsStopped ==
    ASSUME NEW n, NEW f, NEW ld, NEW d, NEW x, NEW j, NEW lu, NEW u, NEW k,
           Ids(n, ld, d, x, j, lu, u), Ordered(f, ld, d, x, j, lu, u),
           n \in Nat, f \in Nat, ld \in Nat, x \in {0, 1}, lu \in Nat
    PROVE  Ids(n, ld, d, 0, k, lu, u) /\ Ordered(f, ld, d, 0, k, lu, u)
  BY DEF Ids, Ordered

(* A response to no request.                                                 *)
LEMMA IdsNil ==
    ASSUME NEW n, NEW f, NEW ld, NEW d, NEW x, NEW j, NEW lu, NEW u, NEW e,
           Ids(n, ld, d, x, j, lu, u), Ordered(f, ld, d, x, j, lu, u),
           Extended(ld, d, e), n \in Nat, f \in Nat, ld \in Nat, x \in {0, 1},
           lu \in Nat, e[ld + 1].id = NilId
    PROVE  Ids(n, ld + 1, e, x, j, lu, u) /\ Ordered(f, ld + 1, e, x, j, lu, u)
<1> USE DEF Extended
<1>1. \A i \in 1 .. ld + 1 : i \in 1 .. ld \/ i = ld + 1
  OBVIOUS
<1>2. Ids(n, ld + 1, e, x, j, lu, u)
  BY <1>1 DEF Ids, NilId
<1>3. After(f, ld + 1, e) /\ Upward(ld + 1, e)
  BY <1>1, Zenon DEF Ordered, After, Upward
<1>4. \A i \in 1 .. ld + 1 : e[i].id # NilId => After(e[i].id, lu, u)
  BY <1>1, Zenon DEF Ordered
<1>5. x = 1 => \A i \in 1 .. ld + 1 : e[i].id < j.id
  BY <1>1 DEF Ids, Ordered, NilId
<1> QED  BY <1>2, <1>3, <1>4, <1>5, Zenon DEF Ordered

(* Frames of the client are lost, or one that is no request is added.        *)
Cut(o, lu, u, lv, v) ==
    \A i \in 1 .. lv : \/ v[i].id = NilId /\ v[i].kind # "request"
                       \/ i + o \in 1 .. lu /\ v[i] = u[i + o]

LEMMA IdsCut ==
    ASSUME NEW n, NEW f, NEW ld, NEW d, NEW x, NEW j, NEW lu, NEW u, NEW lv,
           NEW v, NEW o, Ids(n, ld, d, x, j, lu, u),
           Ordered(f, ld, d, x, j, lu, u), Cut(o, lu, u, lv, v), n \in Nat,
           f \in Nat, ld \in Nat, x \in {0, 1}, lu \in Nat, lv \in Nat, o \in Int
    PROVE  Ids(n, ld, d, x, j, lv, v) /\ Ordered(f, ld, d, x, j, lv, v)
<1> USE DEF Cut
<1>1. Ids(n, ld, d, x, j, lv, v)
  BY DEF Ids, NilId
<1>2. ASSUME NEW g, After(g, lu, u)
      PROVE  After(g, lv, v)
  BY <1>2, Zenon DEF After
<1>3. Upward(lv, v)
  BY DEF Ordered, Upward
<1> QED  BY <1>1, <1>2, <1>3, Zenon DEF Ordered

(* Responses are lost from the front, and a piece of one may be left.        *)
Lost(o, ld, d, le, e) ==
    /\ o \in Nat /\ le \in Nat /\ le <= ld
    /\ \A i \in 1 .. le : \/ e[i].id = NilId /\ ~e[i].ok
                          \/ i + o \in 1 .. ld /\ e[i] = d[i + o]

LEMMA IdsLost ==
    ASSUME NEW n, NEW f, NEW ld, NEW d, NEW x, NEW j, NEW lu, NEW u, NEW le,
           NEW e, NEW o, Ids(n, ld, d, x, j, lu, u),
           Ordered(f, ld, d, x, j, lu, u), Lost(o, ld, d, le, e), n \in Nat,
           f \in Nat, ld \in Nat, x \in {0, 1}, lu \in Nat
    PROVE  /\ Ids(n, le, e, x, j, lu, u)
           /\ Ordered(f, le, e, x, j, lu, u)
           /\ Ordered(0, le, e, x, j, lu, u)
<1>1. /\ o \in Nat /\ le \in Nat
      /\ \A i \in 1 .. le : \/ e[i].id = NilId
                            \/ i + o \in 1 .. ld /\ e[i] = d[i + o]
  BY Zenon DEF Lost
<1>2. Ids(n, le, e, x, j, lu, u)
  BY <1>1 DEF Ids, NilId
<1>3. After(f, le, e)
  BY <1>1, Zenon DEF Ordered, After
<1>4. Upward(le, e)
  BY <1>1 DEF Ordered, Upward
<1>5. \A i \in 1 .. le : e[i].id # NilId => After(e[i].id, lu, u)
  BY <1>1, Zenon DEF Ordered
<1>6. x = 1 => \A i \in 1 .. le : e[i].id < j.id
  BY <1>1 DEF Ids, Ordered, NilId
<1>7. Ordered(f, le, e, x, j, lu, u)
  BY <1>3, <1>4, <1>5, <1>6, Zenon DEF Ordered
<1>8. Ordered(0, le, e, x, j, lu, u)
  BY <1>1, <1>2, <1>7, IdsForgotten, ZenonT(40)
<1> QED  BY <1>2, <1>7, <1>8, Zenon

---------------------------------------------------------------------------
(* How far they lag behind, step by step.                                    *)

LEMMA TornTyped == \A k, u : Torn(k, u) \in {0, 1}
  BY Zenon DEF Torn

LEMMA LagSent ==
    ASSUME NEW n, NEW s, NEW ld, NEW d, NEW x, NEW j, NEW lu, NEW u, NEW v,
           Ids(n, ld, d, x, j, lu, u), Extended(lu, u, v), n \in Nat,
           s \in Nat, ld \in Nat, x \in {0, 1}, lu \in Nat,
           v[lu + 1].id = n + 1, v[lu + 1].kind = "request"
    PROVE  /\ DownLag(n, s, ld, d) => DownLag(n + 1, s + 1, ld, d)
           /\ JobLag(n, s, ld, x, j) => JobLag(n + 1, s + 1, ld, x, j)
           /\ Load(s, ld, x, lu, u) => Load(s + 1, ld, x, lu + 1, v)
           /\ UpLag(n, s, ld, x, lu, u) /\ Load(s, ld, x, lu, u)
                 => UpLag(n + 1, s + 1, ld, x, lu + 1, v)
<1> USE DEF Extended
<1>1. \A i \in 1 .. lu + 1 : i \in 1 .. lu \/ i = lu + 1
  OBVIOUS
<1>2. \A k \in 1 .. lu : Torn(k, v) = Torn(k, u)
  BY DEF Torn
<1>3. Torn(lu + 1, v) = Torn(lu, u)
  BY <1>1 DEF Torn
<1>4. DownLag(n, s, ld, d) => DownLag(n + 1, s + 1, ld, d)
  BY DEF Ids, DownLag
<1>5. JobLag(n, s, ld, x, j) => JobLag(n + 1, s + 1, ld, x, j)
  BY DEF Ids, JobLag
<1>6. Load(s, ld, x, lu, u) => Load(s + 1, ld, x, lu + 1, v)
  BY <1>3, TornTyped DEF Load
<1>7. ASSUME UpLag(n, s, ld, x, lu, u), Load(s, ld, x, lu, u)
      PROVE  UpLag(n + 1, s + 1, ld, x, lu + 1, v)
  BY <1>1, <1>2, <1>3, <1>7, TornTyped DEF Ids, UpLag, Load
<1> QED  BY <1>4, <1>5, <1>6, <1>7, Zenon

LEMMA LagTaken ==
    ASSUME NEW n, NEW s, NEW ld, NEW d, NEW x, NEW j, NEW lu, NEW u, NEW e,
           Ids(n, ld, d, x, j, lu, u), Advanced(ld, d, e), n \in Nat,
           s \in Nat, ld \in Nat \ {0}, x \in {0, 1}, lu \in Nat
    PROVE  /\ DownLag(n, s + 1, ld, d) => DownLag(n, s, ld - 1, e)
           /\ JobLag(n, s + 1, ld, x, j) => JobLag(n, s, ld - 1, x, j)
           /\ Load(s + 1, ld, x, lu, u) => Load(s, ld - 1, x, lu, u)
           /\ UpLag(n, s + 1, ld, x, lu, u) => UpLag(n, s, ld - 1, x, lu, u)
<1> USE DEF Advanced
<1>1. \A i \in 1 .. ld - 1 : i + 1 \in 1 .. ld
  OBVIOUS
<1>2. DownLag(n, s + 1, ld, d) => DownLag(n, s, ld - 1, e)
  BY <1>1 DEF Ids, DownLag
<1>3. JobLag(n, s + 1, ld, x, j) => JobLag(n, s, ld - 1, x, j)
  BY DEF Ids, JobLag
<1>4. Load(s + 1, ld, x, lu, u) => Load(s, ld - 1, x, lu, u)
  BY TornTyped DEF Load
<1>5. UpLag(n, s + 1, ld, x, lu, u) => UpLag(n, s, ld - 1, x, lu, u)
  BY TornTyped DEF Ids, UpLag
<1> QED  BY <1>2, <1>3, <1>4, <1>5, Zenon

LEMMA LagLost ==
    ASSUME NEW n, NEW s, NEW ld, NEW d, NEW x, NEW j, NEW lu, NEW u, NEW le,
           NEW e, NEW o, Ids(n, ld, d, x, j, lu, u), Lost(o, ld, d, le, e),
           n \in Nat, s \in Nat, ld \in Nat, x \in {0, 1}, lu \in Nat
    PROVE  /\ DownLag(n, s, ld, d) => DownLag(n, s, le, e)
           /\ JobLag(n, s, ld, x, j) => JobLag(n, s, le, x, j)
           /\ Load(s, ld, x, lu, u) => Load(s, le, x, lu, u)
           /\ UpLag(n, s, ld, x, lu, u) => UpLag(n, s, le, x, lu, u)
<1>1. /\ o \in Nat /\ le \in Nat /\ le <= ld
      /\ \A i \in 1 .. le : \/ e[i].id = NilId
                            \/ i + o \in 1 .. ld /\ e[i] = d[i + o]
  BY Zenon DEF Lost
<1>2. DownLag(n, s, ld, d) => DownLag(n, s, le, e)
  <2> SUFFICES ASSUME DownLag(n, s, ld, d), NEW i \in 1 .. le, e[i].id # NilId
               PROVE  n + i <= e[i].id + s
    BY Zenon DEF DownLag
  <2>1. i + o \in 1 .. ld /\ e[i] = d[i + o]
    BY <1>1, Zenon
  <2>2. n + (i + o) <= e[i].id + s /\ e[i].id \in Nat
    BY <2>1, Zenon DEF DownLag, Ids
  <2> QED  BY <1>1, <2>2
<1>3. JobLag(n, s, ld, x, j) => JobLag(n, s, le, x, j)
  BY <1>1 DEF Ids, JobLag
<1>4. Load(s, ld, x, lu, u) => Load(s, le, x, lu, u)
  BY <1>1, TornTyped DEF Load
<1>5. UpLag(n, s, ld, x, lu, u) => UpLag(n, s, le, x, lu, u)
  BY <1>1, TornTyped DEF Ids, UpLag
<1> QED  BY <1>2, <1>3, <1>4, <1>5, Zenon

(* A torn frame is not counted.                                              *)
LEMMA LagTorn ==
    ASSUME NEW n, NEW s, NEW ld, NEW d, NEW x, NEW j, NEW lu, NEW u, NEW v,
           Ids(n, ld, d, x, j, lu, u), n \in Nat, s \in Nat, ld \in Nat,
           x \in {0, 1}, lu \in Nat,
           \A i \in 1 .. lu : v[i] = u[i] /\ u[i].kind # "torn",
           v[lu + 1].id = NilId, v[lu + 1].kind = "torn"
    PROVE  /\ Load(s, ld, x, lu, u) => Load(s, ld, x, lu + 1, v)
           /\ UpLag(n, s, ld, x, lu, u) => UpLag(n, s, ld, x, lu + 1, v)
<1>1. \A i \in 1 .. lu + 1 : i \in 1 .. lu \/ i = lu + 1
  OBVIOUS
<1>2. \A k \in 1 .. lu : Torn(k, v) = Torn(k, u)
  BY DEF Torn
<1>3. Torn(lu + 1, v) = 1 /\ Torn(lu, u) = 0
  BY <1>1 DEF Torn
<1>4. Load(s, ld, x, lu, u) => Load(s, ld, x, lu + 1, v)
  BY <1>3 DEF Load
<1>5. UpLag(n, s, ld, x, lu, u) => UpLag(n, s, ld, x, lu + 1, v)
  BY <1>1, <1>2, Zenon DEF UpLag
<1> QED  BY <1>4, <1>5, Zenon

LEMMA LagRead ==
    ASSUME NEW n, NEW s, NEW ld, NEW d, NEW j, NEW lu, NEW u, NEW v,
           Ids(n, ld, d, 0, j, lu, u), Advanced(lu, u, v),
           UpLag(n, s, ld, 0, lu, u), n \in Nat, s \in Nat, ld \in Nat,
           lu \in Nat \ {0}, u[1].kind = "request"
    PROVE  /\ JobLag(n, s, ld, 1, u[1])
           /\ UpLag(n, s, ld, 1, lu - 1, v)
           /\ Load(s, ld, 0, lu, u) => Load(s, ld, 1, lu - 1, v)
<1> USE DEF Advanced
<1>1. 1 \in 1 .. lu /\ \A i \in 1 .. lu - 1 : i + 1 \in 1 .. lu
  OBVIOUS
<1>2. \A i \in 1 .. lu : /\ u[i].id \in Nat
                         /\ u[i].kind = "request" <=> u[i].id # NilId
  BY Zenon DEF Ids
<1>3. ASSUME NEW k \in 0 .. lu - 1
      PROVE  Torn(k, v) = Torn(k + 1, u)
  <2>1. ASSUME NEW i \in 1 .. k, v[i].kind = "torn"
        PROVE  \E m \in 1 .. k + 1 : u[m].kind = "torn"
    <3>1. i + 1 \in 1 .. k + 1 /\ u[i + 1].kind = "torn"
      BY <2>1
    <3> QED  BY <3>1, Zenon
  <2>2. ASSUME NEW i \in 1 .. k + 1, u[i].kind = "torn"
        PROVE  \E m \in 1 .. k : v[m].kind = "torn"
    <3>1. i # 1
      BY <2>2, Zenon
    <3>2. i - 1 \in 1 .. k /\ v[i - 1] = u[i]
      BY <3>1
    <3> QED  BY <2>2, <3>2, Zenon
  <2> QED  BY <2>1, <2>2, Zenon DEF Torn
<1>4. Torn(1, u) = 0
  BY DEF Torn
<1>5. JobLag(n, s, ld, 1, u[1])
  BY <1>1, <1>2, <1>4 DEF UpLag, JobLag
<1>6. UpLag(n, s, ld, 1, lu - 1, v)
  <2> SUFFICES ASSUME NEW k \in 1 .. lu - 1, v[k].id # NilId
               PROVE  n + ld + 1 + k <= v[k].id + s + Torn(k, v)
    BY Zenon DEF UpLag
  <2>1. k + 1 \in 1 .. lu /\ v[k] = u[k + 1] /\ Torn(k, v) = Torn(k + 1, u)
    BY <1>1, <1>3
  <2>2. n + ld + 0 + (k + 1) <= u[k + 1].id + s + Torn(k + 1, u)
    BY <2>1, Zenon DEF UpLag
  <2> QED  BY <1>2, <2>1, <2>2, TornTyped
<1>7. Load(s, ld, 0, lu, u) => Load(s, ld, 1, lu - 1, v)
  <2>1. lu - 1 \in 0 .. lu - 1 /\ lu - 1 + 1 = lu
    OBVIOUS
  <2>2. Torn(lu - 1, v) = Torn(lu, u)
    BY <1>3, <2>1, Zenon
  <2> QED  BY <2>2, TornTyped DEF Load
<1> QED  BY <1>5, <1>6, <1>7, Zenon

LEMMA LagAnswered ==
    ASSUME NEW n, NEW s, NEW ld, NEW d, NEW j, NEW lu, NEW u, NEW e,
           Ids(n, ld, d, 1, j, lu, u), Extended(ld, d, e),
           JobLag(n, s, ld, 1, j), n \in Nat, s \in Nat, ld \in Nat,
           lu \in Nat, e[ld + 1].id = j.id
    PROVE  /\ DownLag(n, s, ld, d) => DownLag(n, s, ld + 1, e)
           /\ UpLag(n, s, ld, 1, lu, u) => UpLag(n, s, ld + 1, 0, lu, u)
           /\ Load(s, ld, 1, lu, u) => Load(s, ld + 1, 0, lu, u)
<1> USE DEF Extended
<1>1. \A i \in 1 .. ld + 1 : i \in 1 .. ld \/ i = ld + 1
  OBVIOUS
<1>2. DownLag(n, s, ld, d) => DownLag(n, s, ld + 1, e)
  BY <1>1 DEF Ids, DownLag, JobLag
<1>3. UpLag(n, s, ld, 1, lu, u) => UpLag(n, s, ld + 1, 0, lu, u)
  BY TornTyped DEF Ids, UpLag
<1>4. Load(s, ld, 1, lu, u) => Load(s, ld + 1, 0, lu, u)
  BY TornTyped DEF Load
<1> QED  BY <1>2, <1>3, <1>4, Zenon

(* Garbage is read: a torn frame and the frames that make up its bytes.      *)
Misread(u, u2, k, b) ==
    /\ k \in 2 .. Len(u) /\ b \in {0, 1}
    /\ u[1].kind = "torn"
    /\ Len(u2) = Len(u) - k + b
    /\ b = 1 => u2[1].id = NilId /\ u2[1].kind = "torn"
    /\ \A i \in 1 + b .. Len(u2) : u2[i] = u[i + k - b]

(* Frames read past a torn one are answered once, and are at least one.      *)
LEMMA LagMisread ==
    ASSUME NEW n, NEW s, NEW ld, NEW d, NEW j, NEW u, NEW v, NEW k, NEW t,
           Misread(u, v, k, t), Ids(n, ld, d, 0, j, Len(u), u), n \in Nat,
           s \in Nat, ld \in Nat, Len(u) \in Nat
    PROVE  /\ UpLag(n, s, ld, 0, Len(u), u) => UpLag(n, s, ld + 1, 0, Len(v), v)
           /\ Load(s, ld, 0, Len(u), u) => Load(s, ld + 1, 0, Len(v), v)
<1> DEFINE lu == Len(u)
           lv == Len(v)
<1>0. /\ lu \in Nat /\ k \in 2 .. lu /\ t \in {0, 1} /\ u[1].kind = "torn"
      /\ lv = lu - k + t /\ Ids(n, ld, d, 0, j, lu, u)
  BY Zenon DEF Misread
<1>5. lv \in Nat /\ \A i \in 1 + t .. lv : v[i] = u[i + k - t]
  BY <1>0 DEF Misread
<1>6. t = 1 => v[1].id = NilId /\ v[1].kind = "torn"
  BY Zenon DEF Misread
<1> HIDE DEF lu, lv
<1>1. \A i \in 1 .. lu : Torn(i, u) = 1
  BY <1>0 DEF Torn
<1>2. \A i \in 1 .. lv : t = 1 => Torn(i, v) = 1
  BY <1>5, <1>6 DEF Torn
<1>3. ASSUME UpLag(n, s, ld, 0, lu, u)
      PROVE  UpLag(n, s, ld + 1, 0, lv, v)
  <2> SUFFICES ASSUME NEW i \in 1 .. lv, v[i].id # NilId
               PROVE  n + (ld + 1) + 0 + i <= v[i].id + s + Torn(i, v)
    BY Zenon DEF UpLag
  <2>1. i \in 1 + t .. lv
    BY <1>0, <1>5, <1>6
  <2>2. i + k - t \in 1 .. lu /\ v[i] = u[i + k - t]
    BY <1>0, <1>5, <2>1
  <2>3. n + ld + 0 + (i + k - t) <= u[i + k - t].id + s + 1
    BY <1>1, <1>3, <2>2, Zenon DEF UpLag
  <2>4. v[i].id \in Nat
    BY <1>0, <2>2, Zenon DEF Ids
  <2>5. Torn(i, v) >= t
    BY <1>0, <1>2, TornTyped
  <2>6. Torn(i, v) \in {0, 1}
    BY TornTyped, Zenon
  <2>7. n + ld + 0 + (i + k - t) <= v[i].id + s + 1
    BY <2>2, <2>3, Zenon
  <2>8. k \in Nat /\ k >= 2 /\ t \in Nat /\ i \in Nat
    BY <1>0, <1>5
  <2> QED  BY <2>4, <2>5, <2>6, <2>7, <2>8, SMTT(40)
<1>4. Load(s, ld, 0, lu, u) => Load(s, ld + 1, 0, lv, v)
  <2>1. Torn(lu, u) = 1
    BY <1>0, <1>1
  <2>2. Torn(lv, v) \in {0, 1} /\ (t = 1 => Torn(lv, v) = 1)
    <3>1. t = 1 => lv \in 1 .. lv
      BY <1>0, <1>5
    <3> QED  BY <1>2, <3>1, TornTyped, Zenon
  <2> QED  BY <1>0, <1>5, <2>1, <2>2 DEF Load
<1> QED  BY <1>3, <1>4, Zenon DEF lu, lv

---------------------------------------------------------------------------
(* What the steps do to the pairing, one lemma for each thing that can       *)
(* happen to a connection.                                                   *)

Numbers(cl, u, d, out, ops, a) ==
    /\ cl.sent \in Nat /\ out.from \in Nat /\ out.id \in Nat /\ a \in Nat
    /\ Len(u) \in Nat /\ Len(d) \in Nat
    /\ \A o \in ops : o.id \in Nat

(* A request r is written.                                                   *)
Sent(cl, u, out, cl2, u2, out2, r) ==
    /\ cl.pc = "open" /\ cl2.pc = "waiting"
    /\ cl2.ask = r /\ cl2.sent = cl.sent + 1
    /\ r.id = cl.sent + 1 /\ r.kind = "request"
    /\ Len(u2) = Len(u) + 1 /\ Extended(Len(u), u, u2) /\ u2[Len(u) + 1] = r
    /\ out2.from = out.from /\ out2.as = "none" /\ out2.id = NilId

LEMMA PairSent ==
    ASSUME NEW cl, NEW u, NEW d, NEW pc, NEW j, NEW out, NEW ops, NEW a, NEW t,
           NEW cl2, NEW u2, NEW out2, NEW r,
           Numbers(cl, u, d, out, ops, a),
           PairOf(cl, u, d, pc, j, out, ops, a, t),
           Sent(cl, u, out, cl2, u2, out2, r)
    PROVE  PairOf(cl2, u2, d, pc, j, out2, ops, a, t)
<1>1. /\ cl.sent \in Nat /\ out.from \in Nat /\ a \in Nat
      /\ Len(u) \in Nat /\ Len(d) \in Nat
  BY Zenon DEF Numbers
<1>2. Serves(pc) \in {0, 1}
  BY Zenon DEF Serves
<1>3. PhaseOf(cl, u, d, pc, a, t) /\ IdOf(cl, u, d, pc, j, out, ops)
      /\ LagOf(cl, u, d, pc, j, a) /\ DoneOf(cl, u, d, pc, j, ops, a)
  BY Zenon DEF PairOf
<1>4. Ids(cl.sent, Len(d), d, Serves(pc), j, Len(u), u)
  BY <1>3, ZenonT(40) DEF IdOf
<1>a. /\ Ordered(out.from, Len(d), d, Serves(pc), j, Len(u), u)
      /\ out.from <= cl.sent
  BY <1>3, Zenon DEF IdOf
<1>5. \A o \in ops : o.id \in Nat /\ o.id <= cl.sent
  BY <1>3, Zenon DEF IdOf, Numbers
<1>6. Extended(Len(u), u, u2)
  BY Zenon DEF Sent
<1>7. u2[Len(u) + 1].id = cl.sent + 1 /\ u2[Len(u) + 1].kind = "request"
  BY Zenon DEF Sent
<1>8. Len(u2) = Len(u) + 1 /\ \A i \in 1 .. Len(u2) : i \in 1 .. Len(u) \/ i = Len(u2)
  BY <1>1 DEF Sent
<1>9. PhaseOf(cl2, u2, d, pc, a, t)
  <2>1. TornOnce(t, Len(u), u)
    BY <1>3, Zenon DEF PhaseOf
  <2>2. TornOnce(t, Len(u2), u2)
    BY <1>6, <1>7, <1>8, <2>1, Zenon DEF TornOnce, Extended
  <2> QED  BY <1>3, <2>2, Zenon DEF PhaseOf, Sent
<1>10. IdOf(cl2, u2, d, pc, j, out2, ops)
  <2>1. /\ Ids(cl.sent + 1, Len(d), d, Serves(pc), j, Len(u) + 1, u2)
        /\ Ordered(out.from, Len(d), d, Serves(pc), j, Len(u) + 1, u2)
    BY <1>1, <1>2, <1>4, <1>a, <1>6, <1>7, IdsSent, ZenonT(40)
  <2>2. cl.sent + 1 # NilId /\ out.from <= cl.sent + 1
        /\ \A o \in ops : o.id <= cl.sent + 1
    BY <1>1, <1>a, <1>5, SMTT(40) DEF NilId
  <2> QED  BY <2>1, <2>2, Zenon DEF IdOf, Sent
<1>11. LagOf(cl2, u2, d, pc, j, a)
  <2>1. DownLag(cl.sent, a, Len(d), d) => DownLag(cl.sent + 1, a + 1, Len(d), d)
    BY <1>1, <1>2, <1>4, <1>6, <1>7, LagSent, ZenonT(40)
  <2>3. JobLag(cl.sent, a, Len(d), Serves(pc), j)
              => JobLag(cl.sent + 1, a + 1, Len(d), Serves(pc), j)
    BY <1>1, <1>2, <1>4, <1>6, <1>7, LagSent, ZenonT(40)
  <2>4. Load(a, Len(d), Serves(pc), Len(u), u)
              => Load(a + 1, Len(d), Serves(pc), Len(u) + 1, u2)
    BY <1>1, <1>2, <1>4, <1>6, <1>7, LagSent, ZenonT(40)
  <2>5. UpLag(cl.sent, a, Len(d), Serves(pc), Len(u), u)
              /\ Load(a, Len(d), Serves(pc), Len(u), u)
              => UpLag(cl.sent + 1, a + 1, Len(d), Serves(pc), Len(u) + 1, u2)
    BY <1>1, <1>2, <1>4, <1>6, <1>7, LagSent, ZenonT(40)
  <2>2. a + Waits(cl) = a /\ a + Waits(cl2) = a + 1
    BY <1>1 DEF Waits, Sent
  <2> QED  BY <1>3, <2>1, <2>2, <2>3, <2>4, <2>5, ZenonT(40) DEF LagOf, Sent
<1>12. DoneOf(cl2, u2, d, pc, j, ops, a)
  <2>1. \A k \in 1 .. Len(u2) : u2[k].id = cl.sent + 1 => u2[k] = r
    <3>1. \A k \in 1 .. Len(u) : u2[k] = u[k] /\ u[k].id # cl.sent + 1
      BY <1>1, <1>4, <1>6, SMTT(40) DEF Ids, Extended
    <3> QED  BY <1>8, <3>1, Zenon DEF Sent
  <2>2. Serves(pc) = 1 => j.id # cl.sent + 1
    BY <1>1, <1>4 DEF Ids
  <2>3. \A o \in ops : o.id # cl.sent + 1
    BY <1>1, <1>5
  <2>4. Asked(cl.sent + 1, r.method, Serves(pc), j, Len(u2), u2, ops)
    BY <2>1, <2>2, <2>3, Zenon DEF Asked
  <2> QED  BY <1>3, <2>4, Zenon DEF DoneOf, Sent
<1>13. ReturnedOf(out2, ops, a)
  BY Zenon DEF ReturnedOf, Sent
<1> QED  BY <1>9, <1>10, <1>11, <1>12, <1>13, Zenon DEF PairOf

(* A response is taken.                                                      *)
Took(cl, d, out, cl2, d2, out2) ==
    /\ cl.pc = "waiting" /\ cl2.pc = "open" /\ cl2.sent = cl.sent
    /\ Len(d) # 0 /\ Len(d2) = Len(d) - 1 /\ Advanced(Len(d), d, d2)
    /\ out2.from = d[1].id
    /\ out2.id = cl.ask.id /\ out2.method = cl.ask.method
    /\ out2.as = "ok" => d[1].ok

LEMMA PairTaken ==
    ASSUME NEW cl, NEW u, NEW d, NEW pc, NEW j, NEW out, NEW ops, NEW a, NEW t,
           NEW cl2, NEW d2, NEW out2,
           Numbers(cl, u, d, out, ops, a),
           PairOf(cl, u, d, pc, j, out, ops, a, t),
           Took(cl, d, out, cl2, d2, out2)
    PROVE  PairOf(cl2, u, d2, pc, j, out2, ops, a, t)
<1>1. /\ cl.sent \in Nat /\ out.from \in Nat /\ a \in Nat
      /\ Len(u) \in Nat /\ Len(d) \in Nat \ {0}
  BY Zenon DEF Numbers, Took
<1>2. Serves(pc) \in {0, 1}
  BY Zenon DEF Serves
<1>3. PhaseOf(cl, u, d, pc, a, t) /\ IdOf(cl, u, d, pc, j, out, ops)
      /\ LagOf(cl, u, d, pc, j, a) /\ DoneOf(cl, u, d, pc, j, ops, a)
  BY Zenon DEF PairOf
<1>4. Ids(cl.sent, Len(d), d, Serves(pc), j, Len(u), u)
  BY <1>3, Zenon DEF IdOf
<1>5. Ordered(out.from, Len(d), d, Serves(pc), j, Len(u), u)
  BY <1>3, Zenon DEF IdOf
<1>6. Advanced(Len(d), d, d2)
  BY Zenon DEF Took
<1>7. Len(d2) = Len(d) - 1
  BY Zenon DEF Took
<1>8. /\ 1 \in 1 .. Len(d)
      /\ \A i \in 1 .. Len(d2) : i + 1 \in 1 .. Len(d) /\ d2[i] = d[i + 1]
  BY <1>1, <1>6, <1>7 DEF Advanced
<1>9. d[1].id \in Nat /\ d[1].id <= cl.sent
  BY <1>4, <1>8, Zenon DEF Ids
<1>10. PhaseOf(cl2, u, d2, pc, a, t)
  <2>1. Replies(Len(d2), d2)
    BY <1>3, <1>8, SMTT(40) DEF PhaseOf, Replies, Took
  <2> QED  BY <1>3, <2>1, ZenonT(40) DEF PhaseOf, Took
<1>11. IdOf(cl2, u, d2, pc, j, out2, ops)
  <2>1. /\ Ids(cl.sent, Len(d) - 1, d2, Serves(pc), j, Len(u), u)
        /\ Ordered(d[1].id, Len(d) - 1, d2, Serves(pc), j, Len(u), u)
    BY <1>1, <1>2, <1>4, <1>5, <1>6, IdsTaken, ZenonT(40)
  <2> QED  BY <1>3, <1>7, <1>9, <2>1, Zenon DEF IdOf, Took
<1>12. LagOf(cl2, u, d2, pc, j, a)
  <2>1. DownLag(cl.sent, a + 1, Len(d), d) => DownLag(cl.sent, a, Len(d) - 1, d2)
    BY <1>1, <1>2, <1>4, <1>6, LagTaken, ZenonT(40)
  <2>2. JobLag(cl.sent, a + 1, Len(d), Serves(pc), j)
           => JobLag(cl.sent, a, Len(d) - 1, Serves(pc), j)
    BY <1>1, <1>2, <1>4, <1>6, LagTaken, ZenonT(40)
  <2>3. Load(a + 1, Len(d), Serves(pc), Len(u), u)
           => Load(a, Len(d) - 1, Serves(pc), Len(u), u)
    BY <1>1, <1>2, <1>4, <1>6, LagTaken, ZenonT(40)
  <2>4. UpLag(cl.sent, a + 1, Len(d), Serves(pc), Len(u), u)
           => UpLag(cl.sent, a, Len(d) - 1, Serves(pc), Len(u), u)
    BY <1>1, <1>2, <1>4, <1>6, LagTaken, ZenonT(40)
  <2>5. a + Waits(cl) = a + 1 /\ a + Waits(cl2) = a
    BY <1>1 DEF Waits, Took
  <2> QED  BY <1>3, <1>7, <2>1, <2>2, <2>3, <2>4, <2>5, Zenon DEF LagOf, Took
<1>13. DoneOf(cl2, u, d2, pc, j, ops, a)
  <2>1. OkDone(Len(d), d, ops) => OkDone(Len(d2), d2, ops)
    BY <1>8, ZenonT(40) DEF OkDone
  <2> QED  BY <1>3, <2>1, Zenon DEF DoneOf, Took
<1>14. ReturnedOf(out2, ops, a)
  <2>1. d[1].id # NilId => cl.sent + 1 <= d[1].id + (a + 1)
    <3>1. a + Waits(cl) = a + 1
      BY <1>1, Zenon DEF Waits, Took
    <3> QED  BY <1>3, <1>8, <3>1, Zenon DEF LagOf, DownLag
  <2>2. d[1].id # NilId => d[1].id <= cl.sent /\ cl.sent <= d[1].id + a
    BY <1>1, <1>9, <2>1
  <2>3. out2.id = cl.sent /\ out2.method = cl.ask.method /\ out2.from = d[1].id
    BY <1>3, Zenon DEF IdOf, Took
  <2>4. ASSUME a = 0, out2.as = "ok"
        PROVE  \E o \in ops : o.id = out2.id /\ o.method = out2.method
    <3>1. d[1].ok /\ d[1].id # NilId
      BY <1>3, <1>8, <2>4, Zenon DEF Took, PhaseOf, Replies
    <3>2. d[1].id = cl.sent
      BY <1>1, <1>9, <2>2, <2>4, <3>1, SMTT(40)
    <3>3. PICK o \in ops : o.id = cl.sent
      BY <1>3, <1>8, <2>4, <3>1, <3>2, Zenon DEF DoneOf, OkDone
    <3>4. o.method = cl.ask.method
      BY <1>3, <3>3, Zenon DEF DoneOf, Asked, Took
    <3> QED  BY <2>3, <3>3, <3>4, Zenon
  <2> QED  BY <2>2, <2>3, <2>4, Zenon DEF ReturnedOf
<1> QED  BY <1>10, <1>11, <1>12, <1>13, <1>14, Zenon DEF PairOf

(* A call fails before the first byte is written.                            *)
LEMMA PairRefused ==
    ASSUME NEW cl, NEW u, NEW d, NEW pc, NEW j, NEW out, NEW ops, NEW a, NEW t,
           NEW out2,
           Numbers(cl, u, d, out, ops, a),
           PairOf(cl, u, d, pc, j, out, ops, a, t),
           cl.pc = "open", out2.from = NilId, out2.as # "ok"
    PROVE  PairOf(cl, u, d, pc, j, out2, ops, a, t)
<1>1. /\ cl.sent \in Nat /\ out.from \in Nat /\ a \in Nat
      /\ Len(u) \in Nat /\ Len(d) \in Nat
  BY Zenon DEF Numbers
<1>2. Serves(pc) \in {0, 1}
  BY Zenon DEF Serves
<1>3. PhaseOf(cl, u, d, pc, a, t) /\ IdOf(cl, u, d, pc, j, out, ops)
      /\ LagOf(cl, u, d, pc, j, a) /\ DoneOf(cl, u, d, pc, j, ops, a)
      /\ ReturnedOf(out, ops, a)
  BY ZenonT(40) DEF PairOf
<1>4. Ids(cl.sent, Len(d), d, Serves(pc), j, Len(u), u)
  BY <1>3, Zenon DEF IdOf
<1>5. Ordered(out.from, Len(d), d, Serves(pc), j, Len(u), u)
  BY <1>3, Zenon DEF IdOf
<1>6. Ordered(0, Len(d), d, Serves(pc), j, Len(u), u)
  BY <1>1, <1>2, <1>4, <1>5, IdsForgotten, ZenonT(40)
<1>7. IdOf(cl, u, d, pc, j, out2, ops)
  BY <1>1, <1>3, <1>6, SMTT(40) DEF IdOf, NilId
<1>8. ReturnedOf(out2, ops, a)
  BY Zenon DEF ReturnedOf
<1> QED  BY <1>3, <1>7, <1>8, Zenon DEF PairOf

(* The stream fails under a call, or under the handshake.                    *)
Broke(cl, d, pc, out, cl2, d2, out2) ==
    /\ pc = "closed" /\ Len(d2) = 0 /\ cl2.sent = cl.sent
    /\ \/ /\ cl.pc = "waiting" /\ cl2.pc = "open"
          /\ out2.from = NilId /\ out2.as = "transport"
       \/ cl.pc = "hello" /\ cl2.pc = "gone" /\ out2 = out

LEMMA PairBroken ==
    ASSUME NEW cl, NEW u, NEW d, NEW pc, NEW j, NEW out, NEW ops, NEW a, NEW t,
           NEW cl2, NEW d2, NEW out2,
           Numbers(cl, u, d, out, ops, a),
           PairOf(cl, u, d, pc, j, out, ops, a, t),
           Broke(cl, d, pc, out, cl2, d2, out2)
    PROVE  PairOf(cl2, u, d2, pc, j, out2, ops, a, t)
<1>1. /\ cl.sent \in Nat /\ out.from \in Nat /\ a \in Nat
      /\ Len(u) \in Nat /\ Len(d) \in Nat
  BY Zenon DEF Numbers
<1>2. Serves(pc) \in {0, 1}
  BY Zenon DEF Serves
<1>3. PhaseOf(cl, u, d, pc, a, t) /\ IdOf(cl, u, d, pc, j, out, ops)
      /\ LagOf(cl, u, d, pc, j, a) /\ DoneOf(cl, u, d, pc, j, ops, a)
      /\ ReturnedOf(out, ops, a)
  BY Zenon DEF PairOf
<1>4. Ids(cl.sent, Len(d), d, Serves(pc), j, Len(u), u)
  BY <1>3, ZenonT(40) DEF IdOf
<1>5. Ordered(out.from, Len(d), d, Serves(pc), j, Len(u), u)
  BY <1>3, Zenon DEF IdOf
<1>6. pc = "closed" /\ Len(d2) = 0 /\ cl2.sent = cl.sent /\ Serves(pc) = 0
      /\ cl2.pc \in {"open", "gone"}
  BY Zenon DEF Broke, Serves
<1>7. PhaseOf(cl2, u, d2, pc, a, t)
  <2>1. Replies(Len(d2), d2)
    BY <1>6, SMTT(40) DEF Replies
  <2>2. TornOnce(t, Len(u), u)
    BY <1>3, Zenon DEF PhaseOf
  <2> QED  BY <1>6, <2>1, <2>2, ZenonT(40) DEF PhaseOf
<1>8. IdOf(cl2, u, d2, pc, j, out2, ops)
  <2>1. /\ Ids(cl.sent, 0, d2, Serves(pc), j, Len(u), u)
        /\ Ordered(out.from, 0, d2, Serves(pc), j, Len(u), u)
        /\ Ordered(0, 0, d2, Serves(pc), j, Len(u), u)
    BY <1>1, <1>2, <1>4, <1>5, IdsForgotten, ZenonT(40)
  <2>2. out2.from = out.from \/ out2.from = 0
    BY Zenon DEF Broke, NilId
  <2>3. /\ Ids(cl2.sent, Len(d2), d2, Serves(pc), j, Len(u), u)
        /\ Ordered(out2.from, Len(d2), d2, Serves(pc), j, Len(u), u)
    BY <1>6, <2>1, <2>2, ZenonT(40)
  <2> QED  BY <1>1, <1>3, <1>6, <2>2, <2>3, SMTT(40) DEF IdOf
<1>9. LagOf(cl2, u, d2, pc, j, a)
  BY <1>6, SMTT(40) DEF LagOf, DownLag, JobLag
<1>10. DoneOf(cl2, u, d2, pc, j, ops, a)
  BY <1>6 DEF DoneOf, OkDone
<1>11. ReturnedOf(out2, ops, a)
  BY <1>3, Zenon DEF ReturnedOf, Broke
<1> QED  BY <1>7, <1>8, <1>9, <1>10, <1>11, Zenon DEF PairOf

(* A call ends without a response, because its caller went away or because   *)
(* it read misaligned bytes; some responses may have gone with it.           *)
LEMMA PairUnanswered ==
    ASSUME NEW cl, NEW u, NEW d, NEW pc, NEW j, NEW out, NEW ops, NEW a, NEW t,
           NEW cl2, NEW d2, NEW out2, NEW o,
           Numbers(cl, u, d, out, ops, a),
           PairOf(cl, u, d, pc, j, out, ops, a, t),
           cl.pc = "waiting", cl2.pc = "open", cl2.sent = cl.sent,
           Lost(o, Len(d), d, Len(d2), d2),
           out2 = out \/ (out2.from = NilId /\ out2.as # "ok")
    PROVE  PairOf(cl2, u, d2, pc, j, out2, ops, a + 1, t)
<1>1. /\ cl.sent \in Nat /\ out.from \in Nat /\ a \in Nat
      /\ Len(u) \in Nat /\ Len(d) \in Nat
  BY Zenon DEF Numbers
<1>2. Serves(pc) \in {0, 1}
  BY ZenonT(40) DEF Serves
<1>3. PhaseOf(cl, u, d, pc, a, t) /\ IdOf(cl, u, d, pc, j, out, ops)
      /\ LagOf(cl, u, d, pc, j, a) /\ DoneOf(cl, u, d, pc, j, ops, a)
      /\ ReturnedOf(out, ops, a)
  BY Zenon DEF PairOf
<1>4. Ids(cl.sent, Len(d), d, Serves(pc), j, Len(u), u)
  BY <1>3, Zenon DEF IdOf
<1>5. Ordered(out.from, Len(d), d, Serves(pc), j, Len(u), u)
  BY <1>3, Zenon DEF IdOf
<1>6. PhaseOf(cl2, u, d2, pc, a + 1, t)
  <2>1. Replies(Len(d2), d2)
    <3>1. Replies(Len(d), d)
      BY <1>3, Zenon DEF PhaseOf
    <3> QED  BY <3>1, Zenon DEF Replies, Lost
  <2>2. pc \notin {"none", "backlog", "hello"} /\ TornOnce(t, Len(u), u)
    BY <1>3, Zenon DEF PhaseOf
  <2> QED  BY <2>1, <2>2, Zenon DEF PhaseOf
<1>7. IdOf(cl2, u, d2, pc, j, out2, ops)
  <2>1. /\ Ids(cl.sent, Len(d2), d2, Serves(pc), j, Len(u), u)
        /\ Ordered(out.from, Len(d2), d2, Serves(pc), j, Len(u), u)
        /\ Ordered(0, Len(d2), d2, Serves(pc), j, Len(u), u)
    BY <1>1, <1>2, <1>4, <1>5, IdsLost, ZenonT(40)
  <2>2. CASE out2 = out
    BY <1>3, <2>1, <2>2, Zenon DEF IdOf
  <2>3. CASE out2.from = NilId
    <3>1. out2.from = 0 /\ 0 <= cl.sent
      BY <1>1, <2>3 DEF NilId
    <3> QED  BY <1>3, <2>1, <3>1, Zenon DEF IdOf
  <2> QED  BY <2>2, <2>3, Zenon
<1>8. LagOf(cl2, u, d2, pc, j, a + 1)
  <2>1. a + 1 + Waits(cl2) = a + Waits(cl) /\ a + Waits(cl) \in Nat
    BY <1>1, SMTT(40) DEF Waits
  <2> DEFINE s == a + Waits(cl)
             x == Serves(pc)
  <2>2. /\ DownLag(cl.sent, s, Len(d), d) => DownLag(cl.sent, s, Len(d2), d2)
        /\ JobLag(cl.sent, s, Len(d), x, j) => JobLag(cl.sent, s, Len(d2), x, j)
        /\ Load(s, Len(d), x, Len(u), u) => Load(s, Len(d2), x, Len(u), u)
        /\ UpLag(cl.sent, s, Len(d), x, Len(u), u)
              => UpLag(cl.sent, s, Len(d2), x, Len(u), u)
    <3>1. s \in Nat
      BY <2>1
    <3> HIDE DEF s
    <3> QED  BY <1>1, <1>2, <1>4, <3>1, LagLost, ZenonT(40)
  <2> QED  BY <1>3, <2>1, <2>2, Zenon DEF LagOf
<1>9. DoneOf(cl2, u, d2, pc, j, ops, a + 1)
  BY <1>1, <1>3, SMTT(40) DEF DoneOf
<1>10. ReturnedOf(out2, ops, a + 1)
  <2>1. out.id \in Nat /\ a + 1 # 0
    BY <1>1 DEF Numbers
  <2>2. CASE out2 = out
    BY <1>1, <1>3, <2>1, <2>2 DEF ReturnedOf
  <2>3. CASE out2.from = NilId /\ out2.as # "ok"
    BY <2>3, Zenon DEF ReturnedOf
  <2> QED  BY <2>2, <2>3, Zenon
<1> QED  BY <1>6, <1>7, <1>8, <1>9, <1>10, Zenon DEF PairOf

(* A write is torn.                                                          *)
Tore(cl, u, u2, t, t2) ==
    /\ cl.pc = "open" /\ ~t /\ t2
    /\ Len(u2) = Len(u) + 1 /\ Extended(Len(u), u, u2)
    /\ u2[Len(u) + 1].id = NilId /\ u2[Len(u) + 1].kind = "torn"

LEMMA PairTorn ==
    ASSUME NEW cl, NEW u, NEW d, NEW pc, NEW j, NEW out, NEW ops, NEW a, NEW t,
           NEW u2, NEW t2,
           Numbers(cl, u, d, out, ops, a),
           PairOf(cl, u, d, pc, j, out, ops, a, t),
           Tore(cl, u, u2, t, t2)
    PROVE  PairOf(cl, u2, d, pc, j, out, ops, a, t2)
<1>1. /\ cl.sent \in Nat /\ out.from \in Nat /\ a \in Nat
      /\ Len(u) \in Nat /\ Len(d) \in Nat
  BY Zenon DEF Numbers
<1>2. Serves(pc) \in {0, 1}
  BY Zenon DEF Serves
<1>3. PhaseOf(cl, u, d, pc, a, t) /\ IdOf(cl, u, d, pc, j, out, ops)
      /\ LagOf(cl, u, d, pc, j, a) /\ DoneOf(cl, u, d, pc, j, ops, a)
      /\ ReturnedOf(out, ops, a)
  BY Zenon DEF PairOf
<1>4. Ids(cl.sent, Len(d), d, Serves(pc), j, Len(u), u)
  BY <1>3, Zenon DEF IdOf
<1>5. Ordered(out.from, Len(d), d, Serves(pc), j, Len(u), u)
  BY <1>3, Zenon DEF IdOf
<1>6. Extended(Len(u), u, u2)
  BY Zenon DEF Tore
<1>7. u2[Len(u) + 1].id = NilId /\ u2[Len(u) + 1].kind = "torn"
  BY ZenonT(40) DEF Tore
<1>8. Len(u2) = Len(u) + 1 /\ cl.pc = "open" /\ t2 /\ ~t
  BY Zenon DEF Tore
<1>9. \A i \in 1 .. Len(u2) : i \in 1 .. Len(u) \/ i = Len(u2)
  BY <1>1, <1>8, SMTT(40)
<1>10. \A i \in 1 .. Len(u) : u[i].kind # "torn"
  BY <1>3, <1>8, Zenon DEF PhaseOf, TornOnce
<1>11. PhaseOf(cl, u2, d, pc, a, t2)
  <2>1. TornOnce(t2, Len(u2), u2)
    BY <1>6, <1>7, <1>8, <1>9, <1>10, Zenon DEF TornOnce, Extended
  <2> QED  BY <1>3, <1>8, <2>1, Zenon DEF PhaseOf
<1>12. IdOf(cl, u2, d, pc, j, out, ops)
  <2>1. Cut(0, Len(u), u, Len(u2), u2)
    BY <1>1, <1>6, <1>7, <1>8, <1>9 DEF Extended, Cut
  <2>2. Len(u2) \in Nat /\ 0 \in Int
    BY <1>1, <1>8
  <2>3. /\ Ids(cl.sent, Len(d), d, Serves(pc), j, Len(u2), u2)
        /\ Ordered(out.from, Len(d), d, Serves(pc), j, Len(u2), u2)
    BY <1>1, <1>2, <1>4, <1>5, <2>1, <2>2, IdsCut, ZenonT(40)
  <2> QED  BY <1>3, <2>3, ZenonT(40) DEF IdOf
<1>13. LagOf(cl, u2, d, pc, j, a)
  <2>1. \A i \in 1 .. Len(u) : u2[i] = u[i] /\ u[i].kind # "torn"
    BY <1>6, <1>10, Zenon DEF Extended
  <2>2. a + Waits(cl) \in Nat
    BY <1>1 DEF Waits
  <2>3. UpLag(cl.sent, a + Waits(cl), Len(d), Serves(pc), Len(u), u)
           => UpLag(cl.sent, a + Waits(cl), Len(d), Serves(pc), Len(u) + 1, u2)
    BY <1>1, <1>2, <1>4, <1>7, <2>1, <2>2, LagTorn, ZenonT(40)
  <2>4. Load(a + Waits(cl), Len(d), Serves(pc), Len(u), u)
           => Load(a + Waits(cl), Len(d), Serves(pc), Len(u) + 1, u2)
    BY <1>1, <1>2, <1>4, <1>7, <2>1, <2>2, LagTorn, ZenonT(40)
  <2> QED  BY <1>3, <1>8, <2>3, <2>4, Zenon DEF LagOf
<1>14. DoneOf(cl, u2, d, pc, j, ops, a)
  BY <1>3, <1>8, Zenon DEF DoneOf
<1> QED  BY <1>3, <1>11, <1>12, <1>13, <1>14, Zenon DEF PairOf

(* The client is dropped.                                                    *)
LEMMA PairDropped ==
    ASSUME NEW cl, NEW u, NEW d, NEW pc, NEW j, NEW out, NEW ops, NEW a, NEW t,
           NEW cl2,
           Numbers(cl, u, d, out, ops, a),
           PairOf(cl, u, d, pc, j, out, ops, a, t),
           cl.pc \in {"hello", "open"}, cl2.pc = "gone", cl2.sent = cl.sent
    PROVE  PairOf(cl2, u, d, pc, j, out, ops, a, t)
<1>1. /\ cl.sent \in Nat /\ out.from \in Nat /\ a \in Nat
      /\ Len(u) \in Nat /\ Len(d) \in Nat
  BY ZenonT(40) DEF Numbers
<1>2. Serves(pc) \in {0, 1}
  BY Zenon DEF Serves
<1>3. PhaseOf(cl, u, d, pc, a, t) /\ IdOf(cl, u, d, pc, j, out, ops)
      /\ LagOf(cl, u, d, pc, j, a) /\ DoneOf(cl, u, d, pc, j, ops, a)
      /\ ReturnedOf(out, ops, a)
  BY Zenon DEF PairOf
<1>4. Ids(cl.sent, Len(d), d, Serves(pc), j, Len(u), u)
  BY <1>3, ZenonT(40) DEF IdOf
<1>5. Ordered(out.from, Len(d), d, Serves(pc), j, Len(u), u)
  BY <1>3, Zenon DEF IdOf
<1>6. PhaseOf(cl2, u, d, pc, a, t)
  BY <1>3, Zenon DEF PhaseOf
<1>7. IdOf(cl2, u, d, pc, j, out, ops)
  BY <1>3, Zenon DEF IdOf
<1>8. LagOf(cl2, u, d, pc, j, a)
  <2>1. Waits(cl2) = Waits(cl)
    BY Zenon DEF Waits
  <2> QED  BY <1>3, <2>1, Zenon DEF LagOf
<1>9. DoneOf(cl2, u, d, pc, j, ops, a)
  BY <1>3, Zenon DEF DoneOf
<1> QED  BY <1>3, <1>6, <1>7, <1>8, <1>9, Zenon DEF PairOf

(* The client hears the server's hello.                                      *)
Greeted(cl, d, cl2, d2) ==
    /\ cl.pc = "hello" /\ cl2.pc \in {"open", "gone"} /\ cl2.sent = cl.sent
    /\ Len(d) # 0 /\ Len(d2) = Len(d) - 1

LEMMA PairGreeted ==
    ASSUME NEW cl, NEW u, NEW d, NEW pc, NEW j, NEW out, NEW ops, NEW a, NEW t,
           NEW cl2, NEW d2,
           Numbers(cl, u, d, out, ops, a),
           PairOf(cl, u, d, pc, j, out, ops, a, t),
           Greeted(cl, d, cl2, d2)
    PROVE  PairOf(cl2, u, d2, pc, j, out, ops, a, t)
<1>1. /\ cl.sent \in Nat /\ out.from \in Nat /\ a \in Nat
      /\ Len(u) \in Nat /\ Len(d) \in Nat
  BY Zenon DEF Numbers
<1>2. Serves(pc) \in {0, 1}
  BY Zenon DEF Serves
<1>3. PhaseOf(cl, u, d, pc, a, t) /\ IdOf(cl, u, d, pc, j, out, ops)
      /\ LagOf(cl, u, d, pc, j, a) /\ DoneOf(cl, u, d, pc, j, ops, a)
      /\ ReturnedOf(out, ops, a)
  BY Zenon DEF PairOf
<1>4. Ids(cl.sent, Len(d), d, Serves(pc), j, Len(u), u)
  BY <1>3, Zenon DEF IdOf
<1>5. Ordered(out.from, Len(d), d, Serves(pc), j, Len(u), u)
  BY <1>3, Zenon DEF IdOf
<1>6. cl.pc = "hello" /\ cl2.pc \in {"open", "gone"} /\ cl2.sent = cl.sent
  BY Zenon DEF Greeted
<1>7. Len(d2) = 0 /\ Len(u) = 0 /\ pc \in {"auth", "serving", "closed"}
  BY <1>1, <1>3, <1>6, SMTT(40) DEF PhaseOf, Greeted
<1>8. PhaseOf(cl2, u, d2, pc, a, t)
  <2>1. Replies(Len(d2), d2) /\ TornOnce(t, Len(u), u)
    BY <1>7 DEF Replies, TornOnce
  <2> QED  BY <1>6, <1>7, <2>1, Zenon DEF PhaseOf
<1>9. IdOf(cl2, u, d2, pc, j, out, ops)
  <2>1. /\ Ids(cl.sent, 0, d2, Serves(pc), j, Len(u), u)
        /\ Ordered(out.from, 0, d2, Serves(pc), j, Len(u), u)
    BY <1>1, <1>2, <1>4, <1>5, IdsForgotten, ZenonT(40)
  <2> QED  BY <1>3, <1>6, <1>7, <2>1, Zenon DEF IdOf
<1>10. LagOf(cl2, u, d2, pc, j, a)
  <2>1. a = 0 /\ Waits(cl2) = 0 /\ Serves(pc) = 0 /\ Torn(0, u) = 0
    BY <1>3, <1>6, <1>7, SMTT(40) DEF PhaseOf, Waits, Serves, Torn
  <2> QED  BY <1>7, <2>1, SMTT(40) DEF LagOf, DownLag, JobLag, UpLag, Load
<1>11. DoneOf(cl2, u, d2, pc, j, ops, a)
  BY <1>6, <1>7 DEF DoneOf, OkDone
<1> QED  BY <1>3, <1>8, <1>9, <1>10, <1>11, Zenon DEF PairOf

(* A client connects.                                                        *)
Connected(cl, u, pc, cl2, u2, pc2) ==
    /\ cl.pc = "off" /\ cl2.pc = "hello" /\ cl2.sent = cl.sent
    /\ pc2 = "backlog"
    /\ Len(u2) = 1 /\ u2[1].kind = "hello" /\ u2[1].id = NilId

LEMMA PairConnected ==
    ASSUME NEW cl, NEW u, NEW d, NEW pc, NEW j, NEW out, NEW ops, NEW a, NEW t,
           NEW cl2, NEW u2, NEW pc2,
           Numbers(cl, u, d, out, ops, a),
           PairOf(cl, u, d, pc, j, out, ops, a, t),
           Connected(cl, u, pc, cl2, u2, pc2)
    PROVE  PairOf(cl2, u2, d, pc2, j, out, ops, a, t)
<1>1. /\ cl.sent \in Nat /\ out.from \in Nat /\ a \in Nat
      /\ Len(u) \in Nat /\ Len(d) \in Nat
  BY Zenon DEF Numbers
<1>2. Serves(pc) \in {0, 1}
  BY Zenon DEF Serves
<1>3. PhaseOf(cl, u, d, pc, a, t) /\ IdOf(cl, u, d, pc, j, out, ops)
      /\ LagOf(cl, u, d, pc, j, a) /\ DoneOf(cl, u, d, pc, j, ops, a)
      /\ ReturnedOf(out, ops, a)
  BY Zenon DEF PairOf
<1>4. Ids(cl.sent, Len(d), d, Serves(pc), j, Len(u), u)
  BY <1>3, Zenon DEF IdOf
<1>5. Ordered(out.from, Len(d), d, Serves(pc), j, Len(u), u)
  BY <1>3, Zenon DEF IdOf
<1>6. cl.pc = "off" /\ cl2.pc = "hello" /\ cl2.sent = cl.sent /\ pc2 = "backlog"
  BY ZenonT(40) DEF Connected
<1>7. Len(u2) = 1 /\ u2[1].kind = "hello" /\ u2[1].id = NilId
  BY Zenon DEF Connected
<1>8. pc = "none" /\ Len(d) = 0 /\ cl.sent = 0
  BY <1>3, <1>6, Zenon DEF PhaseOf
<1>9. Serves(pc2) = Serves(pc) /\ Waits(cl2) = Waits(cl) /\ Serves(pc) = 0
  BY <1>6, <1>8, Zenon DEF Serves, Waits
<1>10. PhaseOf(cl2, u2, d, pc2, a, t)
  <2>1. TornOnce(t, Len(u2), u2)
    BY <1>7 DEF TornOnce
  <2> QED  BY <1>3, <1>6, <1>7, <1>8, <2>1, ZenonT(40) DEF PhaseOf
<1>11. IdOf(cl2, u2, d, pc2, j, out, ops)
  <2>1. Cut(0, Len(u), u, Len(u2), u2)
    BY <1>7 DEF Cut
  <2>2. Len(u2) \in Nat /\ 0 \in Int
    BY <1>7
  <2>3. /\ Ids(cl.sent, Len(d), d, Serves(pc), j, Len(u2), u2)
        /\ Ordered(out.from, Len(d), d, Serves(pc), j, Len(u2), u2)
    BY <1>1, <1>2, <1>4, <1>5, <2>1, <2>2, IdsCut, ZenonT(40)
  <2> QED  BY <1>3, <1>6, <1>9, <2>3, ZenonT(40) DEF IdOf
<1>12. LagOf(cl2, u2, d, pc2, j, a)
  <2>1. DownLag(cl.sent, a + Waits(cl), Len(d), d)
    BY <1>3, Zenon DEF LagOf
  <2>2. JobLag(cl.sent, a + Waits(cl), Len(d), Serves(pc), j)
    BY <1>3, Zenon DEF LagOf
  <2>3. UpLag(cl.sent, a + Waits(cl), Len(d), Serves(pc), Len(u2), u2)
    BY <1>7 DEF UpLag
  <2> QED  BY <1>6, <1>9, <2>1, <2>2, <2>3, Zenon DEF LagOf
<1>13. DoneOf(cl2, u2, d, pc2, j, ops, a)
  BY <1>3, <1>6, Zenon DEF DoneOf
<1> QED  BY <1>3, <1>10, <1>11, <1>12, <1>13, Zenon DEF PairOf

(* The server accepts a connection, or admits it.                            *)
LEMMA PairMoved ==
    ASSUME NEW cl, NEW u, NEW d, NEW pc, NEW j, NEW out, NEW ops, NEW a, NEW t,
           NEW pc2,
           Numbers(cl, u, d, out, ops, a),
           PairOf(cl, u, d, pc, j, out, ops, a, t),
           <<pc, pc2>> \in {<<"backlog", "hello">>, <<"auth", "serving">>}
    PROVE  PairOf(cl, u, d, pc2, j, out, ops, a, t)
<1>1. /\ cl.sent \in Nat /\ out.from \in Nat /\ a \in Nat
      /\ Len(u) \in Nat /\ Len(d) \in Nat
  BY Zenon DEF Numbers
<1>2. Serves(pc) \in {0, 1}
  BY Zenon DEF Serves
<1>3. PhaseOf(cl, u, d, pc, a, t) /\ IdOf(cl, u, d, pc, j, out, ops)
      /\ LagOf(cl, u, d, pc, j, a) /\ DoneOf(cl, u, d, pc, j, ops, a)
      /\ ReturnedOf(out, ops, a)
  BY ZenonT(40) DEF PairOf
<1>4. Ids(cl.sent, Len(d), d, Serves(pc), j, Len(u), u)
  BY <1>3, ZenonT(40) DEF IdOf
<1>5. Ordered(out.from, Len(d), d, Serves(pc), j, Len(u), u)
  BY <1>3, ZenonT(40) DEF IdOf
<1>6. Serves(pc2) = Serves(pc)
  BY Zenon DEF Serves
<1>7. PhaseOf(cl, u, d, pc2, a, t)
  BY <1>3, Zenon DEF PhaseOf
<1>8. IdOf(cl, u, d, pc2, j, out, ops)
  BY <1>3, <1>6, Zenon DEF IdOf
<1>9. LagOf(cl, u, d, pc2, j, a)
  BY <1>3, <1>6, Zenon DEF LagOf
<1>10. DoneOf(cl, u, d, pc2, j, ops, a)
  BY <1>3, <1>6, Zenon DEF DoneOf
<1> QED  BY <1>3, <1>7, <1>8, <1>9, <1>10, Zenon DEF PairOf

(* The handshake is answered, or fails on a client that is gone.             *)
Shaken(u, d, pc, u2, d2, pc2) ==
    /\ pc = "hello" /\ Len(u2) = Len(u) - 1
    /\ \/ Len(d2) = Len(d) + 1 /\ d2[Len(d) + 1].id = NilId /\ pc2 \in {"auth", "closed"}
       \/ d2 = d /\ pc2 = "closed"

LEMMA PairShaken ==
    ASSUME NEW cl, NEW u, NEW d, NEW pc, NEW j, NEW out, NEW ops, NEW a, NEW t,
           NEW u2, NEW d2, NEW pc2,
           Numbers(cl, u, d, out, ops, a),
           PairOf(cl, u, d, pc, j, out, ops, a, t),
           Shaken(u, d, pc, u2, d2, pc2)
    PROVE  PairOf(cl, u2, d2, pc2, j, out, ops, a, t)
<1>1. /\ cl.sent \in Nat /\ out.from \in Nat /\ a \in Nat
      /\ Len(u) \in Nat /\ Len(d) \in Nat
  BY Zenon DEF Numbers
<1>2. Serves(pc) \in {0, 1}
  BY Zenon DEF Serves
<1>3. PhaseOf(cl, u, d, pc, a, t) /\ IdOf(cl, u, d, pc, j, out, ops)
      /\ LagOf(cl, u, d, pc, j, a) /\ DoneOf(cl, u, d, pc, j, ops, a)
      /\ ReturnedOf(out, ops, a)
  BY Zenon DEF PairOf
<1>4. Ids(cl.sent, Len(d), d, Serves(pc), j, Len(u), u)
  BY <1>3, Zenon DEF IdOf
<1>5. Ordered(out.from, Len(d), d, Serves(pc), j, Len(u), u)
  BY <1>3, Zenon DEF IdOf
<1>6. pc = "hello" /\ Len(u) = 1 /\ Len(d) = 0 /\ cl.sent = 0
      /\ cl.pc \in {"off", "hello", "gone"}
  BY <1>3, Zenon DEF PhaseOf, Shaken
<1>7. Len(u2) = 0
  BY <1>6 DEF Shaken
<1>8. /\ Len(d2) = 0 \/ (Len(d2) = 1 /\ d2[1].id = NilId)
      /\ pc2 \in {"auth", "closed"}
  BY <1>6 DEF Shaken
<1>9. Serves(pc2) = 0 /\ Serves(pc) = 0
  BY <1>6, <1>8, Zenon DEF Serves
<1>10. PhaseOf(cl, u2, d2, pc2, a, t)
  <2>1. TornOnce(t, Len(u2), u2)
    BY <1>7 DEF TornOnce
  <2>2. /\ cl.pc # "off" /\ cl.pc \notin {"open", "waiting"}
        /\ cl.pc = "hello" => cl.sent = 0 /\ a = 0 /\ ~t
    BY <1>3, <1>6, Zenon DEF PhaseOf
  <2>3. Len(d2) \in {0, 1} /\ pc2 \in {"auth", "closed"}
    BY <1>8, Zenon
  <2> QED  BY <1>7, <2>1, <2>2, <2>3, Zenon DEF PhaseOf
<1>11. IdOf(cl, u2, d2, pc2, j, out, ops)
  <2>1. Ids(cl.sent, Len(d2), d2, 0, j, Len(u2), u2)
    BY <1>1, <1>7, <1>8, SMTT(40) DEF Ids, NilId
  <2>2. Ordered(out.from, Len(d2), d2, 0, j, Len(u2), u2)
    BY <1>7, <1>8, SMTT(40) DEF Ordered, After, Upward
  <2> QED  BY <1>3, <1>9, <2>1, <2>2, ZenonT(40) DEF IdOf
<1>12. LagOf(cl, u2, d2, pc2, j, a)
  BY <1>6, <1>7, <1>8, <1>9, SMTT(40) DEF LagOf, DownLag, JobLag, UpLag
<1>13. DoneOf(cl, u2, d2, pc2, j, ops, a)
  BY <1>6, <1>8 DEF DoneOf, OkDone
<1> QED  BY <1>3, <1>10, <1>11, <1>12, <1>13, Zenon DEF PairOf

(* A request is taken out of the stream.                                     *)
Read(u, pc, u2, pc2, j2) ==
    /\ pc = "serving" /\ pc2 = "dispatch"
    /\ Len(u) # 0 /\ Len(u2) = Len(u) - 1 /\ Advanced(Len(u), u, u2)
    /\ j2 = u[1] /\ u[1].kind = "request"

LEMMA PairRead ==
    ASSUME NEW cl, NEW u, NEW d, NEW pc, NEW j, NEW out, NEW ops, NEW a, NEW t,
           NEW u2, NEW pc2, NEW j2,
           Numbers(cl, u, d, out, ops, a),
           PairOf(cl, u, d, pc, j, out, ops, a, t),
           Read(u, pc, u2, pc2, j2)
    PROVE  PairOf(cl, u2, d, pc2, j2, out, ops, a, t)
<1>1. /\ cl.sent \in Nat /\ out.from \in Nat /\ a \in Nat
      /\ Len(u) \in Nat /\ Len(d) \in Nat
  BY Zenon DEF Numbers
<1>2. Serves(pc) \in {0, 1}
  BY Zenon DEF Serves
<1>3. PhaseOf(cl, u, d, pc, a, t) /\ IdOf(cl, u, d, pc, j, out, ops)
      /\ LagOf(cl, u, d, pc, j, a) /\ DoneOf(cl, u, d, pc, j, ops, a)
      /\ ReturnedOf(out, ops, a)
  BY Zenon DEF PairOf
<1>4. Ids(cl.sent, Len(d), d, Serves(pc), j, Len(u), u)
  BY <1>3, Zenon DEF IdOf
<1>5. Ordered(out.from, Len(d), d, Serves(pc), j, Len(u), u)
  BY <1>3, Zenon DEF IdOf
<1>6. Len(u) \in Nat \ {0} /\ u[1].kind = "request"
  BY <1>1, Zenon DEF Read
<1>7. Advanced(Len(u), u, u2)
  BY ZenonT(40) DEF Read
<1>8. Len(u2) = Len(u) - 1 /\ pc = "serving" /\ pc2 = "dispatch" /\ j2 = u[1]
  BY Zenon DEF Read
<1>9. /\ 1 \in 1 .. Len(u)
      /\ \A i \in 1 .. Len(u2) : i + 1 \in 1 .. Len(u) /\ u2[i] = u[i + 1]
  BY <1>6, <1>7, <1>8 DEF Advanced
<1>10. Serves(pc) = 0 /\ Serves(pc2) = 1
  BY <1>8, Zenon DEF Serves
<1>a. Ids(cl.sent, Len(d), d, 0, j, Len(u), u)
  BY <1>4, <1>10, Zenon
<1>b. Ordered(out.from, Len(d), d, 0, j, Len(u), u)
  BY <1>5, <1>10, ZenonT(40)
<1>11. PhaseOf(cl, u2, d, pc2, a, t)
  <2>1. cl.pc \notin {"off", "hello"}
    BY <1>3, <1>6, <1>8, Zenon DEF PhaseOf
  <2>2. TornOnce(t, Len(u), u)
    BY <1>3, ZenonT(40) DEF PhaseOf
  <2>3. TornOnce(t, Len(u2), u2)
    <3> SUFFICES ASSUME NEW i \in 1 .. Len(u2), NEW k \in 1 .. Len(u2),
                        u2[i].kind = "torn", u2[k].kind = "torn"
                 PROVE  i = k /\ t
      BY Zenon DEF TornOnce
    <3>1. i + 1 = k + 1 /\ t
      BY <1>9, <2>2 DEF TornOnce
    <3> QED  BY <3>1, SMTT(40)
  <2> QED  BY <1>3, <1>8, <2>1, <2>3, ZenonT(40) DEF PhaseOf
<1>12. IdOf(cl, u2, d, pc2, j2, out, ops)
  <2>1. /\ Ids(cl.sent, Len(d), d, 1, u[1], Len(u) - 1, u2)
        /\ Ordered(out.from, Len(d), d, 1, u[1], Len(u) - 1, u2)
    BY <1>1, <1>6, <1>7, <1>a, <1>b, IdsRead, ZenonT(40)
  <2> QED  BY <1>3, <1>8, <1>10, <2>1, Zenon DEF IdOf
<1>13. LagOf(cl, u2, d, pc2, j2, a)
  <2>1. a + Waits(cl) \in Nat
    BY <1>1 DEF Waits
  <2>2. UpLag(cl.sent, a + Waits(cl), Len(d), 0, Len(u), u)
    BY <1>3, <1>8, <1>10, Zenon DEF LagOf
  <2>3. JobLag(cl.sent, a + Waits(cl), Len(d), 1, u[1])
    BY <1>1, <1>6, <1>7, <1>a, <2>1, <2>2, LagRead, ZenonT(40)
  <2>4. UpLag(cl.sent, a + Waits(cl), Len(d), 1, Len(u) - 1, u2)
    BY <1>1, <1>6, <1>7, <1>a, <2>1, <2>2, LagRead, ZenonT(40)
  <2>5. Load(a + Waits(cl), Len(d), 0, Len(u), u)
           => Load(a + Waits(cl), Len(d), 1, Len(u) - 1, u2)
    BY <1>1, <1>6, <1>7, <1>a, <2>1, <2>2, LagRead, ZenonT(40)
  <2> QED  BY <1>3, <1>8, <1>10, <2>3, <2>4, <2>5, Zenon DEF LagOf
<1>14. DoneOf(cl, u2, d, pc2, j2, ops, a)
  <2>1. cl.pc = "waiting" =>
           Asked(cl.sent, cl.ask.method, 1, u[1], Len(u2), u2, ops)
    <3>1. cl.pc = "waiting" =>
             /\ Asked(cl.sent, cl.ask.method, 0, j, Len(u), u, ops)
             /\ cl.sent # NilId
      BY <1>3, <1>10, Zenon DEF DoneOf, IdOf
    <3> QED  BY <1>9, <3>1, Zenon DEF Asked
  <2> QED  BY <1>3, <1>6, <1>8, <1>10, <2>1, Zenon DEF DoneOf
<1> QED  BY <1>3, <1>11, <1>12, <1>13, <1>14, Zenon DEF PairOf

(* Without unanswered requests, the request being dispatched is the one       *)
(* waited for, and no response is on its way.                                *)
LEMMA PairBusy ==
    ASSUME NEW cl, NEW u, NEW d, NEW pc, NEW j, NEW out, NEW ops, NEW a, NEW t,
           Numbers(cl, u, d, out, ops, a),
           PairOf(cl, u, d, pc, j, out, ops, a, t),
           pc = "dispatch", a = 0
    PROVE  cl.pc = "waiting" /\ Len(d) = 0
<1>1. cl.sent \in Nat /\ Len(d) \in Nat
  BY Zenon DEF Numbers
<1>2. Serves(pc) = 1
  BY Zenon DEF Serves
<1>3. IdOf(cl, u, d, pc, j, out, ops) /\ LagOf(cl, u, d, pc, j, a)
  BY Zenon DEF PairOf
<1>4. j.id \in Nat /\ j.id <= cl.sent
  BY <1>2, <1>3, Zenon DEF IdOf, Ids
<1>5. Waits(cl) \in {0, 1} /\ (Waits(cl) = 1 => cl.pc = "waiting")
  BY DEF Waits
<1>6. cl.sent + Len(d) + 1 <= j.id + (0 + Waits(cl))
  BY <1>2, <1>3, Zenon DEF LagOf, JobLag
<1> QED  BY <1>1, <1>4, <1>5, <1>6

(* The operation of the request being dispatched.                            *)
Operated(j, pc, ops, ops2) ==
    \/ ops2 = ops
    \/ pc = "dispatch" /\ \E o : ops2 = {o} /\ o.id = j.id /\ o.method = j.method

LEMMA PairOperated ==
    ASSUME NEW cl, NEW u, NEW d, NEW pc, NEW j, NEW out, NEW ops, NEW a, NEW t,
           NEW ops2,
           Numbers(cl, u, d, out, ops, a),
           PairOf(cl, u, d, pc, j, out, ops, a, t),
           Operated(j, pc, ops, ops2)
    PROVE  /\ \A o \in ops2 : o.id <= cl.sent
           /\ a = 0 => OkDone(Len(d), d, ops2)
           /\ cl.pc = "waiting" =>
                 Asked(cl.sent, cl.ask.method, Serves(pc), j, Len(u), u, ops2)
           /\ ReturnedOf(out, ops2, a)
<1>1. /\ cl.sent \in Nat /\ out.from \in Nat /\ a \in Nat
      /\ Len(u) \in Nat /\ Len(d) \in Nat
  BY Zenon DEF Numbers
<1>2. Serves(pc) \in {0, 1}
  BY Zenon DEF Serves
<1>3. PhaseOf(cl, u, d, pc, a, t) /\ IdOf(cl, u, d, pc, j, out, ops)
      /\ LagOf(cl, u, d, pc, j, a) /\ DoneOf(cl, u, d, pc, j, ops, a)
      /\ ReturnedOf(out, ops, a)
  BY Zenon DEF PairOf
<1>4. Ids(cl.sent, Len(d), d, Serves(pc), j, Len(u), u)
  BY <1>3, Zenon DEF IdOf
<1>5. Ordered(out.from, Len(d), d, Serves(pc), j, Len(u), u)
  BY <1>3, Zenon DEF IdOf
<1>6. CASE ops2 = ops
  BY <1>3, <1>6, Zenon DEF IdOf, DoneOf
<1>7. CASE pc = "dispatch" /\ \E o : ops2 = {o} /\ o.id = j.id /\ o.method = j.method
  <2>1. PICK o : ops2 = {o} /\ o.id = j.id /\ o.method = j.method
    BY <1>7, ZenonT(40)
  <2>2. Serves(pc) = 1
    BY <1>7, Zenon DEF Serves
  <2>3. \A q \in ops2 : q.id <= cl.sent
    BY <1>4, <2>1, <2>2, Zenon DEF Ids
  <2>4. a = 0 => cl.pc = "waiting" /\ Len(d) = 0
    BY <1>7, PairBusy, ZenonT(40)
  <2>5. a = 0 => OkDone(Len(d), d, ops2)
    BY <2>4 DEF OkDone
  <2>6. cl.pc = "waiting" =>
           Asked(cl.sent, cl.ask.method, Serves(pc), j, Len(u), u, ops)
    BY <1>3, Zenon DEF DoneOf
  <2>7. cl.pc = "waiting" =>
           Asked(cl.sent, cl.ask.method, Serves(pc), j, Len(u), u, ops2)
    BY <2>1, <2>2, <2>6, Zenon DEF Asked
  <2>8. a = 0 => out.as # "ok"
    BY <1>3, <2>4, Zenon DEF IdOf
  <2>9. ReturnedOf(out, ops2, a)
    BY <1>3, <2>8, ZenonT(40) DEF ReturnedOf
  <2> QED  BY <2>3, <2>5, <2>7, <2>9, Zenon
<1> QED  BY <1>6, <1>7, Zenon DEF Operated

(* The task of a connection ends.                                            *)
LEMMA PairClosed ==
    ASSUME NEW cl, NEW u, NEW d, NEW pc, NEW j, NEW out, NEW ops, NEW a, NEW t,
           NEW pc2, NEW ops2,
           Numbers(cl, u, d, out, ops, a),
           PairOf(cl, u, d, pc, j, out, ops, a, t),
           pc \in {"auth", "serving", "dispatch"}, pc2 = "closed",
           Operated(j, pc, ops, ops2)
    PROVE  PairOf(cl, u, d, pc2, j, out, ops2, a, t)
<1>1. /\ cl.sent \in Nat /\ out.from \in Nat /\ a \in Nat
      /\ Len(u) \in Nat /\ Len(d) \in Nat
  BY Zenon DEF Numbers
<1>2. Serves(pc) \in {0, 1}
  BY Zenon DEF Serves
<1>3. PhaseOf(cl, u, d, pc, a, t) /\ IdOf(cl, u, d, pc, j, out, ops)
      /\ LagOf(cl, u, d, pc, j, a) /\ DoneOf(cl, u, d, pc, j, ops, a)
      /\ ReturnedOf(out, ops, a)
  BY Zenon DEF PairOf
<1>4. Ids(cl.sent, Len(d), d, Serves(pc), j, Len(u), u)
  BY <1>3, Zenon DEF IdOf
<1>5. Ordered(out.from, Len(d), d, Serves(pc), j, Len(u), u)
  BY <1>3, Zenon DEF IdOf
<1>6. Serves(pc2) = 0
  BY Zenon DEF Serves
<1>7. /\ \A o \in ops2 : o.id <= cl.sent
      /\ a = 0 => OkDone(Len(d), d, ops2)
      /\ cl.pc = "waiting" =>
            Asked(cl.sent, cl.ask.method, Serves(pc), j, Len(u), u, ops2)
      /\ ReturnedOf(out, ops2, a)
  BY PairOperated, ZenonT(40)
<1>8. PhaseOf(cl, u, d, pc2, a, t)
  BY <1>3, Zenon DEF PhaseOf
<1>9. IdOf(cl, u, d, pc2, j, out, ops2)
  <2>1. /\ Ids(cl.sent, Len(d), d, 0, j, Len(u), u)
        /\ Ordered(out.from, Len(d), d, 0, j, Len(u), u)
    BY <1>1, <1>2, <1>4, <1>5, IdsStopped, ZenonT(40)
  <2> QED  BY <1>3, <1>6, <1>7, <2>1, Zenon DEF IdOf
<1>10. LagOf(cl, u, d, pc2, j, a)
  BY <1>3, <1>6 DEF LagOf, JobLag
<1>11. DoneOf(cl, u, d, pc2, j, ops2, a)
  <2>1. cl.pc = "waiting" => Asked(cl.sent, cl.ask.method, 0, j, Len(u), u, ops2)
    BY <1>7, SMTT(40) DEF Asked
  <2> QED  BY <1>6, <1>7, <2>1, ZenonT(40) DEF DoneOf
<1> QED  BY <1>7, <1>8, <1>9, <1>10, <1>11, Zenon DEF PairOf

(* The request being dispatched is answered.                                 *)
Answered(d, pc, j, d2, pc2, ops2) ==
    /\ pc = "dispatch" /\ pc2 = "serving"
    /\ Len(d2) = Len(d) + 1 /\ Extended(Len(d), d, d2)
    /\ d2[Len(d) + 1].id = j.id
    /\ d2[Len(d) + 1].ok => \E o \in ops2 : o.id = j.id

LEMMA PairAnswered ==
    ASSUME NEW cl, NEW u, NEW d, NEW pc, NEW j, NEW out, NEW ops, NEW a, NEW t,
           NEW d2, NEW pc2, NEW j2, NEW ops2,
           Numbers(cl, u, d, out, ops, a),
           PairOf(cl, u, d, pc, j, out, ops, a, t),
           Answered(d, pc, j, d2, pc2, ops2), Operated(j, pc, ops, ops2)
    PROVE  PairOf(cl, u, d2, pc2, j2, out, ops2, a, t)
<1>1. /\ cl.sent \in Nat /\ out.from \in Nat /\ a \in Nat
      /\ Len(u) \in Nat /\ Len(d) \in Nat
  BY Zenon DEF Numbers
<1>2. Serves(pc) \in {0, 1}
  BY Zenon DEF Serves
<1>3. PhaseOf(cl, u, d, pc, a, t) /\ IdOf(cl, u, d, pc, j, out, ops)
      /\ LagOf(cl, u, d, pc, j, a) /\ DoneOf(cl, u, d, pc, j, ops, a)
      /\ ReturnedOf(out, ops, a)
  BY Zenon DEF PairOf
<1>4. Ids(cl.sent, Len(d), d, Serves(pc), j, Len(u), u)
  BY <1>3, Zenon DEF IdOf
<1>5. Ordered(out.from, Len(d), d, Serves(pc), j, Len(u), u)
  BY <1>3, Zenon DEF IdOf
<1>6. Extended(Len(d), d, d2)
  BY Zenon DEF Answered
<1>7. d2[Len(d) + 1].id = j.id
  BY Zenon DEF Answered
<1>8. Len(d2) = Len(d) + 1 /\ pc = "dispatch" /\ pc2 = "serving"
  BY ZenonT(40) DEF Answered
<1>9. \A i \in 1 .. Len(d2) : i \in 1 .. Len(d) \/ i = Len(d) + 1
  BY <1>1, <1>8
<1>10. Serves(pc) = 1 /\ Serves(pc2) = 0
  BY <1>8, Zenon DEF Serves
<1>a. Ids(cl.sent, Len(d), d, 1, j, Len(u), u)
  BY <1>4, <1>10, Zenon
<1>b. Ordered(out.from, Len(d), d, 1, j, Len(u), u)
  BY <1>5, <1>10, Zenon
<1>c. /\ \A o \in ops2 : o.id <= cl.sent
      /\ a = 0 => OkDone(Len(d), d, ops2)
      /\ cl.pc = "waiting" =>
            Asked(cl.sent, cl.ask.method, Serves(pc), j, Len(u), u, ops2)
      /\ ReturnedOf(out, ops2, a)
  BY PairOperated, ZenonT(40)
<1>11. PhaseOf(cl, u, d2, pc2, a, t)
  <2>1. cl.pc \notin {"off", "hello"}
    BY <1>3, <1>8, ZenonT(40) DEF PhaseOf
  <2>2. j.id # NilId
    BY <1>a, Zenon DEF Ids
  <2>3. Replies(Len(d), d) => Replies(Len(d2), d2)
    BY <1>6, <1>7, <1>9, <2>2, Zenon DEF Replies, Extended
  <2> QED  BY <1>3, <1>8, <2>1, <2>3, Zenon DEF PhaseOf
<1>12. IdOf(cl, u, d2, pc2, j2, out, ops2)
  <2>1. /\ Ids(cl.sent, Len(d) + 1, d2, 0, j2, Len(u), u)
        /\ Ordered(out.from, Len(d) + 1, d2, 0, j2, Len(u), u)
    BY <1>1, <1>6, <1>7, <1>a, <1>b, IdsAnswered, ZenonT(40)
  <2> QED  BY <1>3, <1>8, <1>10, <1>c, <2>1, Zenon DEF IdOf
<1>13. LagOf(cl, u, d2, pc2, j2, a)
  <2>1. a + Waits(cl) \in Nat
    BY <1>1 DEF Waits
  <2>2. JobLag(cl.sent, a + Waits(cl), Len(d), 1, j)
    BY <1>3, <1>10, Zenon DEF LagOf
  <2>3. DownLag(cl.sent, a + Waits(cl), Len(d), d)
           => DownLag(cl.sent, a + Waits(cl), Len(d) + 1, d2)
    BY <1>1, <1>6, <1>7, <1>a, <2>1, <2>2, LagAnswered, ZenonT(40)
  <2>4. UpLag(cl.sent, a + Waits(cl), Len(d), 1, Len(u), u)
           => UpLag(cl.sent, a + Waits(cl), Len(d) + 1, 0, Len(u), u)
    BY <1>1, <1>6, <1>7, <1>a, <2>1, <2>2, LagAnswered, ZenonT(40)
  <2>5. Load(a + Waits(cl), Len(d), 1, Len(u), u)
           => Load(a + Waits(cl), Len(d) + 1, 0, Len(u), u)
    BY <1>1, <1>6, <1>7, <1>a, <2>1, <2>2, LagAnswered, ZenonT(40)
  <2> QED  BY <1>3, <1>8, <1>10, <2>3, <2>4, <2>5 DEF LagOf, JobLag
<1>14. DoneOf(cl, u, d2, pc2, j2, ops2, a)
  <2>1. cl.pc = "waiting" => Asked(cl.sent, cl.ask.method, 0, j2, Len(u), u, ops2)
    BY <1>c, SMTT(40) DEF Asked
  <2>2. a = 0 => OkDone(Len(d2), d2, ops2)
    BY <1>6, <1>7, <1>9, <1>c, Zenon DEF OkDone, Answered, Extended
  <2> QED  BY <1>8, <1>10, <2>1, <2>2, Zenon DEF DoneOf
<1> QED  BY <1>c, <1>11, <1>12, <1>13, <1>14, Zenon DEF PairOf

LEMMA StreamMisread ==
    ASSUME NEW u, NEW u2, NEW t, NEW k, NEW b, Misread(u, u2, k, b),
           TornOnce(t, Len(u), u), Len(u) \in Nat
    PROVE  /\ TornOnce(t, Len(u2), u2)
           /\ Cut(k - b, Len(u), u, Len(u2), u2)
           /\ Len(u2) \in Nat /\ k - b \in Int
<1>1. /\ k \in 2 .. Len(u) /\ b \in {0, 1} /\ Len(u2) = Len(u) - k + b
      /\ u[1].kind = "torn"
  BY Zenon DEF Misread
<1>2. Len(u2) \in Nat /\ k - b \in Int
  BY <1>1
<1>3. ASSUME NEW i \in 1 .. Len(u2)
      PROVE  \/ i = 1 /\ u2[i].id = NilId /\ u2[i].kind = "torn"
             \/ i + (k - b) \in 2 .. Len(u) /\ u2[i] = u[i + (k - b)]
  <2>1. CASE b = 1 /\ i = 1
    BY <2>1, Zenon DEF Misread
  <2>2. CASE ~(b = 1 /\ i = 1)
    <3>1. i \in 1 + b .. Len(u2)
      BY <1>1, <1>2, <2>2
    <3>2. i + k - b = i + (k - b) /\ i + (k - b) \in 2 .. Len(u)
      BY <1>1, <1>2, <3>1
    <3>3. u2[i] = u[i + k - b]
      BY <3>1, Zenon DEF Misread
    <3> QED  BY <3>2, <3>3, Zenon
  <2> QED  BY <2>1, <2>2, Zenon
<1>4. Cut(k - b, Len(u), u, Len(u2), u2)
  <2>1. \A i : i \in 2 .. Len(u) => i \in 1 .. Len(u)
    OBVIOUS
  <2> QED  BY <1>3, <2>1, Zenon DEF Cut
<1>5. t /\ \A i \in 2 .. Len(u) : u[i].kind # "torn"
  <2>1. 1 \in 1 .. Len(u)
    BY <1>1
  <2>2. t
    BY <1>1, <2>1, Zenon DEF TornOnce
  <2>3. ASSUME NEW i \in 2 .. Len(u), u[i].kind = "torn"
        PROVE  FALSE
    <3>1. i \in 1 .. Len(u) /\ i # 1
      OBVIOUS
    <3> QED  BY <1>1, <2>1, <2>3, <3>1, Zenon DEF TornOnce
  <2> QED  BY <2>2, <2>3, Zenon
<1>6. TornOnce(t, Len(u2), u2)
  BY <1>3, <1>5, Zenon DEF TornOnce
<1> QED  BY <1>2, <1>4, <1>6, Zenon

(* Garbage is answered, and the server goes on.                              *)
Garbled(u, d, pc, u2, d2, k, b) ==
    /\ pc = "serving" /\ Misread(u, u2, k, b)
    /\ Len(d2) = Len(d) + 1 /\ Extended(Len(d), d, d2)
    /\ d2[Len(d) + 1].id = NilId /\ ~d2[Len(d) + 1].ok

LEMMA PairGarbled ==
    ASSUME NEW cl, NEW u, NEW d, NEW pc, NEW j, NEW out, NEW ops, NEW a, NEW t,
           NEW u2, NEW d2, NEW k, NEW b,
           Numbers(cl, u, d, out, ops, a),
           PairOf(cl, u, d, pc, j, out, ops, a, t),
           Garbled(u, d, pc, u2, d2, k, b)
    PROVE  PairOf(cl, u2, d2, pc, j, out, ops, a, t)
<1>1. /\ cl.sent \in Nat /\ out.from \in Nat /\ a \in Nat
      /\ Len(u) \in Nat /\ Len(d) \in Nat
  BY Zenon DEF Numbers
<1>2. Serves(pc) \in {0, 1}
  BY Zenon DEF Serves
<1>3. PhaseOf(cl, u, d, pc, a, t) /\ IdOf(cl, u, d, pc, j, out, ops)
      /\ LagOf(cl, u, d, pc, j, a) /\ DoneOf(cl, u, d, pc, j, ops, a)
      /\ ReturnedOf(out, ops, a)
  BY Zenon DEF PairOf
<1>4. Ids(cl.sent, Len(d), d, Serves(pc), j, Len(u), u)
  BY <1>3, Zenon DEF IdOf
<1>5. Ordered(out.from, Len(d), d, Serves(pc), j, Len(u), u)
  BY <1>3, Zenon DEF IdOf
<1>6. Misread(u, u2, k, b)
  BY Zenon DEF Garbled
<1>7. TornOnce(t, Len(u), u)
  BY <1>3, Zenon DEF PhaseOf
<1>8. TornOnce(t, Len(u2), u2)
  BY <1>1, <1>6, <1>7, StreamMisread, ZenonT(40)
<1>9. Cut(k - b, Len(u), u, Len(u2), u2)
  BY <1>1, <1>6, <1>7, StreamMisread, ZenonT(40)
<1>10. Len(u2) \in Nat /\ k - b \in Int
  BY <1>1, <1>6, <1>7, StreamMisread, ZenonT(40)
<1>11. Extended(Len(d), d, d2)
  BY Zenon DEF Garbled
<1>12. d2[Len(d) + 1].id = NilId
  BY Zenon DEF Garbled
<1>13. Len(d2) = Len(d) + 1 /\ pc = "serving" /\ ~d2[Len(d) + 1].ok
  BY Zenon DEF Garbled
<1>14. \A i \in 1 .. Len(d2) : i \in 1 .. Len(d) \/ i = Len(d) + 1
  BY <1>1, <1>13
<1>15. Serves(pc) = 0
  BY <1>13, Zenon DEF Serves
<1>16. PhaseOf(cl, u2, d2, pc, a, t)
  <2>1. cl.pc \notin {"off", "hello"}
    <3>1. Len(u) # 0
      BY <1>1, <1>6, SMTT(40) DEF Misread
    <3> QED  BY <1>3, <1>13, <3>1, ZenonT(40) DEF PhaseOf
  <2>2. Replies(Len(d), d) => Replies(Len(d2), d2)
    BY <1>11, <1>13, <1>14, Zenon DEF Replies, Extended
  <2> QED  BY <1>3, <1>8, <1>13, <2>1, <2>2, Zenon DEF PhaseOf
<1>17. IdOf(cl, u2, d2, pc, j, out, ops)
  <2>1. Ids(cl.sent, Len(d), d, Serves(pc), j, Len(u2), u2)
    BY <1>1, <1>2, <1>4, <1>5, <1>9, <1>10, IdsCut, ZenonT(40)
  <2>2. Ordered(out.from, Len(d), d, Serves(pc), j, Len(u2), u2)
    BY <1>1, <1>2, <1>4, <1>5, <1>9, <1>10, IdsCut, ZenonT(40)
  <2>3. /\ Ids(cl.sent, Len(d) + 1, d2, Serves(pc), j, Len(u2), u2)
        /\ Ordered(out.from, Len(d) + 1, d2, Serves(pc), j, Len(u2), u2)
    BY <1>1, <1>2, <1>10, <1>11, <1>12, <2>1, <2>2, IdsNil, ZenonT(40)
  <2> QED  BY <1>3, <1>13, <2>3, Zenon DEF IdOf
<1>18. LagOf(cl, u2, d2, pc, j, a)
  <2>1. a + Waits(cl) \in Nat
    BY <1>1 DEF Waits
  <2>2. Ids(cl.sent, Len(d), d, 0, j, Len(u), u)
    BY <1>4, <1>15, Zenon
  <2>3. DownLag(cl.sent, a + Waits(cl), Len(d), d)
           => DownLag(cl.sent, a + Waits(cl), Len(d2), d2)
    BY <1>11, <1>12, <1>14, Zenon DEF DownLag, Extended
  <2>4. UpLag(cl.sent, a + Waits(cl), Len(d), 0, Len(u), u)
           => UpLag(cl.sent, a + Waits(cl), Len(d) + 1, 0, Len(u2), u2)
    BY <1>1, <1>6, <2>1, <2>2, LagMisread, ZenonT(40)
  <2>5. Load(a + Waits(cl), Len(d), 0, Len(u), u)
           => Load(a + Waits(cl), Len(d) + 1, 0, Len(u2), u2)
    BY <1>1, <1>6, <2>1, <2>2, LagMisread, ZenonT(40)
  <2> QED  BY <1>3, <1>13, <1>15, <2>3, <2>4, <2>5 DEF LagOf, JobLag
<1>19. DoneOf(cl, u2, d2, pc, j, ops, a)
  <2>1. cl.pc = "waiting" =>
           Asked(cl.sent, cl.ask.method, Serves(pc), j, Len(u2), u2, ops)
    <3>1. cl.pc = "waiting" =>
             Asked(cl.sent, cl.ask.method, Serves(pc), j, Len(u), u, ops)
      BY <1>3, Zenon DEF DoneOf
    <3> QED  BY <1>9, <3>1, Zenon DEF Asked, Cut
  <2>2. a = 0 => OkDone(Len(d2), d2, ops)
    BY <1>3, <1>11, <1>13, <1>14, ZenonT(40) DEF DoneOf, OkDone, Extended
  <2> QED  BY <1>13, <2>1, <2>2, Zenon DEF DoneOf
<1> QED  BY <1>3, <1>16, <1>17, <1>18, <1>19, Zenon DEF PairOf

(* Garbage, or the answer to it, ends the task.                              *)
GarbledEnd(u, d, pc, u2, d2, pc2) ==
    /\ pc = "serving" /\ pc2 = "closed" /\ Len(u) # 0
    /\ u2 = u \/ \E k, b : Misread(u, u2, k, b)
    /\ \/ d2 = d
       \/ /\ Len(d2) = Len(d) + 1 /\ Extended(Len(d), d, d2)
          /\ d2[Len(d) + 1].id = NilId /\ ~d2[Len(d) + 1].ok

LEMMA PairGarbledEnd ==
    ASSUME NEW cl, NEW u, NEW d, NEW pc, NEW j, NEW out, NEW ops, NEW a, NEW t,
           NEW u2, NEW d2, NEW pc2,
           Numbers(cl, u, d, out, ops, a),
           PairOf(cl, u, d, pc, j, out, ops, a, t),
           GarbledEnd(u, d, pc, u2, d2, pc2)
    PROVE  PairOf(cl, u2, d2, pc2, j, out, ops, a, t)
<1>1. /\ cl.sent \in Nat /\ out.from \in Nat /\ a \in Nat
      /\ Len(u) \in Nat /\ Len(d) \in Nat
  BY Zenon DEF Numbers
<1>2. Serves(pc) \in {0, 1}
  BY Zenon DEF Serves
<1>3. PhaseOf(cl, u, d, pc, a, t) /\ IdOf(cl, u, d, pc, j, out, ops)
      /\ LagOf(cl, u, d, pc, j, a) /\ DoneOf(cl, u, d, pc, j, ops, a)
      /\ ReturnedOf(out, ops, a)
  BY Zenon DEF PairOf
<1>4. Ids(cl.sent, Len(d), d, Serves(pc), j, Len(u), u)
  BY <1>3, Zenon DEF IdOf
<1>5. Ordered(out.from, Len(d), d, Serves(pc), j, Len(u), u)
  BY <1>3, Zenon DEF IdOf
<1>6. pc = "serving" /\ pc2 = "closed" /\ Len(u) # 0
  BY Zenon DEF GarbledEnd
<1>7. Serves(pc) = 0 /\ Serves(pc2) = 0
  BY <1>6, Zenon DEF Serves
<1>8. /\ TornOnce(t, Len(u2), u2) /\ Len(u2) \in Nat
      /\ \E o \in Int : Cut(o, Len(u), u, Len(u2), u2)
  <2>1. TornOnce(t, Len(u), u)
    BY <1>3, Zenon DEF PhaseOf
  <2>2. CASE u2 = u
    <3>1. Cut(0, Len(u), u, Len(u), u)
      BY <1>1 DEF Cut
    <3> QED  BY <1>1, <2>1, <2>2, <3>1, SMTT(40)
  <2>3. ASSUME NEW k, NEW b, Misread(u, u2, k, b)
        PROVE  /\ TornOnce(t, Len(u2), u2) /\ Len(u2) \in Nat
               /\ \E o \in Int : Cut(o, Len(u), u, Len(u2), u2)
    <3>1. /\ TornOnce(t, Len(u2), u2)
          /\ Cut(k - b, Len(u), u, Len(u2), u2)
          /\ Len(u2) \in Nat /\ k - b \in Int
      BY <1>1, <2>1, <2>3, StreamMisread, ZenonT(40)
    <3> QED  BY <3>1, Zenon
  <2> QED  BY <2>2, <2>3, Zenon DEF GarbledEnd
<1>9. PICK o \in Int : Cut(o, Len(u), u, Len(u2), u2)
  BY <1>8, Zenon
<1>10. PhaseOf(cl, u2, d2, pc2, a, t)
  <2>1. cl.pc \notin {"off", "hello"}
    BY <1>3, <1>6, Zenon DEF PhaseOf
  <2>2. Replies(Len(d), d) => Replies(Len(d2), d2)
    <3>1. CASE d2 = d
      BY <3>1, Zenon
    <3>2. CASE d2 # d
      <4>1. /\ Len(d2) = Len(d) + 1 /\ Extended(Len(d), d, d2)
            /\ ~d2[Len(d) + 1].ok
        BY <3>2, Zenon DEF GarbledEnd
      <4>2. \A i \in 1 .. Len(d2) : i \in 1 .. Len(d) \/ i = Len(d) + 1
        BY <1>1, <4>1
      <4> QED  BY <4>1, <4>2, Zenon DEF Replies, Extended
    <3> QED  BY <3>1, <3>2, Zenon
  <2> QED  BY <1>3, <1>6, <1>8, <2>1, <2>2, Zenon DEF PhaseOf
<1>11. IdOf(cl, u2, d2, pc2, j, out, ops)
  <2>1. Ids(cl.sent, Len(d), d, Serves(pc), j, Len(u2), u2)
    BY <1>1, <1>2, <1>4, <1>5, <1>8, <1>9, IdsCut, ZenonT(40)
  <2>2. Ordered(out.from, Len(d), d, Serves(pc), j, Len(u2), u2)
    BY <1>1, <1>2, <1>4, <1>5, <1>8, <1>9, IdsCut, ZenonT(40)
  <2>3. CASE d2 = d
    BY <1>3, <1>7, <2>1, <2>2, <2>3, Zenon DEF IdOf
  <2>4. CASE d2 # d
    <3>1. Extended(Len(d), d, d2)
      BY <2>4, Zenon DEF GarbledEnd
    <3>2. d2[Len(d) + 1].id = NilId
      BY <2>4, Zenon DEF GarbledEnd
    <3>3. Len(d2) = Len(d) + 1
      BY <2>4, Zenon DEF GarbledEnd
    <3>4. /\ Ids(cl.sent, Len(d) + 1, d2, Serves(pc), j, Len(u2), u2)
          /\ Ordered(out.from, Len(d) + 1, d2, Serves(pc), j, Len(u2), u2)
      BY <1>1, <1>2, <1>8, <2>1, <2>2, <3>1, <3>2, IdsNil, ZenonT(40)
    <3> QED  BY <1>3, <1>7, <3>3, <3>4, Zenon DEF IdOf
  <2> QED  BY <2>3, <2>4, Zenon
<1>12. /\ \A s : DownLag(cl.sent, s, Len(d), d) => DownLag(cl.sent, s, Len(d2), d2)
       /\ OkDone(Len(d), d, ops) => OkDone(Len(d2), d2, ops)
  <2>1. CASE d2 = d
    BY <2>1, Zenon
  <2>2. CASE d2 # d
    <3>1. /\ Len(d2) = Len(d) + 1 /\ Extended(Len(d), d, d2)
          /\ d2[Len(d) + 1].id = NilId
      BY <2>2, Zenon DEF GarbledEnd
    <3>2. \A i \in 1 .. Len(d2) : i \in 1 .. Len(d) \/ i = Len(d) + 1
      BY <1>1, <3>1, SMTT(40)
    <3> QED  BY <3>1, <3>2, Zenon DEF DownLag, OkDone, Extended
  <2> QED  BY <2>1, <2>2, Zenon
<1>13. LagOf(cl, u2, d2, pc2, j, a)
  BY <1>3, <1>6, <1>7, <1>12 DEF LagOf, JobLag
<1>14. DoneOf(cl, u2, d2, pc2, j, ops, a)
  <2>1. cl.pc = "waiting" =>
           Asked(cl.sent, cl.ask.method, 0, j, Len(u2), u2, ops)
    <3>1. cl.pc = "waiting" =>
             Asked(cl.sent, cl.ask.method, 0, j, Len(u), u, ops)
      BY <1>3, <1>7, Zenon DEF DoneOf
    <3> QED  BY <1>9, <3>1, ZenonT(40) DEF Asked, Cut
  <2> QED  BY <1>3, <1>6, <1>7, <1>12, <2>1, Zenon DEF DoneOf
<1> QED  BY <1>3, <1>10, <1>11, <1>13, <1>14, Zenon DEF PairOf

---------------------------------------------------------------------------
(* Where a frame that is under way is: s is the concatenation of d, the      *)
(* request j if x is 1, and u.                                               *)
Place(s, i, ld, d, x, j, lu, u) ==
    \/ i \in 1 .. ld /\ s[i] = d[i]
    \/ x = 1 /\ i = ld + 1 /\ s[i] = j
    \/ i - ld - x \in 1 .. lu /\ s[i] = u[i - ld - x]

(* What is in order in its place is in order.                                *)
LEMMA PlacesOrdered ==
    ASSUME NEW s, NEW f, NEW ld, NEW d, NEW x, NEW j, NEW lu, NEW u,
           Ordered(f, ld, d, x, j, lu, u), ld \in Nat, lu \in Nat, x \in {0, 1},
           NEW i \in Nat, NEW k \in Nat,
           Place(s, i, ld, d, x, j, lu, u), Place(s, k, ld, d, x, j, lu, u),
           s[i].id # NilId, s[k].id # NilId
    PROVE  f < s[i].id /\ (i < k => s[i].id < s[k].id)
<1>1. f < s[i].id
  BY Zenon DEF Place, Ordered, After
<1>2. SUFFICES ASSUME i < k
               PROVE  s[i].id < s[k].id
  BY <1>1, Zenon
<1>3. CASE i \in 1 .. ld /\ s[i] = d[i]
  <2>1. CASE k \in 1 .. ld /\ s[k] = d[k]
    <3>1. d[i].id # NilId /\ d[k].id # NilId
      BY <1>3, <2>1, Zenon
    <3> QED  BY <1>2, <1>3, <2>1, <3>1, Zenon DEF Ordered, Upward
  <2>2. CASE x = 1 /\ k = ld + 1 /\ s[k] = j
    <3>1. d[i].id < j.id
      BY <1>3, <2>2, Zenon DEF Ordered
    <3> QED  BY <1>3, <2>2, <3>1, Zenon
  <2>3. CASE k - ld - x \in 1 .. lu /\ s[k] = u[k - ld - x]
    BY <1>3, <2>3, Zenon DEF Ordered, After
  <2> QED  BY <2>1, <2>2, <2>3, Zenon DEF Place
<1>4. CASE x = 1 /\ i = ld + 1 /\ s[i] = j
  <2>1. ~(k \in 1 .. ld) /\ k # ld + 1
    BY <1>2, <1>4
  <2>2. k - ld - x \in 1 .. lu /\ s[k] = u[k - ld - x]
    BY <2>1, Zenon DEF Place
  <2> QED  BY <1>4, <2>2, Zenon DEF Ordered, After
<1>5. CASE i - ld - x \in 1 .. lu /\ s[i] = u[i - ld - x]
  <2>1. ~(k \in 1 .. ld) /\ ~(x = 1 /\ k = ld + 1)
    BY <1>2, <1>5
  <2>2. k - ld - x \in 1 .. lu /\ s[k] = u[k - ld - x]
    BY <2>1, Zenon DEF Place
  <2>3. i - ld - x < k - ld - x
    BY <1>2
  <2>4. u[i - ld - x].id # NilId /\ u[k - ld - x].id # NilId
    BY <1>5, <2>2, ZenonT(40)
  <2>5. Upward(lu, u)
    BY Zenon DEF Ordered
  <2>6. u[i - ld - x].id < u[k - ld - x].id
    BY <1>5, <2>2, <2>3, <2>4, <2>5, Zenon DEF Upward
  <2> QED  BY <1>5, <2>2, <2>6, ZenonT(40)
<1> QED  BY <1>3, <1>4, <1>5, Zenon DEF Place

===========================================================================
