------------------------------ MODULE AuditChain ------------------------------
(***************************************************************************)
(* The audit log backends: the hash-chained table of SQLite, the plain     *)
(* table of PostgreSQL, and tracing, which emits entries and answers no    *)
(* queries.  An entry takes its timestamp when AuditEntry::new builds it   *)
(* and its place in the table when record gets a connection; the chain is  *)
(* linked and verified, and queries are sorted, in timestamp order.  A     *)
(* digest is the list of what was hashed into it, so two digests are equal *)
(* only if their inputs are.  Equal timestamps come out of the timestamp   *)
(* index in insertion order.                                               *)
(***************************************************************************)
EXTENDS Integers, FiniteSets, SequencesExt, TLC, AuditEvents

CONSTANTS
    Conn,     \* tasks that record
    EventId,  \* event ids still to be drawn
    Legacy,   \* event ids of rows written before the hash columns existed
    EventOf,  \* what each event id is about: [event, agent]
    MaxTime,  \* bound: the clock stops here
    Width     \* usize and i64 have this many bits (64 in the code)

ASSUME EventAssumption == EventId \cap Legacy = {}
ASSUME TimeAssumption == MaxTime \in Nat /\ Width \in Nat \ {0}
ASSUME EventOfAssumption ==
    \A id \in EventId \cup Legacy : EventOf[id].event.kind \in EventKinds

VARIABLES
    backend,  \* "sqlite", "postgres" or "tracing"; never changes
    now,      \* Utc::now()
    rows,     \* audit_events in insertion order
    pending   \* per task, the entry built and not yet inserted: {} or one

vars == <<backend, now, rows, pending>>

-----------------------------------------------------------------------------
Genesis == <<>>

EntryHash(prev, entry) == Append(prev, entry)

\* row numbers ORDER BY timestamp ASC
ByTimestamp ==
    SortSeq([i \in DOMAIN rows |-> i],
            LAMBDA i, j : \/ rows[i].entry.timestamp < rows[j].entry.timestamp
                          \/ /\ rows[i].entry.timestamp = rows[j].entry.timestamp
                             /\ i < j)

Hashed(row) == row.entry_hash # {}

\* rows WHERE entry_hash IS NOT NULL, in that order
Chained == SelectSeq(ByTimestamp, LAMBDA i : Hashed(rows[i]))

\* faulty: the chain is continued from the earliest entry
EarliestHash ==
    IF Chained = <<>> THEN Genesis
    ELSE CHOOSE h \in rows[Head(Chained)].entry_hash : TRUE

\* ... ORDER BY timestamp DESC LIMIT 1
PrevHash ==
    IF Chained = <<>> THEN Genesis
    ELSE CHOOSE h \in rows[Last(Chained)].entry_hash : TRUE

-----------------------------------------------------------------------------
NewEntry(c) ==
    /\ pending[c] = {}
    /\ \E id \in EventId :
         /\ \A i \in DOMAIN rows : rows[i].entry.event_id # id
         /\ \A d \in Conn : \A e \in pending[d] : e.event_id # id
         /\ pending' = [pending EXCEPT ![c] = {[event_id |-> id, timestamp |-> now]}]
    /\ UNCHANGED <<backend, now, rows>>

\* a row with its denormalized columns
NewRow(e, prev, hash) ==
    [entry |-> e, agent |-> EventOf[e.event_id].agent,
     secret_name |-> IndexedFields(EventOf[e.event_id].event).secret,
     lease_id |-> IndexedFields(EventOf[e.event_id].event).lease,
     prev_hash |-> prev, entry_hash |-> hash]

Inserted(c, row) ==
    /\ rows' = Append(rows, row)
    /\ pending' = [pending EXCEPT ![c] = {}]
    /\ UNCHANGED <<backend, now>>

\* under the connection mutex
Record(c) ==
    /\ backend = "sqlite"
    /\ \E e \in pending[c] :
         Inserted(c, NewRow(e, {PrevHash}, {EntryHash(PrevHash, e)}))

\* one INSERT on any connection of the pool
RecordPostgres(c) ==
    /\ backend = "postgres"
    /\ \E e \in pending[c] : Inserted(c, NewRow(e, {}, {}))

\* one event for the subscribers; rows is what they received
RecordTracing(c) ==
    /\ backend = "tracing"
    /\ \E e \in pending[c] : Inserted(c, NewRow(e, {}, {}))

\* the insert fails, or the process dies before it
RecordFails(c) ==
    /\ pending[c] # {}
    /\ pending' = [pending EXCEPT ![c] = {}]
    /\ UNCHANGED <<backend, now, rows>>

Tick ==
    /\ now < MaxTime
    /\ now' = now + 1
    /\ UNCHANGED <<backend, rows, pending>>

\* a new table, or one migrated from the schema without hashes
Init ==
    /\ backend \in {"sqlite", "postgres", "tracing"}
    /\ now = 1
    /\ rows \in {[i \in DOMAIN ids |->
                    NewRow([event_id |-> ids[i], timestamp |-> 0], {}, {})] :
                 ids \in {<<>>} \cup {SetToSeq(Legacy)}}
    /\ pending = [c \in Conn |-> {}]

Next ==
    \/ \E c \in Conn :
         \/ NewEntry(c) \/ RecordFails(c)
         \/ Record(c) \/ RecordPostgres(c) \/ RecordTracing(c)
    \/ Tick

Spec == Init /\ [][Next]_vars

-----------------------------------------------------------------------------
\* verify_audit_chain on the i-th row in timestamp order; a row without
\* hashes is skipped and restarts the chain
RowVerified(i) ==
    LET row == rows[ByTimestamp[i]]
        expected == IF i = 1 \/ ~Hashed(rows[ByTimestamp[i - 1]])
                    THEN {Genesis} ELSE rows[ByTimestamp[i - 1]].entry_hash IN
    Hashed(row) => /\ row.prev_hash = expected
                   /\ row.entry_hash = {EntryHash(p, row.entry) : p \in row.prev_hash}

\* AuditChainVerification::is_valid
IsValid == rows # <<>> /\ \A i \in DOMAIN rows : RowVerified(i)

-----------------------------------------------------------------------------
(* The queries: a set of at most one answer, empty for an error            *)

\* limit as i64
AsI64(limit) == IF limit < 2^(Width - 1) THEN limit ELSE limit - 2^Width

\* the rows WHERE ... ORDER BY timestamp DESC
NewestFirst(where) == Reverse(SelectSeq(ByTimestamp, LAMBDA i : i \in where))

Prefix(s, n) == SubSeq(s, 1, IF n < Len(s) THEN n ELSE Len(s))

\* faulty: the limit keeps the oldest
LimitedOldest(s, limit) ==
    IF AsI64(limit) >= 0 THEN {Reverse(Prefix(Reverse(s), AsI64(limit)))}
    ELSE IF backend = "sqlite" THEN {s} ELSE {}

\* a negative LIMIT is no limit in SQLite and an error in PostgreSQL
Limited(s, limit) ==
    IF AsI64(limit) >= 0 THEN {Prefix(s, AsI64(limit))}
    ELSE IF backend = "sqlite" THEN {s} ELSE {}

Supported(answer) == IF backend = "tracing" THEN {} ELSE answer

QueryByAgent(a, limit) ==
    Supported(Limited(NewestFirst({i \in DOMAIN rows : rows[i].agent = a}), limit))

QueryBySecret(n, limit) ==
    Supported(Limited(NewestFirst({i \in DOMAIN rows : rows[i].secret_name = {n}}), limit))

QueryByLease(l) ==
    Supported({NewestFirst({i \in DOMAIN rows : rows[i].lease_id = {l}})})

-----------------------------------------------------------------------------
InOrder ==
    \A i, j \in DOMAIN rows :
        i < j => rows[i].entry.timestamp <= rows[j].entry.timestamp

(* Whatever tasks record concurrently, and with rows from before the       *)
(* migration, verify_audit_chain accepts a log that nobody touched exactly *)
(* when its entries were inserted in the order of their timestamps: no     *)
(* false alarm otherwise, and none that later entries would silence.       *)
ValidExactlyInOrder ==
    backend = "sqlite" /\ rows # <<>> => (IsValid <=> InOrder)

Agents == {EventOf[id].agent : id \in EventId \cup Legacy}
SecretNames == UNION {Carried(EventOf[id].event).secret : id \in EventId \cup Legacy}
LeaseIds == UNION {Carried(EventOf[id].event).lease : id \in EventId \cup Legacy}
Limits == 0 .. 2^Width - 1

(* answer holds the newest of the rows in all, newest first, and as many   *)
(* as the limit allows.                                                    *)
Newest(answer, all, limit) ==
    /\ Len(answer) = IF limit < Cardinality(all) THEN limit ELSE Cardinality(all)
    /\ ToSet(answer) \subseteq all
    /\ \A i, j \in DOMAIN answer :
         i < j => /\ answer[i] # answer[j]
                  /\ rows[answer[i]].entry.timestamp >= rows[answer[j]].entry.timestamp
    /\ \A i \in ToSet(answer), j \in all \ ToSet(answer) :
         rows[i].entry.timestamp >= rows[j].entry.timestamp

(* A query that answers, answers with the most recent entries, however the *)
(* entries were inserted: those of the agent, and those whose event        *)
(* carries the secret (query_by_agent, query_by_secret, indexed_fields).   *)
(* In SQLite every limit is answered, also one that i64 cannot hold.       *)
QueriesAnswerNewest ==
    \A limit \in Limits :
       /\ \A a \in Agents :
            \A answer \in QueryByAgent(a, limit) :
               Newest(answer, {i \in DOMAIN rows :
                                 EventOf[rows[i].entry.event_id].agent = a}, limit)
       /\ \A n \in SecretNames :
            \A answer \in QueryBySecret(n, limit) :
               Newest(answer, {i \in DOMAIN rows :
                  n \in Carried(EventOf[rows[i].entry.event_id].event).secret}, limit)
       /\ backend = "sqlite" =>
            \A a \in Agents : QueryByAgent(a, limit) # {}

(* The trail of a lease is complete: whatever event about it has been      *)
(* recorded, in either table, query_by_lease returns it.                   *)
LeaseTrailComplete ==
    \A l \in LeaseIds : \A answer \in QueryByLease(l) :
       ToSet(answer) = {i \in DOMAIN rows :
          l \in Carried(EventOf[rows[i].entry.event_id].event).lease}
=============================================================================
