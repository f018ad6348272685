---------------------------- MODULE StoreContract ----------------------------
(***************************************************************************)
(* What the SecretStore trait promises its callers: a name is put once, an *)
(* update replaces the value, adds one to the version and keeps the kind,  *)
(* and a batch writes what it was asked to: at once where the backend has  *)
(* transactions, elsewhere name by name until one fails.  A client stands  *)
(* for the values it writes.                                               *)
(***************************************************************************)
EXTENDS Naturals

CONSTANTS Name, Client, Kind

VARIABLES
    transactional,  \* whether the backend has transactions; never changes
    asked,          \* per client, the names its batch has still to write
    secrets         \* an option of [value, version, kind] per name

vars == <<transactional, asked, secrets>>

Init ==
    /\ transactional \in BOOLEAN
    /\ asked = [c \in Client |-> {}]
    /\ secrets \in [Name -> {{}} \cup {{[value |-> v, version |-> 1, kind |-> k]} :
                                         v \in Client, k \in Kind}]

Put(c, n) ==
    /\ UNCHANGED <<transactional, asked>>
    /\ secrets[n] = {}
    /\ \E k \in Kind :
         secrets' = [secrets EXCEPT ![n] =
                        {[value |-> c, version |-> 1, kind |-> k]}]

Updated(s, c) == [value |-> c, version |-> s.version + 1, kind |-> s.kind]

Updates(names, c) ==
    /\ \A n \in names : secrets[n] # {}
    /\ secrets' = [n \in Name |-> IF n \in names
                                  THEN {Updated(s, c) : s \in secrets[n]}
                                  ELSE secrets[n]]

Update(c, n) ==
    /\ UNCHANGED <<transactional, asked>>
    /\ asked[c] = {}
    /\ Updates({n}, c)

(* batch_update                                                            *)
Ask(c, names) ==
    /\ asked[c] = {}
    /\ asked' = [asked EXCEPT ![c] = names]
    /\ UNCHANGED <<transactional, secrets>>

WriteAll(c) ==
    /\ transactional /\ UNCHANGED transactional
    /\ asked' = [asked EXCEPT ![c] = {}]
    /\ Updates(asked[c], c)

WriteOne(c, n) ==
    /\ ~transactional /\ UNCHANGED transactional
    /\ n \in asked[c]
    /\ asked' = [asked EXCEPT ![c] = @ \ {n}]
    /\ Updates({n}, c)

Fail(c) ==
    /\ asked' = [asked EXCEPT ![c] = {}]
    /\ UNCHANGED <<transactional, secrets>>

Delete(n) ==
    /\ UNCHANGED <<transactional, asked>>
    /\ secrets[n] # {}
    /\ secrets' = [secrets EXCEPT ![n] = {}]

Next ==
    \/ \E c \in Client :
         \/ Fail(c) \/ WriteAll(c)
         \/ \E names \in SUBSET Name : Ask(c, names)
         \/ \E n \in Name : WriteOne(c, n) \/ Update(c, n) \/ Put(c, n)
    \/ \E n \in Name : Delete(n)

Spec == Init /\ [][Next]_vars

(* No step of the promise: a write without transactions that takes version *)
(* and kind from elsewhere, of a name that was asked for.                  *)
Overwrite(c, n) ==
    /\ ~transactional
    /\ n \in asked[c] /\ secrets[n] # {}
    /\ \A m \in Name : m # n => secrets'[m] = secrets[m]
    /\ secrets'[n] # {} /\ \A s \in secrets'[n] : s.value = c
    /\ asked' = [asked EXCEPT ![c] = @ \ {n}]
    /\ UNCHANGED transactional
=============================================================================
