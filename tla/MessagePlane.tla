---------------------------- MODULE MessagePlane ----------------------------
(***************************************************************************)
(* The company message plane: the RPCs kernel_send_, kernel_claim_ and     *)
(* kernel_consume_company_message_v1 of ddl/062 as PostgreSQL runs them    *)
(* (READ COMMITTED, one transaction per call), and their callers in        *)
(* company_message_plane/client.py and kernel_plane_bridge.py.  A send     *)
(* looks its idempotency key up, reserves the recipient's next sequence    *)
(* number under that row's lock and commits with the insert.  A claim      *)
(* locks the first queued message that no other claim has locked.          *)
(***************************************************************************)
EXTENDS Naturals, FiniteSets

CONSTANTS
    Key,         \* (sender_role, idempotency_key) pairs
    Recipient,   \* recipient roles
    Sender,      \* clients that call send and retry it (dual_write_send)
    Bridge,      \* relays that claim and then consume (claim_kernel_events)
    RoleOf,      \* the RELAY_ROLE of each relay
    Roundtrip,   \* clients in handoff_roundtrip: send, claim, consume
    None,
    MaxLoss      \* connections that are lost during a call

Client == Sender \union Bridge \union Roundtrip

\* attempt is delivery_attempt_count; it also names the attempt's lease.
Message == [state: {"queued", "leased", "consumed"}, to: Recipient,
            seq: Nat \ {0}, attempt: 0 .. 5]

ASSUME ClientAssumption ==
    /\ Sender \cap Bridge = {} /\ Sender \cap Roundtrip = {}
    /\ Bridge \cap Roundtrip = {}
ASSUME RoleAssumption == RoleOf \in [Bridge -> Recipient]
ASSUME SentinelAssumption == None \notin Key \union Recipient \union Message
ASSUME BoundAssumption == MaxLoss \in Nat

VARIABLES
    message,  \* kernel_company_messages, by idempotency key
    last,     \* last_sequence of each recipient
    client,   \* the transaction or the call each client is in
    told,     \* history: the sequences that sends of a key returned
    given,    \* history: how often a claim returned a message to its caller
    receipt,  \* consumption receipts
    losses    \* history: how many connections were lost

vars == <<message, last, client, told, given, receipt, losses>>

\* A relay is inactive while get_cutover_state keeps it from claiming.
Pc == {"inactive", "idle", "reserve", "insert", "claim", "lock", "consume"}
Idle == [pc |-> "idle", key |-> None, to |-> None, sent |-> None,
         seq |-> 0, lease |-> 0]

In(k, s) == k \in Key /\ message[k] # None /\ message[k].state = s

TypeOK ==
    /\ message \in [Key -> Message \union {None}]
    /\ last \in [Recipient -> Nat]
    /\ client \in [Client -> [pc: Pc, key: Key \union {None},
                              to: Recipient \union {None},
                              sent: Key \union {None}, seq: Nat, lease: 0 .. 5]]
    /\ \A c \in Client : client[c].pc = "lock" => In(client[c].key, "queued")
    /\ \A c \in Client : client[c].pc = "consume" => In(client[c].key, "leased")
    /\ told \in [Key -> SUBSET (Nat \ {0})]
    /\ given \in [Key -> Nat]
    /\ receipt \in [Key -> 0 .. 5]
    /\ losses \in 0 .. MaxLoss

Init ==
    /\ message = [k \in Key |-> None]
    /\ last = [r \in Recipient |-> 0]
    /\ client = [c \in Client |->
           IF c \in Bridge THEN [Idle EXCEPT !.pc = "inactive"] ELSE Idle]
    /\ told = [k \in Key |-> {}]
    /\ given = [k \in Key |-> 0]
    /\ receipt = [k \in Key |-> 0]
    /\ losses = 0

-----------------------------------------------------------------------------
At(c, p) == client[c].pc = p
K(c) == client[c].key
R(c) == client[c].to

Accepted == {k \in Key : message[k] # None}

\* The recipient's sequence row is locked from the upsert to the commit.
SequenceLocked(r) == \E c \in Client : At(c, "insert") /\ R(c) = r

\* Rows that a claim's transaction has locked.
LockedBy(c) == {k \in Key : At(c, "lock") /\ K(c) = k}
Locked(k) == \E c \in Client : k \in LockedBy(c)

\* A send has returned: handoff_roundtrip goes on to claim.
SendReturns(c) ==
    client' = [client EXCEPT ![c] =
        IF c \in Roundtrip
        THEN [Idle EXCEPT !.pc = "claim", !.to = R(c), !.sent = K(c)]
        ELSE Idle]

Tell(k, n) == told' = [told EXCEPT ![k] = @ \union {n}]

-----------------------------------------------------------------------------
(* kernel_send_company_message_v1.                                         *)

\* The arguments of a call; nothing keeps a caller from sending a key again,
\* or from sending it to someone else.
Send(c, k, r) ==
    /\ c \in Sender \union Roundtrip /\ At(c, "idle")
    /\ message[k] = None
    /\ client' = [client EXCEPT ![c].pc = "reserve", ![c].key = k, ![c].to = r]
    /\ UNCHANGED <<message, last, told, given, receipt, losses>>

\* The key has a message: its stored sequence, status duplicate.
SendAgain(c, k, r) ==
    /\ c \in Sender \union Roundtrip /\ At(c, "idle")
    /\ message[k] # None
    /\ Tell(k, message[k].seq)
    /\ client' = [client EXCEPT ![c] =
           IF c \in Roundtrip
           THEN [Idle EXCEPT !.pc = "claim", !.to = r, !.sent = k]
           ELSE Idle]
    /\ UNCHANGED <<message, last, given, receipt, losses>>

\* Deviation: the sequence is read without keeping its row locked.
WrongReserve(c) ==
    /\ At(c, "reserve")
    /\ client' = [client EXCEPT ![c].pc = "insert", ![c].seq = last[R(c)] + 1]
    /\ UNCHANGED <<message, last, told, given, receipt, losses>>

Reserve(c) ==
    /\ At(c, "reserve") /\ ~SequenceLocked(R(c))
    /\ client' = [client EXCEPT ![c].pc = "insert", ![c].seq = last[R(c)] + 1]
    /\ UNCHANGED <<message, last, told, given, receipt, losses>>

\* UNIQUE (company_id, sender_role, idempotency_key)
Unique(k) == message[k] = None

\* The insert of the message and its receipt, and the commit.
InsertCommits(c) ==
    LET n == client[c].seq IN
    /\ At(c, "insert") /\ Unique(K(c))
    /\ message' = [message EXCEPT ![K(c)] =
           [state |-> "queued", to |-> R(c), seq |-> n, attempt |-> 0]]
    /\ last' = [last EXCEPT ![R(c)] = n]
    /\ \/ Tell(K(c), n) /\ SendReturns(c) /\ UNCHANGED losses
       \/ /\ losses < MaxLoss /\ losses' = losses + 1
          /\ client' = [client EXCEPT ![c] = Idle] /\ UNCHANGED told
    /\ UNCHANGED <<given, receipt>>

\* Another send with this key committed since the lookup: the unique
\* violation rolls the sequence back with the rest of the transaction.
InsertFails(c) ==
    /\ At(c, "insert") /\ ~Unique(K(c))
    /\ client' = [client EXCEPT ![c] = Idle]
    /\ UNCHANGED <<message, last, told, given, receipt, losses>>

-----------------------------------------------------------------------------
(* kernel_claim_company_message_v1.                                        *)

\* A relay asks get_cutover_state before it claims: the environment, the role's
\* row, or the mirror when the database is away.  The answer may be another
\* one than last time, and a claim may be refused to a role that was never
\* admitted.  dual_write_send asks for the sender or the recipient, so what is
\* sent to a role does not depend on what its relay finds.
FindCutover(c) ==
    /\ c \in Bridge
    /\ \/ At(c, "inactive") /\ client' = [client EXCEPT ![c].pc = "idle"]
       \/ At(c, "idle") /\ client' = [client EXCEPT ![c].pc = "inactive"]
    /\ UNCHANGED <<message, last, told, given, receipt, losses>>

ClaimantOf(c, r) ==
    \/ c \in Bridge /\ At(c, "idle") /\ RoleOf[c] = r
    \/ c \in Roundtrip /\ At(c, "claim") /\ R(c) = r

\* The queued messages for r that FOR UPDATE SKIP LOCKED does not pass over.
Claimable(r) ==
    {k \in Key : In(k, "queued") /\ message[k].to = r /\ ~Locked(k)}

\* Deviation: no order on the sequence.
WrongFirst(r) == Claimable(r)

First(r) ==
    {k \in Claimable(r) :
        \A j \in Claimable(r) : message[k].seq <= message[j].seq}

ClaimLocks(c, r) ==
    /\ ClaimantOf(c, r)
    /\ \E k \in First(r) :
           client' = [client EXCEPT ![c].pc = "lock", ![c].key = k, ![c].to = r]
    /\ UNCHANGED <<message, last, told, given, receipt, losses>>

\* Nothing to claim: the relay asks again later, handoff_roundtrip raises.
ClaimEmpty(c, r) ==
    /\ c \in Roundtrip /\ ClaimantOf(c, r) /\ Claimable(r) = {}
    /\ client' = [client EXCEPT ![c] = Idle]
    /\ UNCHANGED <<message, last, told, given, receipt, losses>>

\* The attempt, the lease and the commit.  handoff_roundtrip gives up with an
\* error, and without consuming, if it was given another message than it sent.
ClaimCommits(c) ==
    LET k == K(c)  n == message[k].attempt + 1 IN
    /\ At(c, "lock") /\ n <= 5
    /\ message' = [message EXCEPT ![k].state = "leased", ![k].attempt = n]
    /\ \/ /\ given' = [given EXCEPT ![k] = @ + 1]
          /\ client' = [client EXCEPT ![c] =
                 IF c \in Bridge \/ client[c].sent = k
                 THEN [Idle EXCEPT !.pc = "consume", !.key = k, !.to = R(c),
                                   !.lease = n]
                 ELSE Idle]
          /\ UNCHANGED losses
       \/ /\ losses < MaxLoss /\ losses' = losses + 1
          /\ client' = [client EXCEPT ![c] = Idle] /\ UNCHANGED given
    /\ UNCHANGED <<last, told, receipt>>

-----------------------------------------------------------------------------
(* kernel_consume_company_message_v1.                                      *)

\* Deviation: the lease is compared with the number of earlier attempts.
WrongConsumes(c) ==
    /\ At(c, "consume")
    /\ In(K(c), "leased") /\ message[K(c)].attempt = client[c].lease - 1
    /\ message' = [message EXCEPT ![K(c)].state = "consumed"]
    /\ receipt' = [receipt EXCEPT ![K(c)] = client[c].lease]
    /\ client' = [client EXCEPT ![c] = Idle]
    /\ UNCHANGED <<last, told, given, losses>>

Consumes(c) ==
    /\ At(c, "consume")
    /\ In(K(c), "leased") /\ message[K(c)].attempt = client[c].lease
    /\ message' = [message EXCEPT ![K(c)].state = "consumed"]
    /\ receipt' = [receipt EXCEPT ![K(c)] = client[c].lease]
    /\ client' = [client EXCEPT ![c] = Idle]
    /\ UNCHANGED <<last, told, given, losses>>

\* The connection is lost before the commit: the transaction is rolled back
\* and the caller sees an exception, which the bridge swallows.
Loss(c) ==
    /\ ~At(c, "idle") /\ ~At(c, "inactive") /\ losses < MaxLoss
    /\ losses' = losses + 1
    /\ client' = [client EXCEPT ![c] = Idle]
    /\ UNCHANGED <<message, last, told, given, receipt>>

Call(c) ==
    \/ Reserve(c) \/ InsertCommits(c) \/ InsertFails(c)
    \/ ClaimCommits(c) \/ Consumes(c)
    \/ \E r \in Recipient : ClaimLocks(c, r) \/ ClaimEmpty(c, r)

Next ==
    \E c \in Client :
        \/ \E k \in Key, r \in Recipient : Send(c, k, r) \/ SendAgain(c, k, r)
        \/ FindCutover(c) \/ Call(c) \/ Loss(c)

Spec == Init /\ [][Next]_vars

\* Calls return, and claim_kernel_events runs again: a relay that goes on
\* finding that it may claim, does.  Nothing says what it finds.
FairSpec == Spec /\ \A c \in Client : WF_vars(Call(c))

-----------------------------------------------------------------------------
(* Properties.                                                             *)

Sequences(r) == {message[k].seq : k \in {j \in Accepted : message[j].to = r}}

\* The sequences of a recipient's committed messages are 1..last_sequence,
\* each used once, whatever sends race for a key or the sequence row and
\* whichever of them are rolled back.
SequencesAreGapless ==
    \A r \in Recipient :
        /\ Sequences(r) = 1 .. last[r]
        /\ Cardinality({k \in Accepted : message[k].to = r}) = last[r]

\* Whatever retries and races a key meets, all the answers its senders got
\* name the one message that the plane keeps for it.
AnswersNameOneMessage ==
    \A k \in Key : \A n \in told[k] : message[k] # None /\ message[k].seq = n

\* A message is returned to at most one claimant, and is consumed under the
\* attempt that was returned.
DeliveredOnce ==
    \A k \in Key :
        /\ given[k] <= 1
        /\ In(k, "consumed") => given[k] = 1 /\ receipt[k] = message[k].attempt

\* As long as no connection is lost, a message is leased only when every
\* earlier message of its recipient is leased, consumed or locked by another
\* claim: SKIP LOCKED passes over nothing else.
ClaimedInOrder ==
    [][\A k \in Key : losses = 0 /\ In(k, "queued") /\ In(k, "leased")' =>
           \A j \in Key :
               /\ In(j, "queued") /\ message[j].to = message[k].to
               /\ message[j].seq < message[k].seq
               => Locked(j)]_vars

\* The claimant of a leased message is gone: its connection was lost, or it
\* was a handoff_roundtrip that had sent another one (under a key used before
\* even to somebody else).  No RPC looks at the expiry of a lease.
Abandoned(k) ==
    /\ In(k, "leased") /\ ~\E c \in Client : At(c, "consume") /\ K(c) = k
    /\ \/ losses > 0
       \/ Roundtrip # {} /\ Accepted # {k}

\* A queued message that no relay may claim: dual_write_send put it there for
\* its sender's cutover, or before its role was rolled back.
Unclaimed(k) ==
    /\ In(k, "queued")
    /\ \A c \in Bridge : RoleOf[c] = message[k].to => At(c, "inactive")

\* No accepted message stays in the queue of a role whose relay goes on finding
\* that it may claim, and it ends consumed unless its claimant is lost or takes
\* it for another one: nothing else, no race and no retry, leaves a lease open.
ConsumedOrAbandoned ==
    \A k \in Key :
        In(k, "queued") ~> In(k, "consumed") \/ Abandoned(k) \/ Unclaimed(k)
=============================================================================
