---------------------------- MODULE QueuesProofs ----------------------------
(***************************************************************************)
(* Proofs about the two ways to a role of MCQueues: the message plane for  *)
(* any number of keys, recipients, clients and lost connections, and the   *)
(* queue file for any number of rows, windows, drains, crashes, raised     *)
(* handlers and rotations.                                                 *)
(***************************************************************************)
EXTENDS MCQueues, FiniteSetTheorems, SequenceTheorems, TLAPS

-----------------------------------------------------------------------------
(* The message plane.                                                      *)

ClientRow == [pc: Pc, key: Key \union {None}, to: Recipient \union {None},
              sent: Key \union {None}, seq: Nat, lease: 0 .. 5]

\* What a client in a transaction relies on.  The sequence it has reserved is
\* still the next one, what it has locked is still queued, and what it may
\* consume is leased to it.
RowOK(u) ==
    /\ u.pc \in {"reserve", "insert"} => u.key \in Key /\ u.to \in Recipient
    /\ u.pc = "insert" => u.seq = last[u.to] + 1
    /\ u.pc = "lock" => In(u.key, "queued")
    /\ u.pc = "consume" =>
          In(u.key, "leased") /\ given[u.key] = 1 /\ message[u.key].attempt = u.lease

\* Row locks: no two transactions hold one sequence or one message.
Apart(u, v) ==
    /\ u.pc = "insert" /\ v.pc = "insert" => u.to # v.to
    /\ u.pc = "lock" /\ v.pc = "lock" => u.key # v.key
    /\ u.pc = "consume" /\ v.pc = "consume" => u.key # v.key

Inbound(r) == {k \in Accepted : message[k].to = r}

\* The messages to r are numbered 1..last_sequence, and are that many.
Numbered(r) ==
    /\ \A k \in Inbound(r) : message[k].seq \in 1 .. last[r]
    /\ \A n \in 1 .. last[r] : \E k \in Inbound(r) : message[k].seq = n
    /\ IsFiniteSet(Inbound(r)) /\ Cardinality(Inbound(r)) = last[r]

\* A message is given to nobody before it is leased, and to one by its lease.
GivenOnce(k) ==
    /\ message[k] = None \/ In(k, "queued") => given[k] = 0
    /\ given[k] <= 1
    /\ In(k, "consumed") => given[k] = 1 /\ receipt[k] = message[k].attempt

\* Without a lost connection, whatever is queued before a locked message is
\* locked too.
Overtakes(u) ==
    \A j \in Key :
        /\ In(j, "queued") /\ message[j].to = message[u.key].to
        /\ message[j].seq < message[u.key].seq
        => Locked(j)

Clients ==
    /\ \A c \in Client : RowOK(client[c])
    /\ \A c, d \in Client : c # d => Apart(client[c], client[d])

InOrder == losses = 0 => \A c \in Client : At(c, "lock") => Overtakes(client[c])

PlaneInv ==
    /\ TypeOK /\ Clients
    /\ \A r \in Recipient : Numbered(r)
    /\ \A k \in Key : GivenOnce(k)
    /\ AnswersNameOneMessage
    /\ InOrder

\* A step of one client's transaction leaves those of the others alone.
LEMMA ClientMoves ==
    ASSUME client \in [Client -> ClientRow], NEW c \in Client, NEW u \in ClientRow,
           client' = [client EXCEPT ![c] = u]
    PROVE  /\ client' \in [Client -> ClientRow] /\ client'[c] = u
           /\ \A d \in Client : d # c => client'[d] = client[d]
  OBVIOUS

\* The transactions stay apart when one of them moves on, if what it does is
\* nothing to those that hold other rows.
LEMMA ClientsStay ==
    ASSUME client \in [Client -> ClientRow], Clients, NEW c \in Client,
           NEW u \in ClientRow, client' = [client EXCEPT ![c] = u],
           RowOK(u)',
           \A v \in ClientRow : RowOK(v) /\ Apart(client[c], v) => RowOK(v)',
           \A d \in Client : d # c => Apart(u, client[d])
    PROVE  client' \in [Client -> ClientRow] /\ Clients'
  <1>1. /\ client' \in [Client -> ClientRow] /\ client'[c] = u
        /\ \A d \in Client : d # c => client'[d] = client[d]
    BY ClientMoves
  <1>2. \A d \in Client : RowOK(client[d])'
    <2> SUFFICES ASSUME NEW d \in Client PROVE RowOK(client[d])' OBVIOUS
    <2>1. CASE d = c
      <3>1. client'[d] = u BY <1>1, <2>1
      <3> QED BY <3>1 DEF RowOK, In
    <2>2. CASE d # c
      <3>1. client'[d] = client[d] BY <1>1, <2>2
      <3>2. PICK v \in ClientRow : v = client[d] OBVIOUS
      <3>3. RowOK(v) /\ Apart(client[c], v) BY <3>2, <2>2 DEF Clients
      <3>4. RowOK(v)' BY <3>3
      <3> QED BY <3>1, <3>2, <3>4 DEF RowOK, In
    <2> QED BY <2>1, <2>2
  <1>3. \A d, e \in Client : d # e => Apart(client'[d], client'[e])
    BY <1>1 DEF Clients, Apart
  <1> QED BY <1>1, <1>2, <1>3 DEF Clients, Apart

\* The part of a client's type that follows from what it relies on.
LEMMA ClientTypes ==
    /\ TypeOK => client \in [Client -> ClientRow]
    /\ Clients => \A c \in Client :
          /\ client[c].pc = "lock" => In(client[c].key, "queued")
          /\ client[c].pc = "consume" => In(client[c].key, "leased")
  BY DEF TypeOK, ClientRow, Clients, RowOK

LEMMA IdleClient ==
    /\ Idle \in ClientRow /\ Idle.pc = "idle"
    /\ \A v \in ClientRow : Apart(Idle, v)
    /\ RowOK(Idle)'
  BY DEF Idle, ClientRow, Pc, Apart, RowOK

\* Steps that touch no message.
Quiet == UNCHANGED <<message, last, given, receipt>>

LEMMA QuietSteps ==
    ASSUME PlaneInv, Quiet
    PROVE  /\ \A v \in ClientRow : RowOK(v) => RowOK(v)'
           /\ \A r \in Recipient : Numbered(r)'
           /\ \A k \in Key : GivenOnce(k)'
  <1>1. \A v \in ClientRow : RowOK(v) => RowOK(v)' BY DEF Quiet, RowOK, In
  <1>2. \A r \in Recipient : Numbered(r)' 
    <2> SUFFICES ASSUME NEW r \in Recipient PROVE Numbered(r)' OBVIOUS
    <2>1. Numbered(r) BY DEF PlaneInv
    <2>2. Inbound(r)' = Inbound(r) BY DEF Quiet, Inbound, Accepted
    <2> QED BY <2>1, <2>2 DEF Quiet, Numbered
  <1>3. \A k \in Key : GivenOnce(k)' BY DEF PlaneInv, Quiet, GivenOnce, In
  <1> QED BY <1>1, <1>2, <1>3

\* The order of claims stays, when a client moves that neither was nor is in a
\* claim.
LEMMA OrderStays ==
    ASSUME PlaneInv, NEW c \in Client, NEW u \in ClientRow,
           client' = [client EXCEPT ![c] = u],
           client[c].pc = "lock" => losses' # 0, u.pc # "lock",
           losses' = 0 => losses = 0, UNCHANGED message
    PROVE  InOrder'
  <1>1. client \in [Client -> ClientRow] BY ClientTypes DEF PlaneInv
  <1>2. /\ client'[c] = u
        /\ \A d \in Client : d # c => client'[d] = client[d]
    BY <1>1, ClientMoves
  <1> SUFFICES ASSUME losses' = 0, NEW d \in Client, client'[d].pc = "lock",
                      NEW j \in Key, In(j, "queued"),
                      message[j].to = message[client'[d].key].to,
                      message[j].seq < message[client'[d].key].seq
               PROVE  Locked(j)'
    BY DEF InOrder, Overtakes, In, At
  <1>3. d # c /\ client'[d] = client[d] BY <1>2
  <1>4. Overtakes(client[d]) BY <1>3 DEF PlaneInv, InOrder, At
  <1>5. Locked(j) BY <1>3, <1>4 DEF Overtakes
  <1>6. PICK e \in Client : At(e, "lock") /\ K(e) = j BY <1>5 DEF Locked, LockedBy
  <1>7. e # c BY <1>6 DEF At
  <1>8. client'[e].pc = "lock" /\ client'[e].key = j BY <1>2, <1>6, <1>7 DEF At, K
  <1> QED BY <1>8 DEF Locked, LockedBy, At, K

\* A step of one transaction that touches no message.
LEMMA QuietMove ==
    ASSUME PlaneInv, Quiet, NEW c \in Client, NEW u \in ClientRow,
           client' = [client EXCEPT ![c] = u], RowOK(u),
           \A d \in Client : d # c => Apart(u, client[d]),
           told' \in [Key -> SUBSET (Nat \ {0})], AnswersNameOneMessage',
           losses' \in 0 .. MaxLoss, InOrder'
    PROVE  PlaneInv'
  <1>1. client \in [Client -> ClientRow] BY ClientTypes DEF PlaneInv
  <1>2. /\ \A v \in ClientRow : RowOK(v) => RowOK(v)'
        /\ \A r \in Recipient : Numbered(r)'
        /\ \A k \in Key : GivenOnce(k)'
    BY QuietSteps
  <1>3. client' \in [Client -> ClientRow] /\ Clients'
    <2>1. Clients BY DEF PlaneInv
    <2>2. RowOK(u)' BY <1>2
    <2>3. \A v \in ClientRow : RowOK(v) /\ Apart(client[c], v) => RowOK(v)' BY <1>2
    <2> QED BY <1>1, <2>1, <2>2, <2>3, ClientsStay
  <1>4. TypeOK'
    <2>1. TypeOK BY DEF PlaneInv
    <2>2. /\ (\A d \in Client : client[d].pc = "lock" => In(client[d].key, "queued"))'
          /\ (\A d \in Client : client[d].pc = "consume" => In(client[d].key, "leased"))'
      BY <1>3 DEF Clients, RowOK, In
    <2> QED BY <2>1, <2>2, <1>3 DEF TypeOK, Quiet, ClientRow
  <1> QED BY <1>2, <1>3, <1>4 DEF PlaneInv

\* A client that ends its call.
LEMMA CallEnds ==
    ASSUME PlaneInv, Quiet, NEW c \in Client,
           client' = [client EXCEPT ![c] = Idle], UNCHANGED told,
           losses' \in 0 .. MaxLoss, losses' = 0 => losses = 0,
           client[c].pc = "lock" => losses' # 0
    PROVE  PlaneInv'
  <1>1. client \in [Client -> ClientRow] BY ClientTypes DEF PlaneInv
  <1>2. Idle \in ClientRow /\ Idle.pc # "lock" BY IdleClient
  <1>3. RowOK(Idle) BY DEF RowOK, Idle
  <1>4. \A d \in Client : d # c => Apart(Idle, client[d]) BY <1>1, IdleClient
  <1>5. told' \in [Key -> SUBSET (Nat \ {0})] BY DEF PlaneInv, TypeOK
  <1>6. AnswersNameOneMessage' BY DEF PlaneInv, Quiet, AnswersNameOneMessage
  <1>7. InOrder'
    <2>1. UNCHANGED message BY DEF Quiet
    <2> QED BY <1>2, <2>1, OrderStays
  <1> QED BY <1>2, <1>3, <1>4, <1>5, <1>6, <1>7, QuietMove

LEMMA LossStep ==
    ASSUME PlaneInv, NEW c \in Client, Loss(c) PROVE PlaneInv'
  <1>1. losses \in Nat /\ MaxLoss \in Nat BY BoundAssumption DEF PlaneInv, TypeOK
  <1>2. losses' \in 0 .. MaxLoss /\ losses' # 0 BY <1>1 DEF Loss
  <1>3. Quiet BY DEF Loss, Quiet
  <1>4. client' = [client EXCEPT ![c] = Idle] /\ UNCHANGED told BY DEF Loss
  <1> QED BY <1>2, <1>3, <1>4, CallEnds

LEMMA InsertFailsStep ==
    ASSUME PlaneInv, NEW c \in Client, InsertFails(c) \/ \E r \in Recipient : ClaimEmpty(c, r)
    PROVE  PlaneInv'
  <1>1. losses \in 0 .. MaxLoss BY DEF PlaneInv, TypeOK
  <1>2. client[c].pc # "lock" /\ UNCHANGED <<told, losses>>
    <2>1. CASE InsertFails(c) BY <2>1 DEF InsertFails, At
    <2>2. ASSUME NEW r \in Recipient, ClaimEmpty(c, r)
          PROVE  client[c].pc # "lock" /\ UNCHANGED <<told, losses>>
      BY <2>2 DEF ClaimEmpty, ClaimantOf, At
    <2> QED BY <2>1, <2>2
  <1>3. Quiet BY DEF InsertFails, ClaimEmpty, Quiet
  <1>4. client' = [client EXCEPT ![c] = Idle] BY DEF InsertFails, ClaimEmpty
  <1> QED BY <1>1, <1>2, <1>3, <1>4, CallEnds

LEMMA SendStep ==
    ASSUME PlaneInv, NEW c \in Client, NEW k \in Key, NEW r \in Recipient,
           Send(c, k, r)
    PROVE  PlaneInv'
  <1>1. client \in [Client -> ClientRow] BY ClientTypes DEF PlaneInv
  <1> DEFINE u == [client[c] EXCEPT !.pc = "reserve", !.key = k, !.to = r]
  <1>2. u \in ClientRow /\ u.pc = "reserve" /\ u.key = k /\ u.to = r
    BY <1>1 DEF ClientRow, Pc
  <1>3. client' = [client EXCEPT ![c] = u] BY <1>1 DEF Send
  <1>4. client[c].pc = "idle" BY DEF Send, At
  <1> HIDE DEF u
  <1>5. RowOK(u) BY <1>2 DEF RowOK
  <1>6. \A d \in Client : d # c => Apart(u, client[d]) BY <1>2 DEF Apart
  <1>7. Quiet /\ UNCHANGED <<told, losses>> BY DEF Send, Quiet
  <1>8. told' \in [Key -> SUBSET (Nat \ {0})] /\ losses' \in 0 .. MaxLoss
    BY <1>7 DEF PlaneInv, TypeOK
  <1>9. AnswersNameOneMessage' BY <1>7 DEF PlaneInv, Quiet, AnswersNameOneMessage
  <1>10. InOrder'
    <2>1. UNCHANGED message BY <1>7 DEF Quiet
    <2>2. u.pc # "lock" /\ client[c].pc # "lock" BY <1>2, <1>4
    <2> QED BY <1>2, <1>3, <1>7, <2>1, <2>2, OrderStays
  <1> QED BY <1>2, <1>3, <1>5, <1>6, <1>7, <1>8, <1>9, <1>10, QuietMove

LEMMA FindCutoverStep ==
    ASSUME PlaneInv, NEW c \in Client, FindCutover(c) PROVE PlaneInv'
  <1>1. client \in [Client -> ClientRow] BY ClientTypes DEF PlaneInv
  <1>2. PICK p \in {"inactive", "idle"} : client' = [client EXCEPT ![c].pc = p]
    BY DEF FindCutover
  <1> DEFINE u == [client[c] EXCEPT !.pc = p]
  <1>3. u \in ClientRow /\ u.pc = p BY <1>1, <1>2 DEF ClientRow, Pc
  <1>4. client' = [client EXCEPT ![c] = u] BY <1>1, <1>2
  <1>5. client[c].pc # "lock" BY DEF FindCutover, At
  <1> HIDE DEF u
  <1>6. RowOK(u) BY <1>2, <1>3 DEF RowOK
  <1>7. \A d \in Client : d # c => Apart(u, client[d]) BY <1>2, <1>3 DEF Apart
  <1>8. Quiet /\ UNCHANGED <<told, losses>> BY DEF FindCutover, Quiet
  <1>9. told' \in [Key -> SUBSET (Nat \ {0})] /\ losses' \in 0 .. MaxLoss
    BY <1>8 DEF PlaneInv, TypeOK
  <1>10. AnswersNameOneMessage' BY <1>8 DEF PlaneInv, Quiet, AnswersNameOneMessage
  <1>11. InOrder'
    <2>1. UNCHANGED message BY <1>8 DEF Quiet
    <2>2. u.pc # "lock" BY <1>2, <1>3
    <2> QED BY <1>3, <1>4, <1>5, <1>8, <2>1, <2>2, OrderStays
  <1> QED BY <1>3, <1>4, <1>6, <1>7, <1>8, <1>9, <1>10, <1>11, QuietMove

LEMMA SendAgainStep ==
    ASSUME PlaneInv, NEW c \in Client, NEW k \in Key, NEW r \in Recipient,
           SendAgain(c, k, r)
    PROVE  PlaneInv'
  <1>1. client \in [Client -> ClientRow] BY ClientTypes DEF PlaneInv
  <1> DEFINE u == IF c \in Roundtrip
                  THEN [Idle EXCEPT !.pc = "claim", !.to = r, !.sent = k]
                  ELSE Idle
  <1>2. u \in ClientRow /\ u.pc \in {"claim", "idle"}
    <2>1. CASE c \in Roundtrip
      <3>1. u = [pc |-> "claim", key |-> None, to |-> r, sent |-> k,
                 seq |-> 0, lease |-> 0]
        BY <2>1 DEF Idle
      <3> HIDE DEF u
      <3> QED BY <3>1 DEF ClientRow, Pc
    <2>2. CASE c \notin Roundtrip
      <3>1. u = Idle BY <2>2
      <3> HIDE DEF u
      <3> QED BY <3>1, IdleClient
    <2> QED BY <2>1, <2>2
  <1>3. client' = [client EXCEPT ![c] = u] BY DEF SendAgain
  <1>4. client[c].pc = "idle" BY DEF SendAgain, At
  <1> HIDE DEF u
  <1>5. RowOK(u) BY <1>2 DEF RowOK
  <1>6. \A d \in Client : d # c => Apart(u, client[d]) BY <1>2 DEF Apart
  <1>7. Quiet /\ UNCHANGED losses BY DEF SendAgain, Quiet
  <1>8. message[k] # None /\ message[k].seq \in Nat \ {0}
    BY DEF SendAgain, PlaneInv, TypeOK, Message
  <1>9. told' = [told EXCEPT ![k] = @ \union {message[k].seq}] BY DEF SendAgain, Tell
  <1>10. told' \in [Key -> SUBSET (Nat \ {0})] /\ losses' \in 0 .. MaxLoss
    BY <1>7, <1>8, <1>9 DEF PlaneInv, TypeOK
  <1>11. AnswersNameOneMessage'
    <2>1. told \in [Key -> SUBSET (Nat \ {0})] /\ message' = message
      BY <1>7 DEF PlaneInv, TypeOK, Quiet
    <2>2. AnswersNameOneMessage BY DEF PlaneInv
    <2>3. \A j \in Key : \A n \in told'[j] : n \in told[j] \/ (j = k /\ n = message[k].seq)
      BY <2>1, <1>9
    <2> QED BY <2>1, <2>2, <2>3, <1>8 DEF AnswersNameOneMessage
  <1>12. InOrder'
    <2>1. UNCHANGED message BY <1>7 DEF Quiet
    <2>2. u.pc # "lock" /\ client[c].pc # "lock" BY <1>2, <1>4
    <2> QED BY <1>2, <1>3, <1>7, <2>1, <2>2, OrderStays
  <1> QED BY <1>2, <1>3, <1>5, <1>6, <1>7, <1>10, <1>11, <1>12, QuietMove

LEMMA ReserveStep ==
    ASSUME PlaneInv, NEW c \in Client, Reserve(c) PROVE PlaneInv'
  <1>1. client \in [Client -> ClientRow] BY ClientTypes DEF PlaneInv
  <1>0. RowOK(client[c]) /\ client[c].pc = "reserve" BY DEF PlaneInv, Clients, Reserve, At
  <1>4. client[c].key \in Key /\ client[c].to \in Recipient BY <1>0 DEF RowOK
  <1> DEFINE u == [client[c] EXCEPT !.pc = "insert", !.seq = last[R(c)] + 1]
  <1>2. /\ u \in ClientRow /\ u.pc = "insert" /\ u.key = client[c].key
        /\ u.to = client[c].to /\ u.seq = last[client[c].to] + 1
    <2>1. last[client[c].to] \in Nat BY <1>4 DEF PlaneInv, TypeOK
    <2>2. PICK n \in Nat : n = last[R(c)] + 1 BY <2>1 DEF R
    <2>3. u = [client[c] EXCEPT !.pc = "insert", !.seq = n] BY <2>2
    <2> HIDE DEF u
    <2> QED BY <1>1, <2>2, <2>3 DEF ClientRow, Pc, R
  <1>3. client' = [client EXCEPT ![c] = u] BY <1>1 DEF Reserve
  <1> HIDE DEF u
  <1>5. RowOK(u) BY <1>2, <1>4 DEF RowOK
  <1>6. \A d \in Client : d # c => Apart(u, client[d])
    <2> SUFFICES ASSUME NEW d \in Client PROVE Apart(u, client[d]) OBVIOUS
    <2>1. ~(client[d].pc = "insert" /\ client[d].to = client[c].to)
      BY DEF Reserve, SequenceLocked, At, R
    <2> QED BY <1>2, <2>1 DEF Apart
  <1>7. Quiet /\ UNCHANGED <<told, losses>> BY DEF Reserve, Quiet
  <1>8. told' \in [Key -> SUBSET (Nat \ {0})] /\ losses' \in 0 .. MaxLoss
    BY <1>7 DEF PlaneInv, TypeOK
  <1>9. AnswersNameOneMessage' BY <1>7 DEF PlaneInv, Quiet, AnswersNameOneMessage
  <1>10. InOrder'
    <2>1. UNCHANGED message BY <1>7 DEF Quiet
    <2>2. u.pc # "lock" /\ client[c].pc # "lock" BY <1>2, <1>0
    <2> QED BY <1>2, <1>3, <1>7, <2>1, <2>2, OrderStays
  <1> QED BY <1>2, <1>3, <1>5, <1>6, <1>7, <1>8, <1>9, <1>10, QuietMove

\* FOR UPDATE SKIP LOCKED LIMIT 1 in the order of the sequence.
LEMMA ClaimLocksStep ==
    ASSUME PlaneInv, NEW c \in Client, NEW r \in Recipient, ClaimLocks(c, r)
    PROVE  PlaneInv'
  <1>1. client \in [Client -> ClientRow] BY ClientTypes DEF PlaneInv
  <1>2. PICK k \in First(r) :
            client' = [client EXCEPT ![c].pc = "lock", ![c].key = k, ![c].to = r]
    BY DEF ClaimLocks
  <1>3. /\ k \in Key /\ In(k, "queued") /\ message[k].to = r /\ ~Locked(k)
        /\ k \in Claimable(r)
        /\ \A j \in Claimable(r) : message[k].seq <= message[j].seq
    BY DEF First, Claimable
  <1>4. client[c].pc \in {"idle", "claim"} BY DEF ClaimLocks, ClaimantOf, At
  <1> DEFINE u == [client[c] EXCEPT !.pc = "lock", !.key = k, !.to = r]
  <1>5. u \in ClientRow /\ u.pc = "lock" /\ u.key = k
    BY <1>1, <1>3 DEF ClientRow, Pc
  <1>6. client' = [client EXCEPT ![c] = u] BY <1>1, <1>2
  <1> HIDE DEF u
  <1>7. RowOK(u) BY <1>3, <1>5 DEF RowOK
  <1>8. \A d \in Client : d # c => Apart(u, client[d])
    <2> SUFFICES ASSUME NEW d \in Client PROVE Apart(u, client[d]) OBVIOUS
    <2>1. ~(client[d].pc = "lock" /\ client[d].key = k)
      BY <1>3 DEF Locked, LockedBy, At, K
    <2> QED BY <1>5, <2>1 DEF Apart
  <1>9. Quiet /\ UNCHANGED <<told, losses>> BY DEF ClaimLocks, Quiet
  <1>10. told' \in [Key -> SUBSET (Nat \ {0})] /\ losses' \in 0 .. MaxLoss
    BY <1>9 DEF PlaneInv, TypeOK
  <1>11. AnswersNameOneMessage' BY <1>9 DEF PlaneInv, Quiet, AnswersNameOneMessage
  <1>12. InOrder'
    <2>1. /\ client'[c] = u
          /\ \A d \in Client : d # c => client'[d] = client[d]
      BY <1>1, <1>5, <1>6, ClientMoves
    <2>2. message' = message /\ losses' = losses BY <1>9 DEF Quiet
    <2> SUFFICES ASSUME losses = 0, NEW d \in Client, client'[d].pc = "lock",
                        NEW j \in Key, In(j, "queued"),
                        message[j].to = message[client'[d].key].to,
                        message[j].seq < message[client'[d].key].seq
                 PROVE  Locked(j)'
      BY <2>2 DEF InOrder, Overtakes, In, At
    <2>3. Locked(j)
      <3>1. CASE d = c
        <4>1. message[j].to = r /\ message[j].seq < message[k].seq
          BY <1>3, <1>5, <2>1, <3>1
        <4>2. message[j].seq \in Nat /\ message[k].seq \in Nat
          BY <1>3 DEF PlaneInv, TypeOK, Message, In
        <4>3. ~(message[k].seq <= message[j].seq) BY <4>1, <4>2
        <4>4. j \notin Claimable(r) BY <4>3, <1>3
        <4> QED BY <4>1, <4>4 DEF Claimable
      <3>2. CASE d # c
        <4>1. client'[d] = client[d] BY <2>1, <3>2
        <4>2. Overtakes(client[d]) BY <4>1 DEF PlaneInv, InOrder, At
        <4> QED BY <4>1, <4>2 DEF Overtakes
      <3> QED BY <3>1, <3>2
    <2>4. PICK e \in Client : At(e, "lock") /\ K(e) = j BY <2>3 DEF Locked, LockedBy
    <2>5. e # c BY <1>4, <2>4 DEF At
    <2>6. client'[e].pc = "lock" /\ client'[e].key = j BY <2>1, <2>4, <2>5 DEF At, K
    <2> QED BY <2>6 DEF Locked, LockedBy, At, K
  <1> QED BY <1>5, <1>6, <1>7, <1>8, <1>9, <1>10, <1>11, <1>12, QuietMove

\* A message that changes its state keeps its number.
LEMMA StateMoves ==
    ASSUME PlaneInv, NEW k \in Key, message[k] # None, NEW m \in Message,
           m.to = message[k].to, m.seq = message[k].seq,
           message' = [message EXCEPT ![k] = m], UNCHANGED <<last, told>>
    PROVE  /\ message' \in [Key -> Message \union {None}]
           /\ message'[k] = m /\ m # None
           /\ \A j \in Key : j # k => message'[j] = message[j]
           /\ \A r \in Recipient : Numbered(r)'
           /\ AnswersNameOneMessage'
  <1>1. message \in [Key -> Message \union {None}] BY DEF PlaneInv, TypeOK
  <1>0. message[k] \in Message BY <1>1
  <1>2. /\ message' \in [Key -> Message \union {None}]
        /\ message'[k] = m
        /\ \A j \in Key : j # k => message'[j] = message[j]
    BY <1>1
  <1>3. m # None BY SentinelAssumption
  <1>4. \A j \in Key : /\ message'[j] # None <=> message[j] # None
                       /\ message[j] # None => /\ message'[j].to = message[j].to
                                               /\ message'[j].seq = message[j].seq
    BY <1>2, <1>3
  <1>5. \A r \in Recipient : Numbered(r)'
    <2> SUFFICES ASSUME NEW r \in Recipient PROVE Numbered(r)' OBVIOUS
    <2>1. Numbered(r) BY DEF PlaneInv
    <2>2. Inbound(r)' = Inbound(r) BY <1>4 DEF Inbound, Accepted
    <2>3. \A j \in Inbound(r) : message'[j].seq = message[j].seq
      BY <1>4 DEF Inbound, Accepted
    <2> QED BY <2>1, <2>2, <2>3 DEF Numbered
  <1>6. AnswersNameOneMessage' BY <1>4 DEF PlaneInv, AnswersNameOneMessage
  <1> QED BY <1>2, <1>3, <1>5, <1>6

\* A claim that commits and a consumption: the message of one transaction
\* changes its state, that transaction leaves it, and no other is in its way.
LEMMA LeaseMoves ==
    ASSUME PlaneInv, NEW c \in Client, NEW u \in ClientRow, NEW k \in Key,
           NEW m \in Message, message[k] # None,
           m.to = message[k].to, m.seq = message[k].seq,
           message' = [message EXCEPT ![k] = m], UNCHANGED <<last, told>>,
           client' = [client EXCEPT ![c] = u],
           client[c].pc \in {"lock", "consume"}, client[c].key = k,
           m.state \in {"leased", "consumed"},
           m.state = "leased" => message[k].state = "queued",
           m.state = "consumed" => client[c].pc = "consume",
           u.pc \in {"idle", "consume"},
           u.pc = "consume" => /\ client[c].pc = "lock" /\ u.key = k
                               /\ m.state = "leased" /\ given'[k] = 1
                               /\ m.attempt = u.lease,
           given' \in [Key -> Nat], receipt' \in [Key -> 0 .. 5],
           \A j \in Key : j # k => given'[j] = given[j] /\ receipt'[j] = receipt[j],
           given'[k] <= 1,
           m.state = "consumed" => given'[k] = 1 /\ receipt'[k] = m.attempt,
           losses' \in 0 .. MaxLoss, losses' = 0 => losses = 0
    PROVE  PlaneInv'
  <1>1. client \in [Client -> ClientRow] BY ClientTypes DEF PlaneInv
  <1>2. TypeOK /\ Clients BY DEF PlaneInv
  <1>3. /\ message' \in [Key -> Message \union {None}]
        /\ message'[k] = m /\ m # None
        /\ \A j \in Key : j # k => message'[j] = message[j]
        /\ \A r \in Recipient : Numbered(r)'
        /\ AnswersNameOneMessage'
    BY StateMoves
  <1>4. \A v \in ClientRow : RowOK(v) /\ Apart(client[c], v) => RowOK(v)'
    <2> SUFFICES ASSUME NEW v \in ClientRow, RowOK(v), Apart(client[c], v)
                 PROVE  RowOK(v)'
      OBVIOUS
    <2>0. RowOK(client[c]) BY <1>2 DEF Clients
    <2>1. v.pc = "lock" => v.key # k
      <3>1. CASE client[c].pc = "lock" BY <3>1 DEF Apart
      <3>2. CASE client[c].pc = "consume" BY <3>2, <2>0 DEF RowOK, In
      <3> QED BY <3>1, <3>2
    <2>2. v.pc = "consume" => v.key # k
      <3>1. CASE client[c].pc = "lock" BY <3>1, <2>0 DEF RowOK, In
      <3>2. CASE client[c].pc = "consume" BY <3>2 DEF Apart
      <3> QED BY <3>1, <3>2
    <2> QED BY <1>3, <2>1, <2>2 DEF RowOK, In
  <1>5. RowOK(u)' BY <1>3 DEF RowOK, In
  <1>6. \A d \in Client : d # c => Apart(u, client[d])
    <2> SUFFICES ASSUME NEW d \in Client, u.pc = "consume",
                        client[d].pc = "consume", client[d].key = k
                 PROVE  FALSE
      BY DEF Apart
    <2>1. RowOK(client[d]) BY <1>2 DEF Clients
    <2> QED BY <2>1 DEF RowOK, In
  <1>7. client' \in [Client -> ClientRow] /\ Clients'
    BY <1>1, <1>2, <1>4, <1>5, <1>6, ClientsStay
  <1>8. \A j \in Key : GivenOnce(j)'
    <2> SUFFICES ASSUME NEW j \in Key PROVE GivenOnce(j)' OBVIOUS
    <2>1. GivenOnce(j) BY DEF PlaneInv
    <2>2. CASE j # k BY <1>3, <2>1, <2>2 DEF GivenOnce, In
    <2>3. CASE j = k BY <1>3, <2>3 DEF GivenOnce, In
    <2> QED BY <2>2, <2>3
  <1>9. InOrder'
    <2>1. /\ client'[c] = u
          /\ \A d \in Client : d # c => client'[d] = client[d]
      BY <1>1, ClientMoves
    <2>2. \A j \in Key : /\ message'[j].to = message[j].to
                         /\ message'[j].seq = message[j].seq
      BY <1>3
    <2>3. \A j \in Key : In(j, "queued")' => In(j, "queued") /\ j # k
      BY <1>3 DEF In
    <2> SUFFICES ASSUME losses' = 0, NEW d \in Client, client'[d].pc = "lock",
                        NEW j \in Key, In(j, "queued")',
                        message'[j].to = message'[client'[d].key].to,
                        message'[j].seq < message'[client'[d].key].seq
                 PROVE  Locked(j)'
      BY DEF InOrder, Overtakes, At
    <2>4. d # c /\ client'[d] = client[d] BY <2>1
    <2>5. client[d].key \in Key
      <3>1. RowOK(client[d]) BY <1>2 DEF Clients
      <3> QED BY <3>1, <2>4 DEF RowOK, In
    <2>6. Overtakes(client[d]) BY <2>4 DEF PlaneInv, InOrder, At
    <2>7. Locked(j) BY <2>2, <2>3, <2>4, <2>5, <2>6 DEF Overtakes
    <2>8. PICK e \in Client : At(e, "lock") /\ K(e) = j BY <2>7 DEF Locked, LockedBy
    <2>9. e # c BY <2>3, <2>8 DEF K
    <2>10. client'[e].pc = "lock" /\ client'[e].key = j BY <2>1, <2>8, <2>9 DEF At, K
    <2> QED BY <2>10 DEF Locked, LockedBy, At, K
  <1>10. TypeOK'
    <2>1. /\ (\A d \in Client : client[d].pc = "lock" => In(client[d].key, "queued"))'
          /\ (\A d \in Client : client[d].pc = "consume" => In(client[d].key, "leased"))'
      BY <1>7 DEF Clients, RowOK, In
    <2> QED BY <1>2, <1>3, <1>7, <2>1 DEF TypeOK, ClientRow
  <1> QED BY <1>3, <1>7, <1>8, <1>9, <1>10 DEF PlaneInv

LEMMA ConsumesStep ==
    ASSUME PlaneInv, NEW c \in Client, Consumes(c) PROVE PlaneInv'
  <1>1. client[c].pc = "consume" /\ In(K(c), "leased") BY DEF Consumes, At
  <1>2. PICK k \in Key : k = client[c].key BY <1>1 DEF In, K
  <1>3. /\ message[k] # None /\ message[k].state = "leased"
        /\ message[k].attempt = client[c].lease
    BY <1>1, <1>2 DEF Consumes, In, K
  <1>4. message[k] \in Message BY <1>3 DEF PlaneInv, TypeOK
  <1>5. PICK m \in Message : m = [message[k] EXCEPT !.state = "consumed"]
    BY <1>4 DEF Message
  <1>6. /\ m.to = message[k].to /\ m.seq = message[k].seq /\ m.state = "consumed"
        /\ m.attempt = client[c].lease /\ m.attempt \in 0 .. 5
    BY <1>3, <1>4, <1>5 DEF Message
  <1>7. message' = [message EXCEPT ![k] = m] BY <1>2, <1>5 DEF Consumes, K
  <1>8. UNCHANGED <<last, told>> /\ given' = given /\ losses' = losses
    BY DEF Consumes
  <1>9. given \in [Key -> Nat] /\ losses \in 0 .. MaxLoss /\ receipt \in [Key -> 0 .. 5]
    BY DEF PlaneInv, TypeOK
  <1>10. /\ receipt' \in [Key -> 0 .. 5] /\ receipt'[k] = m.attempt
         /\ \A j \in Key : j # k => receipt'[j] = receipt[j]
    <2>1. receipt' = [receipt EXCEPT ![k] = m.attempt] BY <1>2, <1>6 DEF Consumes, K
    <2> QED BY <1>6, <1>9, <2>1
  <1>11. given[k] = 1
    <2>1. RowOK(client[c]) BY DEF PlaneInv, Clients
    <2> QED BY <1>1, <1>2, <2>1 DEF RowOK
  <1>12. Idle \in ClientRow /\ Idle.pc = "idle" BY IdleClient
  <1>13. client' = [client EXCEPT ![c] = Idle] BY DEF Consumes
  <1>14. /\ given' \in [Key -> Nat] /\ given'[k] <= 1 /\ given'[k] = 1
         /\ \A j \in Key : j # k => given'[j] = given[j] /\ receipt'[j] = receipt[j]
    BY <1>8, <1>9, <1>10, <1>11
  <1>15. /\ client[c].pc \in {"lock", "consume"} /\ client[c].key = k
         /\ m.state \in {"leased", "consumed"} /\ m.state # "leased"
         /\ Idle.pc \in {"idle", "consume"} /\ Idle.pc # "consume"
    BY <1>1, <1>2, <1>6, <1>12
  <1> QED
    BY <1>1, <1>3, <1>6, <1>7, <1>8, <1>9, <1>10, <1>12, <1>13, <1>14, <1>15, LeaseMoves

LEMMA ClaimCommitsStep ==
    ASSUME PlaneInv, NEW c \in Client, ClaimCommits(c) PROVE PlaneInv'
  <1>1. client[c].pc = "lock" /\ RowOK(client[c])
    BY DEF ClaimCommits, At, PlaneInv, Clients
  <1>2. PICK k \in Key : k = client[c].key BY <1>1 DEF RowOK, In
  <1>3. message[k] # None /\ message[k].state = "queued" BY <1>1, <1>2 DEF RowOK, In
  <1>4. message[k] \in Message BY <1>3 DEF PlaneInv, TypeOK
  <1>5. PICK n \in 0 .. 5 : n = message[k].attempt + 1
    BY <1>2, <1>4 DEF ClaimCommits, Message, K
  <1>6. PICK m \in Message : m = [message[k] EXCEPT !.state = "leased", !.attempt = n]
    BY <1>4 DEF Message
  <1>7. /\ m.to = message[k].to /\ m.seq = message[k].seq /\ m.state = "leased"
        /\ m.attempt = n
    BY <1>4, <1>6 DEF Message
  <1>8. message' = [message EXCEPT ![k] = m]
    BY <1>2, <1>5, <1>6 DEF ClaimCommits, K, PlaneInv, TypeOK
  <1>9. UNCHANGED <<last, told>> /\ receipt' = receipt BY DEF ClaimCommits
  <1>10. /\ given \in [Key -> Nat] /\ losses \in 0 .. MaxLoss
         /\ receipt \in [Key -> 0 .. 5] /\ losses \in Nat /\ MaxLoss \in Nat
    BY BoundAssumption DEF PlaneInv, TypeOK
  <1>11. given[k] = 0
    <2>1. GivenOnce(k) BY DEF PlaneInv
    <2> QED BY <1>3, <2>1 DEF GivenOnce, In
  <1>12. /\ given' = [given EXCEPT ![k] = @ + 1] \/ given' = given
         /\ losses' = losses \/ losses' = losses + 1
         /\ losses < MaxLoss \/ losses' = losses
    BY <1>2 DEF ClaimCommits, K
  <1>13. /\ given' \in [Key -> Nat] /\ given'[k] <= 1
         /\ \A j \in Key : j # k => given'[j] = given[j] /\ receipt'[j] = receipt[j]
    BY <1>9, <1>10, <1>11, <1>12
  <1>14. losses' \in 0 .. MaxLoss /\ (losses' = 0 => losses = 0) BY <1>10, <1>12
  <1>15. PICK u \in ClientRow :
            /\ client' = [client EXCEPT ![c] = u] /\ u.pc \in {"idle", "consume"}
            /\ u.pc = "consume" => u.key = k /\ given'[k] = 1 /\ u.lease = n
    <2> DEFINE v == [Idle EXCEPT !.pc = "consume", !.key = k, !.to = R(c), !.lease = n]
    <2>1. v \in ClientRow /\ v.pc = "consume" /\ v.key = k /\ v.lease = n
      <3>1. client \in [Client -> ClientRow] BY ClientTypes DEF PlaneInv
      <3>2. R(c) \in Recipient \union {None} BY <3>1 DEF R, ClientRow
      <3>3. PICK q \in Recipient \union {None} : q = R(c) BY <3>2
      <3>4. v = [Idle EXCEPT !.pc = "consume", !.key = k, !.to = q, !.lease = n]
        BY <3>3
      <3> HIDE DEF v
      <3>5. v = [pc |-> "consume", key |-> k, to |-> q, sent |-> None,
                 seq |-> 0, lease |-> n]
        BY <3>4 DEF Idle
      <3> QED BY <3>5 DEF ClientRow, Pc
    <2>2. Idle \in ClientRow /\ Idle.pc = "idle" BY IdleClient
    <2>3. \/ client' = [client EXCEPT ![c] = Idle]
          \/ client' = [client EXCEPT ![c] = v] /\ given' = [given EXCEPT ![k] = @ + 1]
      BY <1>2, <1>5 DEF ClaimCommits, K
    <2> HIDE DEF v
    <2>4. CASE client' = [client EXCEPT ![c] = Idle] BY <2>2, <2>4
    <2>5. CASE client' = [client EXCEPT ![c] = v] /\ given' = [given EXCEPT ![k] = @ + 1]
      <3>1. given'[k] = 1 BY <2>5, <1>10, <1>11
      <3> QED BY <2>1, <2>5, <3>1
    <2> QED BY <2>3, <2>4, <2>5
  <1>16. /\ client[c].pc \in {"lock", "consume"} /\ client[c].key = k
         /\ m.state \in {"leased", "consumed"} /\ m.state # "consumed"
         /\ receipt' \in [Key -> 0 .. 5]
    BY <1>1, <1>2, <1>7, <1>9, <1>10
  <1> QED
    BY <1>1, <1>3, <1>7, <1>8, <1>9, <1>13, <1>14, <1>15, <1>16, LeaseMoves

\* What a send returns to: a Roundtrip goes on to its claim.
LEMMA ReturnedClient ==
    ASSUME TypeOK, NEW c \in Client, SendReturns(c), client[c].key \in Key
    PROVE  \E u \in ClientRow :
               client' = [client EXCEPT ![c] = u] /\ u.pc \in {"idle", "claim"}
  <1>1. client \in [Client -> ClientRow] BY ClientTypes
  <1>2. CASE c \in Roundtrip
    <2> DEFINE u == [Idle EXCEPT !.pc = "claim", !.to = R(c), !.sent = K(c)]
    <2>1. R(c) \in Recipient \union {None} /\ K(c) \in Key
      BY <1>1 DEF R, K, ClientRow
    <2>2. PICK q \in Recipient \union {None}, k \in Key : q = R(c) /\ k = K(c) BY <2>1
    <2>3. client' = [client EXCEPT ![c] = u] BY <1>2 DEF SendReturns
    <2>4. u = [Idle EXCEPT !.pc = "claim", !.to = q, !.sent = k] BY <2>2
    <2> HIDE DEF u
    <2>5. u = [pc |-> "claim", key |-> None, to |-> q, sent |-> k,
               seq |-> 0, lease |-> 0]
      BY <2>4 DEF Idle
    <2>6. u \in ClientRow /\ u.pc = "claim" BY <2>5 DEF ClientRow, Pc
    <2> QED BY <2>3, <2>6
  <1>3. CASE c \notin Roundtrip
    <2>1. client' = [client EXCEPT ![c] = Idle] BY <1>3 DEF SendReturns
    <2> QED BY <2>1, IdleClient
  <1> QED BY <1>2, <1>3

\* The insert and the commit: the reserved number is still the next one, since
\* nobody else can have taken the row lock of the sequence.
LEMMA InsertCommitsStep ==
    ASSUME PlaneInv, NEW c \in Client, InsertCommits(c) PROVE PlaneInv'
  <1>1. client \in [Client -> ClientRow] BY ClientTypes DEF PlaneInv
  <1>2. TypeOK /\ Clients BY DEF PlaneInv
  <1>3. client[c].pc = "insert" /\ RowOK(client[c])
    BY <1>2 DEF InsertCommits, At, Clients
  <1>4. PICK k \in Key, s \in Recipient :
            k = client[c].key /\ s = client[c].to /\ client[c].seq = last[s] + 1
    BY <1>3 DEF RowOK
  <1>5. last \in [Recipient -> Nat] BY <1>2 DEF TypeOK
  <1>6. PICK n \in Nat \ {0} : n = client[c].seq /\ n = last[s] + 1 BY <1>4, <1>5
  <1>7. PICK m \in Message : m = [state |-> "queued", to |-> s, seq |-> n, attempt |-> 0]
    <2> DEFINE f == [state |-> "queued", to |-> s, seq |-> n, attempt |-> 0]
    <2>1. f.state = "queued" /\ f.to = s /\ f.seq = n /\ f.attempt = 0 OBVIOUS
    <2>2. "queued" \in {"queued", "leased", "consumed"} /\ 0 \in 0 .. 5 OBVIOUS
    <2>3. f \in Message BY <2>2 DEF Message
    <2> QED BY <2>3
  <1>8. m.state = "queued" /\ m.to = s /\ m.seq = n BY <1>7
  <1>9. message[k] = None BY <1>4 DEF InsertCommits, Unique, K
  <1>10. /\ message' = [message EXCEPT ![k] = m] /\ last' = [last EXCEPT ![s] = n]
         /\ UNCHANGED <<given, receipt>>
    BY <1>4, <1>6, <1>7 DEF InsertCommits, K, R
  <1>11. m # None BY SentinelAssumption
  <1>12. /\ message' \in [Key -> Message \union {None}] /\ message'[k] = m
         /\ \A j \in Key : j # k => message'[j] = message[j]
         /\ last' \in [Recipient -> Nat] /\ last'[s] = n
         /\ \A r \in Recipient : r # s => last'[r] = last[r]
    <2>1. message \in [Key -> Message \union {None}] BY <1>2 DEF TypeOK
    <2> QED BY <2>1, <1>5, <1>10
  <1>13. /\ losses' \in 0 .. MaxLoss /\ (losses' = 0 => losses = 0)
         /\ Tell(k, n) \/ told' = told
    <2>1. losses \in 0 .. MaxLoss /\ MaxLoss \in Nat BY <1>2, BoundAssumption DEF TypeOK
    <2>2. /\ Tell(k, n) \/ told' = told
          /\ losses' = losses \/ (losses < MaxLoss /\ losses' = losses + 1)
      BY <1>4, <1>6 DEF InsertCommits, K
    <2> QED BY <2>1, <2>2
  <1>14. PICK u \in ClientRow :
             client' = [client EXCEPT ![c] = u] /\ u.pc \in {"idle", "claim"}
    <2>1. CASE SendReturns(c) BY <1>2, <1>4, <2>1, ReturnedClient
    <2>2. CASE client' = [client EXCEPT ![c] = Idle] BY <2>2, IdleClient
    <2> QED BY <2>1, <2>2 DEF InsertCommits
  <1>15. client' \in [Client -> ClientRow] /\ Clients'
    <2>1. RowOK(u)' BY <1>14 DEF RowOK
    <2>2. \A v \in ClientRow : RowOK(v) /\ Apart(client[c], v) => RowOK(v)'
      <3> SUFFICES ASSUME NEW v \in ClientRow, RowOK(v), Apart(client[c], v)
                   PROVE  RowOK(v)'
        OBVIOUS
      <3>1. v.pc = "insert" => v.to # s BY <1>3, <1>4 DEF Apart
      <3>2. v.pc \in {"lock", "consume"} => v.key \in Key /\ v.key # k
        BY <1>9 DEF RowOK, In
      <3> QED BY <1>10, <1>12, <3>1, <3>2 DEF RowOK, In
    <2>3. \A d \in Client : d # c => Apart(u, client[d]) BY <1>14 DEF Apart
    <2> QED BY <1>1, <1>2, <1>14, <2>1, <2>2, <2>3, ClientsStay
  <1>16. \A r \in Recipient : Numbered(r)'
    <2> SUFFICES ASSUME NEW r \in Recipient PROVE Numbered(r)' OBVIOUS
    <2>1. Numbered(r) BY DEF PlaneInv
    <2>2. CASE r # s
      <3>1. Inbound(r)' = Inbound(r)
        BY <1>8, <1>9, <1>12, <2>2 DEF Inbound, Accepted
      <3>2. k \notin Inbound(r) BY <1>9 DEF Inbound, Accepted
      <3>3. /\ last'[r] = last[r]
            /\ \A j \in Inbound(r) : message'[j] = message[j]
        BY <1>12, <2>2, <3>2 DEF Inbound, Accepted
      <3> QED BY <2>1, <3>1, <3>3 DEF Numbered
    <2>3. CASE r = s
      <3>1. Inbound(r)' = Inbound(r) \union {k}
        BY <1>8, <1>9, <1>11, <1>12, <2>3 DEF Inbound, Accepted
      <3>2. k \notin Inbound(r) BY <1>9 DEF Inbound, Accepted
      <3>3. /\ IsFiniteSet(Inbound(r)')
            /\ Cardinality(Inbound(r)') = Cardinality(Inbound(r)) + 1
        BY <2>1, <3>1, <3>2, FS_AddElement DEF Numbered
      <3>4. /\ last[r] \in Nat /\ last'[r] = last[r] + 1 /\ message'[k].seq = last[r] + 1
            /\ \A j \in Inbound(r) : message'[j] = message[j]
        BY <1>5, <1>6, <1>8, <1>12, <2>3, <3>2 DEF Inbound, Accepted
      <3>5. \A j \in Inbound(r)' : message'[j].seq \in 1 .. last'[r]
        BY <2>1, <3>1, <3>4 DEF Numbered
      <3>6. \A i \in 1 .. last'[r] : \E j \in Inbound(r)' : message'[j].seq = i
        <4> SUFFICES ASSUME NEW i \in 1 .. last'[r]
                     PROVE  \E j \in Inbound(r)' : message'[j].seq = i
          OBVIOUS
        <4>1. CASE i = last[r] + 1 BY <4>1, <3>1, <3>4
        <4>2. CASE i # last[r] + 1
          <5>1. i \in 1 .. last[r] BY <4>2, <3>4
          <5> QED BY <5>1, <2>1, <3>1, <3>4 DEF Numbered
        <4> QED BY <4>1, <4>2
      <3> QED BY <2>1, <3>3, <3>4, <3>5, <3>6 DEF Numbered
    <2> QED BY <2>2, <2>3
  <1>17. \A j \in Key : GivenOnce(j)'
    <2> SUFFICES ASSUME NEW j \in Key PROVE GivenOnce(j)' OBVIOUS
    <2>1. GivenOnce(j) BY DEF PlaneInv
    <2>2. CASE j = k BY <2>1, <2>2, <1>8, <1>9, <1>10, <1>12 DEF GivenOnce, In
    <2>3. CASE j # k BY <2>1, <2>3, <1>10, <1>12 DEF GivenOnce, In
    <2> QED BY <2>2, <2>3
  <1>18. told' \in [Key -> SUBSET (Nat \ {0})] /\ AnswersNameOneMessage'
    <2>1. told \in [Key -> SUBSET (Nat \ {0})] BY <1>2 DEF TypeOK
    <2>2. AnswersNameOneMessage BY DEF PlaneInv
    <2>3. /\ told' \in [Key -> SUBSET (Nat \ {0})]
          /\ \A j \in Key : \A i \in told'[j] : i \in told[j] \/ (j = k /\ i = n)
      BY <1>13, <2>1 DEF Tell
    <2>4. told[k] = {} BY <1>9, <2>2 DEF AnswersNameOneMessage
    <2> QED BY <1>8, <1>11, <1>12, <2>2, <2>3, <2>4 DEF AnswersNameOneMessage
  <1>19. InOrder'
    <2>1. /\ client'[c] = u
          /\ \A d \in Client : d # c => client'[d] = client[d]
      BY <1>1, <1>14, ClientMoves
    <2> SUFFICES ASSUME losses' = 0, NEW d \in Client, client'[d].pc = "lock",
                        NEW j \in Key, In(j, "queued")',
                        message'[j].to = message'[client'[d].key].to,
                        message'[j].seq < message'[client'[d].key].seq
                 PROVE  Locked(j)'
      BY DEF InOrder, Overtakes, At
    <2>2. d # c /\ client'[d] = client[d] BY <2>1, <1>14
    <2>3. PICK q \in Key : q = client[d].key /\ In(q, "queued") /\ q # k
      <3>1. RowOK(client[d]) BY <1>2 DEF Clients
      <3> QED BY <3>1, <2>2, <1>9 DEF RowOK, In
    <2>4. message'[q] = message[q] BY <2>3, <1>12
    <2>5. j # k
      <3> SUFFICES ASSUME j = k PROVE FALSE OBVIOUS
      <3>1. message[q].to = s /\ n < message[q].seq BY <2>2, <2>3, <2>4, <1>8, <1>12
      <3>2. Numbered(s) /\ q \in Inbound(s)
        BY <2>3, <3>1 DEF PlaneInv, Inbound, Accepted, In
      <3>3. message[q].seq \in 1 .. last[s] BY <3>2 DEF Numbered
      <3> QED BY <1>5, <1>6, <3>1, <3>3
    <2>6. message'[j] = message[j] /\ In(j, "queued") BY <2>5, <1>12 DEF In
    <2>7. Overtakes(client[d]) BY <1>13, <2>2 DEF PlaneInv, InOrder, At
    <2>8. Locked(j) BY <2>2, <2>3, <2>4, <2>6, <2>7 DEF Overtakes
    <2>9. PICK e \in Client : At(e, "lock") /\ K(e) = j BY <2>8 DEF Locked, LockedBy
    <2>10. e # c BY <1>3, <2>9 DEF At
    <2>11. client'[e].pc = "lock" /\ client'[e].key = j BY <2>1, <2>9, <2>10 DEF At, K
    <2> QED BY <2>11 DEF Locked, LockedBy, At, K
  <1>20. TypeOK'
    <2>1. /\ (\A d \in Client : client[d].pc = "lock" => In(client[d].key, "queued"))'
          /\ (\A d \in Client : client[d].pc = "consume" => In(client[d].key, "leased"))'
      BY <1>15 DEF Clients, RowOK, In
    <2> QED BY <1>2, <1>10, <1>12, <1>13, <1>15, <1>18, <2>1 DEF TypeOK, ClientRow
  <1> QED BY <1>15, <1>16, <1>17, <1>18, <1>19, <1>20 DEF PlaneInv

LEMMA PlaneInit == ASSUME Init PROVE PlaneInv
  <1>1. \A c \in Client :
            /\ client[c] \in [pc: Pc, key: Key \union {None},
                              to: Recipient \union {None},
                              sent: Key \union {None}, seq: Nat, lease: 0 .. 5]
            /\ client[c].pc \in {"inactive", "idle"}
    <2> SUFFICES ASSUME NEW c \in Client
                 PROVE  client[c] \in ClientRow /\ client[c].pc \in {"inactive", "idle"}
      BY DEF ClientRow
    <2>1. CASE client[c] = Idle BY <2>1, IdleClient
    <2>2. CASE client[c] = [Idle EXCEPT !.pc = "inactive"]
      BY <2>2, IdleClient DEF ClientRow, Pc
    <2> QED BY <2>1, <2>2 DEF Init
  <1>2. client = [c \in Client |-> client[c]] BY DEF Init
  <1>3. TypeOK
    <2>1. /\ message \in [Key -> Message \union {None}]
          /\ last \in [Recipient -> Nat]
          /\ client \in [Client -> [pc: Pc, key: Key \union {None},
                                    to: Recipient \union {None},
                                    sent: Key \union {None}, seq: Nat, lease: 0 .. 5]]
          /\ told \in [Key -> SUBSET (Nat \ {0})]
      BY <1>1, <1>2 DEF Init
    <2>2. given \in [Key -> Nat] BY DEF Init
    <2>3. receipt \in [Key -> 0 .. 5]
      <3>1. 0 \in 0 .. 5 OBVIOUS
      <3> QED BY <3>1 DEF Init
    <2>4. losses \in 0 .. MaxLoss BY BoundAssumption DEF Init
    <2> QED BY <1>1, <2>1, <2>2, <2>3, <2>4 DEF TypeOK
  <1>4. Clients BY <1>1 DEF Clients, RowOK, Apart
  <1>5. \A r \in Recipient : Numbered(r)
    <2> SUFFICES ASSUME NEW r \in Recipient PROVE Numbered(r) OBVIOUS
    <2>1. Inbound(r) = {} /\ last[r] = 0 BY DEF Init, Inbound, Accepted
    <2>2. IsFiniteSet(Inbound(r)) /\ Cardinality(Inbound(r)) = 0 BY <2>1, FS_EmptySet
    <2> QED BY <2>1, <2>2 DEF Numbered
  <1>6. \A k \in Key : GivenOnce(k) BY DEF Init, GivenOnce, In
  <1>7. AnswersNameOneMessage BY DEF Init, AnswersNameOneMessage
  <1>8. InOrder BY <1>1 DEF InOrder, At
  <1> QED BY <1>3, <1>4, <1>5, <1>6, <1>7, <1>8 DEF PlaneInv

LEMMA PlaneNext == ASSUME PlaneInv, [Next]_vars PROVE PlaneInv'
  <1>1. CASE Next
    <2>1. PICK c \in Client :
              \/ \E k \in Key, r \in Recipient : Send(c, k, r) \/ SendAgain(c, k, r)
              \/ FindCutover(c) \/ Call(c) \/ Loss(c)
      BY <1>1 DEF Next
    <2>2. CASE \E k \in Key, r \in Recipient : Send(c, k, r) \/ SendAgain(c, k, r)
      BY <2>2, SendStep, SendAgainStep
    <2>3. CASE Loss(c) BY <2>3, LossStep
    <2>4. CASE Reserve(c) BY <2>4, ReserveStep
    <2>5. CASE InsertCommits(c) BY <2>5, InsertCommitsStep
    <2>6. CASE InsertFails(c) \/ \E r \in Recipient : ClaimEmpty(c, r)
      BY <2>6, InsertFailsStep
    <2>7. CASE ClaimCommits(c) BY <2>7, ClaimCommitsStep
    <2>8. CASE Consumes(c) BY <2>8, ConsumesStep
    <2>9. CASE \E r \in Recipient : ClaimLocks(c, r) BY <2>9, ClaimLocksStep
    <2>10. CASE FindCutover(c) BY <2>10, FindCutoverStep
    <2> QED BY <2>1, <2>2, <2>3, <2>4, <2>5, <2>6, <2>7, <2>8, <2>9, <2>10 DEF Call
  <1>2. CASE UNCHANGED vars
    <2>1. \A r \in Recipient : Inbound(r)' = Inbound(r)
      BY <1>2 DEF vars, Inbound, Accepted
    <2>2. \A r \in Recipient : Numbered(r)' BY <1>2, <2>1 DEF vars, PlaneInv, Numbered
    <2>3. TypeOK' BY <1>2 DEF vars, PlaneInv, TypeOK, In
    <2>4. Clients' BY <1>2 DEF vars, PlaneInv, Clients, RowOK, Apart, In
    <2>5. AnswersNameOneMessage' /\ \A k \in Key : GivenOnce(k)'
      BY <1>2 DEF vars, PlaneInv, AnswersNameOneMessage, GivenOnce, In
    <2>6. InOrder'
      BY <1>2 DEF vars, PlaneInv, InOrder, Overtakes, In, At, Locked, LockedBy, K
    <2> QED BY <2>2, <2>3, <2>4, <2>5, <2>6 DEF PlaneInv
  <1> QED BY <1>1, <1>2

\* The plane moves only by its own steps.
LEMMA PlaneSafe == QueuesSpec => []PlaneInv
  <1>1. QueuesInit => PlaneInv BY PlaneInit DEF QueuesInit
  <1>2. PlaneInv /\ [QueuesNext]_queuesVars => PlaneInv'
    <2>1. [QueuesNext]_queuesVars => [Next]_vars
      BY DEF QueuesNext, queuesVars, PlaneSteps, FileSteps, Rest
    <2> QED BY <2>1, PlaneNext
  <1> QED BY <1>1, <1>2, PTL DEF QueuesSpec

\* A message is leased by the commit of a claim that has locked it.
LEMMA LeasedByClaim ==
    ASSUME PlaneInv, Next, NEW k \in Key, In(k, "queued"), In(k, "leased")'
    PROVE  \E c \in Client : client[c].pc = "lock" /\ client[c].key = k
  <1>1. message'[k] # message[k] /\ message'[k].state = "leased" BY DEF In
  <1>2. message \in [Key -> Message \union {None}] BY DEF PlaneInv, TypeOK
  <1>3. PICK c \in Client :
            \/ \E j \in Key, r \in Recipient : Send(c, j, r) \/ SendAgain(c, j, r)
            \/ FindCutover(c) \/ Call(c) \/ Loss(c)
    BY DEF Next
  <1>4. \/ InsertCommits(c) \/ ClaimCommits(c) \/ Consumes(c)
    BY <1>1, <1>3 DEF Call, Send, SendAgain, Loss, Reserve, InsertFails, ClaimLocks,
                      ClaimEmpty, FindCutover
  <1>5. CASE InsertCommits(c)
    <2>1. PICK m : /\ m.state = "queued"
                   /\ message' = [message EXCEPT ![K(c)] = m]
      BY <1>5 DEF InsertCommits
    <2> QED BY <1>1, <1>2, <2>1
  <1>6. CASE Consumes(c)
    <2>1. PICK m : /\ m = [message[K(c)] EXCEPT !.state = "consumed"]
                   /\ message' = [message EXCEPT ![K(c)] = m]
      BY <1>6 DEF Consumes
    <2>2. K(c) \in Key /\ message[K(c)] \in Message
      BY <1>2, <1>6 DEF Consumes, In
    <2>3. m.state = "consumed" BY <2>1, <2>2 DEF Message
    <2> QED BY <1>1, <1>2, <2>1, <2>3
  <1>7. CASE ClaimCommits(c)
    <2>1. client[c].pc = "lock" BY <1>7 DEF ClaimCommits, At
    <2>2. \A j \in Key : j # K(c) => message'[j] = message[j]
      BY <1>2, <1>7 DEF ClaimCommits
    <2>3. K(c) = k BY <1>1, <2>2
    <2> QED BY <2>1, <2>3 DEF K
  <1> QED BY <1>4, <1>5, <1>6, <1>7

\* kernel_claim_company_message_v1 under any number of claimants, senders, retries
\* and lost connections: a message is returned to one claimant and consumed under
\* the attempt that was returned, and without a lost connection no message is
\* leased before an earlier one of its recipient that no other claim has locked.
THEOREM DeliveryOnceInOrder == QueuesSpec => DeliveredOnceInOrder
  <1>1. PlaneInv => DeliveredOnce
    <2> SUFFICES ASSUME PlaneInv, NEW k \in Key
                 PROVE  /\ given[k] <= 1
                        /\ In(k, "consumed") => given[k] = 1 /\ receipt[k] = message[k].attempt
      BY DEF DeliveredOnce
    <2>1. GivenOnce(k) BY DEF PlaneInv
    <2> QED BY <2>1 DEF GivenOnce
  <1> DEFINE Act == \A k \in Key : losses = 0 /\ In(k, "queued") /\ In(k, "leased")' =>
                        \A j \in Key :
                            /\ In(j, "queued") /\ message[j].to = message[k].to
                            /\ message[j].seq < message[k].seq
                            => Locked(j)
  <1>2. PlaneInv /\ [QueuesNext]_queuesVars => [Act]_vars
    <2> SUFFICES ASSUME PlaneInv, Next, losses = 0,
                        NEW k \in Key, In(k, "queued"), In(k, "leased")',
                        NEW j \in Key, In(j, "queued"),
                        message[j].to = message[k].to, message[j].seq < message[k].seq
                 PROVE  Locked(j)
      BY DEF QueuesNext, queuesVars, PlaneSteps, FileSteps, Rest
    <2>1. PICK c \in Client : client[c].pc = "lock" /\ client[c].key = k
      BY LeasedByClaim
    <2>2. Overtakes(client[c]) BY <2>1 DEF PlaneInv, InOrder, At
    <2> QED BY <2>1, <2>2 DEF Overtakes
  <1>3. QueuesSpec => [][Act]_vars
    <2> HIDE DEF Act
    <2> QED BY PlaneSafe, <1>2, PTL DEF QueuesSpec
  <1>4. QueuesSpec => ClaimedInOrder BY <1>3 DEF ClaimedInOrder
  <1> QED BY PlaneSafe, <1>1, <1>4, PTL DEF DeliveredOnceInOrder

-----------------------------------------------------------------------------
(* The queue file.  Rows move towards the front when it is rotated, and new  *)
(* ones come in behind: a line that is found again stands behind no other    *)
(* rows than it did.                                                         *)

DrainRow == [pc: Inbox!Pc, line: Nat, own: Inbox!Cursor \union {None},
             lines: Seq(Inbox!Line)]
FaultRow == [rotate: Nat, crash: Nat, throw: Nat, tear: Nat]
Took(w) == seen[w] \union past[w]

\* The one residue a queue may have had is a line of it by now, or gone.
Mended == ~torn /\ faults.tear # 0

\* Lines that the queue has had: no row that comes in later is one of them.
Known(s) == \A i \in 1 .. Len(s) : s[i] \in used \/ (s[i] = Malformed /\ Mended)

FileOK ==
    /\ Known(file) /\ (torn => faults.tear # 0)
    /\ \A i, j \in 1 .. Len(file) : file[i] = file[j] => i = j

\* Where the queue has the anchored line, this window has taken all before it.
AnchorOK(w, c) ==
    /\ \/ c.anchor \in used \/ (c.anchor = Malformed /\ Mended)
       \/ c.anchor = None /\ c.line = 0
    /\ \A i \in 1 .. Len(file) : file[i] = c.anchor => Inbox!Upto(file, i) \subseteq Took(w)

\* Where the queue still has a line of s, it has nothing before it that s lacks.
Tracks(s) ==
    \A i \in 1 .. Len(file), j \in 1 .. Len(s) :
        file[i] = s[j] => Inbox!Upto(file, i) \subseteq Inbox!Upto(s, j)

\* What a drain of window w relies on when it goes on with record t.
DrainOK(w, t) ==
    /\ t.pc = "seeded" /\ t.own # None => t.line = t.own.line /\ AnchorOK(w, t.own)
    /\ t.pc \in {"resync", "handling"} => Known(t.lines) /\ Tracks(t.lines)
    /\ t.pc = "handling" =>
          t.line <= Len(t.lines) /\ Inbox!Upto(t.lines, t.line) \subseteq Took(w)

InboxInv ==
    /\ FileOK
    /\ \A w \in Window : cursor[w] # None => AnchorOK(w, cursor[w])
    /\ \A d \in Drain : DrainOK(Separate[d], drain[d])

LEMMA InboxTypes ==
    ASSUME Inbox!TypeOK
    PROVE  /\ file \in Seq(Inbox!Line) /\ Len(file) \in Nat /\ Len(file) <= MaxLen
           /\ torn \in BOOLEAN
           /\ cursor \in [Window -> Inbox!Cursor \union {None}] /\ mark \in Nat \union {None}
           /\ drain \in [Drain -> DrainRow]
           /\ seen \in [Window -> SUBSET Row] /\ past \in [Window -> SUBSET Row]
           /\ used \in SUBSET Row /\ alive \in SUBSET Window /\ faults \in FaultRow
  <1>1. torn \in BOOLEAN BY DEF Inbox!TypeOK
  <1> QED BY <1>1 DEF Inbox!TypeOK, DrainRow, FaultRow

LEMMA NoSentinels ==
    /\ None \notin Row /\ None # Malformed /\ Malformed \notin Row
    /\ \A x : x \in Inbox!Line <=> x \in Row \/ x = Malformed
    /\ \A d \in Drain : Separate[d] \in Window
    /\ {MaxLen, MaxRotate, MaxCrash, MaxThrow, MaxTear} \subseteq Nat
  <1> HIDE DEF Separate
  <1> QED BY InboxAssumption DEF Inbox!Line

\* How a step may change the queue, as seen from what others remember of it.
Evolves ==
    /\ file' \in Seq(Inbox!Line)
    /\ used \subseteq used' /\ (Mended => Mended')
    /\ \A i \in 1 .. Len(file') :
          \/ \E h \in 1 .. Len(file) :
                file'[i] = file[h] /\ Inbox!Upto(file', i) \subseteq Inbox!Upto(file, h)
          \/ file'[i] \in Row \ used
          \/ file'[i] = Malformed /\ ~Mended
    /\ \A w \in Window : Took(w) \subseteq Took(w)'

LEMMA KnownStays ==
    ASSUME Evolves, NEW s \in Seq(Inbox!Line), Known(s) PROVE Known(s)'
  BY DEF Evolves, Known

LEMMA AnchorStays ==
    ASSUME Inbox!TypeOK, Evolves, NEW w \in Window, NEW c \in Inbox!Cursor, AnchorOK(w, c)
    PROVE  AnchorOK(w, c)'
  <1>1. \/ c.anchor \in used \/ (c.anchor = Malformed /\ Mended)
        \/ c.anchor = None /\ c.line = 0
    BY DEF AnchorOK
  <1>2. (\/ c.anchor \in used \/ (c.anchor = Malformed /\ Mended)
         \/ c.anchor = None /\ c.line = 0)'
    BY <1>1 DEF Evolves
  <1>3. ASSUME NEW i \in 1 .. Len(file'), file'[i] = c.anchor
        PROVE  Inbox!Upto(file', i) \subseteq Took(w)'
    <2>1. used \subseteq Row BY InboxTypes
    <2>2. c.anchor # None
      <3>1. Len(file') \in Nat /\ file'[i] \in Inbox!Line BY DEF Evolves
      <3> QED BY <1>3, <3>1, NoSentinels
    <2>3. PICK h \in 1 .. Len(file) :
              file'[i] = file[h] /\ Inbox!Upto(file', i) \subseteq Inbox!Upto(file, h)
      BY <1>1, <1>3, <2>1, <2>2, NoSentinels DEF Evolves
    <2>4. Inbox!Upto(file, h) \subseteq Took(w) BY <1>3, <2>3 DEF AnchorOK
    <2> QED BY <2>3, <2>4 DEF Evolves
  <1> QED BY <1>2, <1>3 DEF AnchorOK

LEMMA TracksStays ==
    ASSUME Inbox!TypeOK, Evolves, NEW s \in Seq(Inbox!Line), Known(s), Tracks(s)
    PROVE  Tracks(s)'
  <1> SUFFICES ASSUME NEW i \in 1 .. Len(file'), NEW j \in 1 .. Len(s), file'[i] = s[j]
               PROVE  Inbox!Upto(file', i) \subseteq Inbox!Upto(s, j)
    BY DEF Tracks
  <1>1. s[j] \in used \/ (s[j] = Malformed /\ Mended) BY DEF Known
  <1>2. used \subseteq Row BY InboxTypes
  <1>3. PICK h \in 1 .. Len(file) :
            file'[i] = file[h] /\ Inbox!Upto(file', i) \subseteq Inbox!Upto(file, h)
    BY <1>1, <1>2, NoSentinels DEF Evolves
  <1>4. Inbox!Upto(file, h) \subseteq Inbox!Upto(s, j) BY <1>3 DEF Tracks
  <1> QED BY <1>3, <1>4

LEMMA DrainStays ==
    ASSUME Inbox!TypeOK, Evolves, NEW w \in Window, NEW t \in DrainRow, DrainOK(w, t)
    PROVE  DrainOK(w, t)'
  <1>1. t.own \in Inbox!Cursor \union {None} /\ t.lines \in Seq(Inbox!Line) BY DEF DrainRow
  <1>2. (t.pc = "seeded" /\ t.own # None => t.line = t.own.line /\ AnchorOK(w, t.own))'
    <2>1. ASSUME t.pc = "seeded", t.own # None PROVE t.line = t.own.line /\ AnchorOK(w, t.own)'
      <3>1. PICK c \in Inbox!Cursor : c = t.own BY <1>1, <2>1
      <3>2. AnchorOK(w, c) /\ t.line = t.own.line BY <2>1, <3>1 DEF DrainOK
      <3>3. AnchorOK(w, c)' BY <3>2, AnchorStays
      <3> QED BY <3>1, <3>2, <3>3
    <2> QED BY <2>1
  <1>3. (t.pc \in {"resync", "handling"} => Known(t.lines) /\ Tracks(t.lines))'
    BY <1>1, KnownStays, TracksStays DEF DrainOK
  <1>4. (t.pc = "handling" =>
           t.line <= Len(t.lines) /\ Inbox!Upto(t.lines, t.line) \subseteq Took(w))'
    BY DEF DrainOK, Evolves
  <1> QED BY <1>2, <1>3, <1>4 DEF DrainOK

LEMMA UptoRows ==
    ASSUME NEW s \in Seq(Inbox!Line), NEW n \in Nat
    PROVE  Inbox!Upto(s, n) \subseteq Row
  <1>1. ASSUME NEW x \in Inbox!Upto(s, n) PROVE x \in Row
    <2>1. PICK i \in DOMAIN s : x = s[i] /\ x # Malformed BY <1>1 DEF Inbox!Upto
    <2>2. s[i] \in Inbox!Line OBVIOUS
    <2> QED BY <2>1, <2>2, NoSentinels
  <1> QED BY <1>1

LEMMA UptoNext ==
    ASSUME NEW s \in Seq(Inbox!Line), NEW n \in Nat, n < Len(s)
    PROVE  Inbox!Upto(s, n + 1) \subseteq Inbox!Upto(s, n) \union ({s[n + 1]} \ {Malformed})
  <1>1. ASSUME NEW x \in Inbox!Upto(s, n + 1) PROVE x \in Inbox!Upto(s, n) \/ x = s[n + 1]
    <2>1. PICK i \in (1 .. n + 1) \intersect DOMAIN s : x = s[i] /\ x # Malformed
      BY <1>1 DEF Inbox!Upto
    <2>2. i \in 1 .. n \/ i = n + 1 OBVIOUS
    <2> QED BY <2>1, <2>2 DEF Inbox!Upto
  <1>2. Malformed \notin Inbox!Upto(s, n + 1) BY DEF Inbox!Upto
  <1> QED BY <1>1, <1>2

\* The queue stays as it is and windows take more.
LEMMA FileStays ==
    ASSUME Inbox!TypeOK, UNCHANGED <<file, torn, used>>, faults'.tear = faults.tear,
           \A w \in Window : Took(w) \subseteq Took(w)'
    PROVE  Evolves /\ (FileOK => FileOK')
  <1>1. file \in Seq(Inbox!Line) BY InboxTypes
  <1>2. Mended' = Mended BY DEF Mended
  <1>3. Evolves BY <1>1, <1>2 DEF Evolves
  <1>4. FileOK => FileOK' BY <1>2 DEF FileOK, Known
  <1> QED BY <1>3, <1>4

\* A drain goes on with record t, and the queue stays as it is.
LEMMA DrainGoes ==
    ASSUME Inbox!TypeOK, InboxInv, NEW d \in Drain, NEW t \in DrainRow,
           drain' = [drain EXCEPT ![d] = t],
           t.pc = "handling" => t.line <= Len(t.lines),
           t.pc # "idle" => Separate[d] \in alive,
           UNCHANGED <<file, torn, alive, used>>,
           cursor' \in [Window -> Inbox!Cursor \union {None}], mark' \in Nat \union {None},
           seen' \in [Window -> SUBSET Row], past' \in [Window -> SUBSET Row],
           faults' \in FaultRow, faults'.tear = faults.tear,
           \A w \in Window : Took(w) \subseteq Took(w)',
           DrainOK(Separate[d], t)',
           \A w \in Window : cursor'[w] # cursor[w] /\ cursor'[w] # None => AnchorOK(w, cursor[w])'
    PROVE  Inbox!TypeOK' /\ InboxInv'
  <1> HIDE DEF Separate
  <1>0. drain \in [Drain -> DrainRow] /\ cursor \in [Window -> Inbox!Cursor \union {None}]
    BY InboxTypes
  <1>1. /\ drain' \in [Drain -> DrainRow] /\ drain'[d] = t
        /\ \A e \in Drain : e # d => drain'[e] = drain[e]
    BY <1>0
  <1>2. \A e \in Drain : drain'[e].pc = "handling" =>
           drain'[e].line \in 0 .. Len(drain'[e].lines)
    <2>1. t.line \in Nat /\ Len(t.lines) \in Nat BY DEF DrainRow
    <2>2. t.pc = "handling" => t.line \in 0 .. Len(t.lines) BY <2>1
    <2> QED BY <1>1, <2>2 DEF Inbox!TypeOK
  <1>3. \A e \in Drain : drain'[e].pc # "idle" => Separate[e] \in alive
    BY <1>1 DEF Inbox!TypeOK
  <1>4. Inbox!TypeOK' BY <1>1, <1>2, <1>3 DEF Inbox!TypeOK, DrainRow, FaultRow
  <1>5. Evolves /\ FileOK' BY FileStays DEF InboxInv
  <1>6. ASSUME NEW w \in Window, cursor'[w] # None PROVE AnchorOK(w, cursor[w])'
    <2>1. CASE cursor'[w] = cursor[w]
      <3>1. PICK c \in Inbox!Cursor : c = cursor[w] BY <1>0, <1>6, <2>1
      <3>2. AnchorOK(w, c) BY <1>6, <2>1, <3>1 DEF InboxInv
      <3>3. AnchorOK(w, c)' BY <1>5, <3>2, AnchorStays
      <3> QED BY <2>1, <3>1, <3>3 DEF AnchorOK
    <2> QED BY <1>6, <2>1
  <1>7. ASSUME NEW e \in Drain PROVE DrainOK(Separate[e], drain[e])'
    <2>1. CASE e = d BY <1>1, <2>1 DEF DrainOK
    <2>2. CASE e # d
      <3>1. PICK u \in DrainRow : u = drain[e] BY <1>0
      <3>2. DrainOK(Separate[e], u) /\ Separate[e] \in Window
        BY <3>1, NoSentinels DEF InboxInv
      <3>3. DrainOK(Separate[e], u)' BY <1>5, <3>2, DrainStays
      <3> QED BY <1>1, <2>2, <3>1, <3>3 DEF DrainOK
    <2> QED BY <2>1, <2>2
  <1> QED BY <1>4, <1>5, <1>6, <1>7 DEF InboxInv

LEMMA SeedStep ==
    ASSUME Inbox!TypeOK, InboxInv, NEW d \in Drain, Inbox!Seed(d)
    PROVE  Inbox!TypeOK' /\ InboxInv'
  <1> HIDE DEF Separate
  <1>0. /\ cursor \in [Window -> Inbox!Cursor \union {None}] /\ mark \in Nat \union {None}
        /\ drain \in [Drain -> DrainRow] /\ drain[d] \in DrainRow
        /\ seen \in [Window -> SUBSET Row] /\ past \in [Window -> SUBSET Row]
        /\ faults \in FaultRow /\ Separate[d] \in Window
    BY InboxTypes, NoSentinels
  <1>1. /\ UNCHANGED <<file, torn, cursor, mark, alive, seen, past, used, faults>>
        /\ Separate[d] \in alive
    BY DEF Inbox!Seed, Inbox!W
  <1>2. PICK c \in Inbox!Cursor \union {None} : c = cursor[Separate[d]] BY <1>0
  <1>3. PICK n \in Nat : n = Inbox!SeedLine(d)
    BY <1>0, <1>2 DEF Inbox!SeedLine, Inbox!MarkLine, Inbox!Cursor, Inbox!W
  <1> DEFINE t == [drain[d] EXCEPT !.pc = "seeded", !.own = c, !.line = n]
  <1>4. t \in DrainRow /\ t.pc = "seeded" /\ t.own = c /\ t.line = n
    BY <1>0 DEF DrainRow, Inbox!Pc
  <1>5. PICK u \in DrainRow : u = t BY <1>4
  <1>6. drain' = [drain EXCEPT ![d] = u]
    BY <1>0, <1>2, <1>3, <1>5 DEF Inbox!Seed, Inbox!W
  <1> HIDE DEF t
  <1>7. DrainOK(Separate[d], u)
    <2>1. c # None => n = c.line BY <1>2, <1>3 DEF Inbox!SeedLine, Inbox!W
    <2>2. c # None => AnchorOK(Separate[d], c) BY <1>0, <1>2 DEF InboxInv
    <2> QED BY <1>4, <1>5, <2>1, <2>2 DEF DrainOK
  <1>8. \A w \in Window : Took(w) \subseteq Took(w)' BY <1>1 DEF Took
  <1>9. Evolves BY <1>1, <1>8, FileStays
  <1>10. DrainOK(Separate[d], u)' BY <1>0, <1>7, <1>9, DrainStays
  <1>11. u.pc = "seeded" BY <1>4, <1>5
  <1> QED BY <1>0, <1>1, <1>6, <1>8, <1>10, <1>11, DrainGoes

LEMMA ReadStep ==
    ASSUME Inbox!TypeOK, InboxInv, NEW d \in Drain, Inbox!Read(d)
    PROVE  Inbox!TypeOK' /\ InboxInv'
  <1> HIDE DEF Separate
  <1>0. /\ file \in Seq(Inbox!Line) /\ Len(file) \in Nat
        /\ cursor \in [Window -> Inbox!Cursor \union {None}] /\ mark \in Nat \union {None}
        /\ drain \in [Drain -> DrainRow] /\ drain[d] \in DrainRow
        /\ seen \in [Window -> SUBSET Row] /\ past \in [Window -> SUBSET Row]
        /\ faults \in FaultRow /\ Separate[d] \in Window
    BY InboxTypes, NoSentinels
  <1>1. /\ UNCHANGED <<file, torn, cursor, mark, alive, seen, used, faults>>
        /\ drain[d].pc = "seeded" /\ Separate[d] \in alive
    BY DEF Inbox!Read, Inbox!At, Inbox!TypeOK
  <1>2. PICK n \in Nat, own \in Inbox!Cursor \union {None} :
            n = drain[d].line /\ own = drain[d].own
    BY <1>0 DEF DrainRow
  <1> DEFINE pc == IF Inbox!Desync(d, file) THEN "resync" ELSE "handling"
             t == [drain[d] EXCEPT !.pc = pc, !.lines = file]
  <1>3. pc \in Inbox!Pc /\ pc \in {"resync", "handling"} BY DEF Inbox!Pc
  <1>4. pc = "handling" => /\ ~Inbox!Desync(d, file) /\ n <= Len(file)
    BY <1>0, <1>2 DEF Inbox!Desync
  <1>5. drain' = [drain EXCEPT ![d] = t] BY <1>0 DEF Inbox!Read
  <1> HIDE DEF pc
  <1>6. t \in DrainRow /\ t.pc = pc /\ t.line = n /\ t.lines = file /\ t.own = own
    BY <1>0, <1>2, <1>3 DEF DrainRow
  <1>7. PICK u \in DrainRow : u = t BY <1>6
  <1> HIDE DEF t
  <1>8. PICK S \in SUBSET Row : S = Inbox!Upto(file, n) BY <1>0, UptoRows
  <1>9. past' = past \/ past' = [past EXCEPT ![Separate[d]] = @ \union S]
    BY <1>2, <1>8 DEF Inbox!Read, Inbox!W
  <1>10. past' \in [Window -> SUBSET Row] /\ \A w \in Window : past[w] \subseteq past'[w]
    BY <1>0, <1>9
  <1>11. \A w \in Window : Took(w) \subseteq Took(w)' BY <1>1, <1>10 DEF Took
  <1>12. ASSUME pc = "handling" PROVE S \subseteq Took(Separate[d])'
    <2>1. CASE own = None
      <3>1. past' = [past EXCEPT ![Separate[d]] = @ \union S]
        BY <1>2, <1>4, <1>8, <1>12, <2>1 DEF Inbox!Read, Inbox!W
      <3> QED BY <1>0, <3>1 DEF Took
    <2>2. CASE own # None
      <3>1. own.line = n /\ AnchorOK(Separate[d], own)
        BY <1>1, <1>2, <2>2 DEF InboxInv, DrainOK
      <3>2. CASE n = 0
        <4>1. S = {} BY <1>8, <3>2 DEF Inbox!Upto
        <4> QED BY <4>1
      <3>3. CASE n # 0
        <4>1. own.anchor # None
          <5>1. used \subseteq Row BY InboxTypes
          <5> QED BY <3>1, <3>3, <5>1, NoSentinels DEF AnchorOK
        <4>2. Inbox!AnchorAt(file, n) = own.anchor
          BY <1>2, <1>4, <1>12, <2>2, <3>3, <4>1 DEF Inbox!Desync
        <4>3. n \in 1 .. Len(file) BY <1>0, <1>4, <1>12, <3>3
        <4>4. file[n] = own.anchor BY <4>2, <4>3 DEF Inbox!AnchorAt
        <4>5. S \subseteq Took(Separate[d]) BY <1>8, <3>1, <4>3, <4>4 DEF AnchorOK
        <4> QED BY <1>0, <1>11, <4>5
      <3> QED BY <3>2, <3>3
    <2> QED BY <2>1, <2>2
  <1>13. FileOK' BY <1>1, <1>11, FileStays DEF InboxInv
  <1>14. DrainOK(Separate[d], u)'
    <2>1. u.pc = pc /\ u.line = n /\ u.lines = file /\ pc # "seeded" BY <1>3, <1>6, <1>7
    <2>2. Known(file)' BY <1>13 DEF FileOK
    <2>3. Tracks(file)'
      <3>1. \A i, j \in 1 .. Len(file) : file[i] = file[j] => i = j BY DEF InboxInv, FileOK
      <3> QED BY <1>1, <3>1 DEF Tracks, Inbox!Upto
    <2>4. pc = "handling" => /\ n <= Len(file)
                             /\ Inbox!Upto(file, n) \subseteq Took(Separate[d])'
      BY <1>4, <1>8, <1>12
    <2>5. Known(u.lines)' /\ Tracks(u.lines)'
      <3>1. u.lines = file' BY <1>1, <2>1
      <3>2. Known(u.lines)' BY <2>2, <3>1 DEF Known
      <3>3. Tracks(u.lines)' BY <2>3, <3>1 DEF Tracks
      <3> QED BY <3>2, <3>3
    <2>6. (u.pc = "handling" =>
             u.line <= Len(u.lines) /\ Inbox!Upto(u.lines, u.line) \subseteq Took(Separate[d]))'
      BY <1>1, <2>1, <2>4 DEF Inbox!Upto
    <2> QED BY <2>1, <2>5, <2>6 DEF DrainOK
  <1>15. u.pc = "handling" => u.line <= Len(u.lines) BY <1>4, <1>6, <1>7
  <1>16. drain' = [drain EXCEPT ![d] = u] BY <1>5, <1>7
  <1> QED BY <1>0, <1>1, <1>10, <1>11, <1>14, <1>15, <1>16, DrainGoes

LEMMA ResyncStep ==
    ASSUME Inbox!TypeOK, InboxInv, NEW d \in Drain, Inbox!Resync(d)
    PROVE  Inbox!TypeOK' /\ InboxInv'
  <1> HIDE DEF Separate
  <1>0. /\ cursor \in [Window -> Inbox!Cursor \union {None}]
        /\ drain \in [Drain -> DrainRow] /\ drain[d] \in DrainRow
        /\ seen \in [Window -> SUBSET Row] /\ past \in [Window -> SUBSET Row]
        /\ faults \in FaultRow /\ Separate[d] \in Window
    BY InboxTypes, NoSentinels
  <1>1. /\ UNCHANGED <<file, torn, cursor, alive, seen, past, used, faults>>
        /\ drain[d].pc = "resync" /\ mark' = 0 /\ Separate[d] \in alive
    BY DEF Inbox!Resync, Inbox!At, Inbox!TypeOK
  <1> DEFINE t == [drain[d] EXCEPT !.pc = "handling", !.line = 0]
  <1>2. t \in DrainRow /\ t.pc = "handling" /\ t.line = 0 /\ t.lines = drain[d].lines
    BY <1>0 DEF DrainRow, Inbox!Pc
  <1>3. PICK u \in DrainRow : u = t BY <1>2
  <1>4. drain' = [drain EXCEPT ![d] = u] BY <1>0, <1>3 DEF Inbox!Resync
  <1>5. u.pc = "handling" /\ u.line = 0 /\ u.lines = drain[d].lines BY <1>2, <1>3
  <1> HIDE DEF t
  <1>6. u.line <= Len(u.lines) BY <1>5 DEF DrainRow
  <1>7. DrainOK(Separate[d], u)
    <2>1. Known(u.lines) /\ Tracks(u.lines) BY <1>1, <1>5 DEF InboxInv, DrainOK
    <2>2. Inbox!Upto(u.lines, u.line) = {} BY <1>5 DEF Inbox!Upto
    <2> QED BY <1>5, <1>6, <2>1, <2>2 DEF DrainOK
  <1>8. \A w \in Window : Took(w) \subseteq Took(w)' BY <1>1 DEF Took
  <1>9. Evolves BY <1>1, <1>8, FileStays
  <1>10. DrainOK(Separate[d], u)' BY <1>0, <1>7, <1>9, DrainStays
  <1>11. mark' \in Nat \union {None} BY <1>1
  <1> QED BY <1>0, <1>1, <1>4, <1>6, <1>8, <1>10, <1>11, DrainGoes

LEMMA IdleDrain ==
    Inbox!Idle \in DrainRow /\ Inbox!Idle.pc = "idle" /\ Inbox!Idle.lines = <<>>
  <1>1. <<>> \in Seq(Inbox!Line) OBVIOUS
  <1> QED BY <1>1 DEF Inbox!Idle, DrainRow, Inbox!Pc

\* saveCursor and the comparison of saveRoleCheckpoint: the anchor is a line of
\* what the drain has read, behind which it has handled everything.
LEMMA SaveStep ==
    ASSUME Inbox!TypeOK, InboxInv, NEW d \in Drain, drain[d].pc = "handling",
           Inbox!Save(d, drain[d].line),
           UNCHANGED <<file, torn, mark, alive, seen, past, used>>,
           faults' \in FaultRow, faults'.tear = faults.tear
    PROVE  Inbox!TypeOK' /\ InboxInv'
  <1> HIDE DEF Separate
  <1>0. /\ file \in Seq(Inbox!Line) /\ Len(file) \in Nat
        /\ cursor \in [Window -> Inbox!Cursor \union {None}] /\ mark \in Nat \union {None}
        /\ drain[d] \in DrainRow /\ Separate[d] \in Window
        /\ seen \in [Window -> SUBSET Row] /\ past \in [Window -> SUBSET Row]
    BY InboxTypes, NoSentinels
  <1>a. Separate[d] \in alive BY DEF Inbox!TypeOK
  <1>1. PICK n \in Nat, ls \in Seq(Inbox!Line) : n = drain[d].line /\ ls = drain[d].lines
    BY <1>0 DEF DrainRow
  <1>2. PICK c \in Inbox!Cursor : /\ c = [line |-> n, anchor |-> Inbox!AnchorAt(ls, n)]
                                  /\ c.line = n /\ c.anchor = Inbox!AnchorAt(ls, n)
    <2>1. Inbox!AnchorAt(ls, n) \in Inbox!Line \union {None} BY DEF Inbox!AnchorAt
    <2>2. PICK x \in Inbox!Line \union {None} : x = Inbox!AnchorAt(ls, n) BY <2>1
    <2>3. [line |-> n, anchor |-> x] \in Inbox!Cursor BY DEF Inbox!Cursor
    <2> QED BY <2>2, <2>3
  <1> DEFINE t == IF n > Inbox!MarkLine
                  THEN [Inbox!Idle EXCEPT !.pc = "marking", !.line = n] ELSE Inbox!Idle
  <1>3. t \in DrainRow /\ t.pc \in {"idle", "marking"}
    <2>1. CASE n > Inbox!MarkLine
      <3>1. t = [pc |-> "marking", line |-> n, own |-> None, lines |-> <<>>]
        BY <2>1 DEF Inbox!Idle
      <3>2. <<>> \in Seq(Inbox!Line) OBVIOUS
      <3> HIDE DEF t
      <3>3. t \in DrainRow BY <3>1, <3>2 DEF DrainRow, Inbox!Pc
      <3> QED BY <3>1, <3>3
    <2>2. CASE ~(n > Inbox!MarkLine) BY <2>2, IdleDrain
    <2> QED BY <2>1, <2>2
  <1>4. PICK u \in DrainRow : u = t BY <1>3
  <1>5. drain' = [drain EXCEPT ![d] = u] /\ cursor' = [cursor EXCEPT ![Separate[d]] = c]
    BY <1>1, <1>2, <1>4 DEF Inbox!Save, Inbox!W
  <1>6. u.pc \in {"idle", "marking"} BY <1>3, <1>4
  <1> HIDE DEF t
  <1>7. /\ cursor' \in [Window -> Inbox!Cursor \union {None}] /\ cursor'[Separate[d]] = c
        /\ \A w \in Window : w # Separate[d] => cursor'[w] = cursor[w]
    BY <1>0, <1>5
  <1>8. \A w \in Window : Took(w) \subseteq Took(w)' BY DEF Took
  <1>9. Evolves BY <1>8, FileStays
  <1>10. AnchorOK(Separate[d], c)
    <2>1. /\ Known(ls) /\ Tracks(ls)
          /\ n <= Len(ls) /\ Inbox!Upto(ls, n) \subseteq Took(Separate[d])
      BY <1>1 DEF InboxInv, DrainOK
    <2>2. CASE n = 0
      <3>1. c.anchor = None /\ c.line = 0 BY <1>2, <2>2 DEF Inbox!AnchorAt
      <3>2. \A i \in 1 .. Len(file) : file[i] # None
        <4>1. \A i \in 1 .. Len(file) : file[i] \in Inbox!Line BY <1>0
        <4> QED BY <4>1, NoSentinels
      <3> QED BY <3>1, <3>2 DEF AnchorOK
    <2>3. CASE n # 0
      <3>1. n \in 1 .. Len(ls) BY <2>1, <2>3
      <3>2. c.anchor = ls[n] BY <1>2, <3>1 DEF Inbox!AnchorAt
      <3>3. ls[n] \in used \/ (ls[n] = Malformed /\ Mended) BY <2>1, <3>1 DEF Known
      <3>4. \A i \in 1 .. Len(file) : file[i] = ls[n] =>
                Inbox!Upto(file, i) \subseteq Inbox!Upto(ls, n)
        BY <2>1, <3>1 DEF Tracks
      <3> QED BY <2>1, <3>2, <3>3, <3>4 DEF AnchorOK
    <2> QED BY <2>2, <2>3
  <1>11. AnchorOK(Separate[d], c)' BY <1>0, <1>9, <1>10, AnchorStays
  <1>12. \A w \in Window : cursor'[w] # cursor[w] /\ cursor'[w] # None => AnchorOK(w, cursor[w])'
    <2> SUFFICES ASSUME NEW w \in Window, cursor'[w] # cursor[w] PROVE AnchorOK(w, cursor[w])'
      OBVIOUS
    <2>1. w = Separate[d] /\ cursor'[w] = c BY <1>7
    <2> QED BY <1>11, <2>1 DEF AnchorOK
  <1>13. DrainOK(Separate[d], u)' BY <1>6 DEF DrainOK
  <1>14. u.pc # "handling" BY <1>6
  <1> QED BY <1>0, <1>a, <1>5, <1>7, <1>8, <1>12, <1>13, <1>14, DrainGoes

LEMMA HandleStep ==
    ASSUME Inbox!TypeOK, InboxInv, NEW d \in Drain, Inbox!Handle(d)
    PROVE  Inbox!TypeOK' /\ InboxInv'
  <1> HIDE DEF Separate
  <1>0. /\ cursor \in [Window -> Inbox!Cursor \union {None}] /\ mark \in Nat \union {None}
        /\ drain \in [Drain -> DrainRow] /\ drain[d] \in DrainRow
        /\ seen \in [Window -> SUBSET Row] /\ past \in [Window -> SUBSET Row]
        /\ faults \in FaultRow /\ Separate[d] \in Window
    BY InboxTypes, NoSentinels
  <1>1. PICK n \in Nat, ls \in Seq(Inbox!Line) : n = drain[d].line /\ ls = drain[d].lines
    BY <1>0 DEF DrainRow
  <1>2. /\ UNCHANGED <<file, torn, cursor, mark, alive, past, used, faults>>
        /\ drain[d].pc = "handling" /\ n < Len(ls)
    BY <1>1 DEF Inbox!Handle, Inbox!More, Inbox!At
  <1>3. Separate[d] \in alive BY <1>2 DEF Inbox!TypeOK
  <1>4. ls[n + 1] \in Inbox!Line BY <1>2
  <1>5. PICK S \in SUBSET Row : S = {ls[n + 1]} \ {Malformed} BY <1>4, NoSentinels
  <1>6. seen' = [seen EXCEPT ![Separate[d]] = @ \union S]
    BY <1>1, <1>5 DEF Inbox!Handle, Inbox!NextLine, Inbox!W
  <1>7. /\ seen' \in [Window -> SUBSET Row] /\ \A w \in Window : seen[w] \subseteq seen'[w]
        /\ seen'[Separate[d]] = seen[Separate[d]] \union S
    BY <1>0, <1>6
  <1> DEFINE t == [drain[d] EXCEPT !.line = n + 1]
  <1>8. t \in DrainRow /\ t.pc = "handling" /\ t.line = n + 1 /\ t.lines = ls
    <2>1. n + 1 \in Nat OBVIOUS
    <2> QED BY <1>0, <1>1, <1>2, <2>1 DEF DrainRow
  <1>9. PICK u \in DrainRow : u = t BY <1>8
  <1>10. drain' = [drain EXCEPT ![d] = u] BY <1>0, <1>1, <1>9 DEF Inbox!Handle
  <1>11. u.pc = "handling" /\ u.line = n + 1 /\ u.lines = ls BY <1>8, <1>9
  <1> HIDE DEF t
  <1>12. \A w \in Window : Took(w) \subseteq Took(w)' BY <1>2, <1>7 DEF Took
  <1>13. Evolves BY <1>2, <1>12, FileStays
  <1>14. u.line <= Len(u.lines) BY <1>2, <1>11
  <1>15. DrainOK(Separate[d], u)'
    <2>1. Known(ls) /\ Tracks(ls) /\ Inbox!Upto(ls, n) \subseteq Took(Separate[d])
      BY <1>1, <1>2 DEF InboxInv, DrainOK
    <2>2. Known(ls)' /\ Tracks(ls)' BY <1>13, <2>1, KnownStays, TracksStays
    <2>3. Inbox!Upto(ls, n + 1) \subseteq Inbox!Upto(ls, n) \union S BY <1>2, <1>5, UptoNext
    <2>4. Took(Separate[d]) \union S \subseteq Took(Separate[d])' BY <1>2, <1>7 DEF Took
    <2>5. Inbox!Upto(ls, n + 1) \subseteq Took(Separate[d])' BY <2>1, <2>3, <2>4
    <2>6. (u.pc = "handling" =>
             u.line <= Len(u.lines) /\ Inbox!Upto(u.lines, u.line) \subseteq Took(Separate[d]))'
      BY <1>11, <1>14, <2>5
    <2>7. Known(u.lines)' /\ Tracks(u.lines)' BY <1>11, <2>2
    <2> QED BY <1>11, <2>6, <2>7 DEF DrainOK
  <1> QED BY <1>0, <1>2, <1>3, <1>7, <1>10, <1>12, <1>14, <1>15, DrainGoes

LEMMA EndSteps ==
    ASSUME Inbox!TypeOK, InboxInv, NEW d \in Drain,
           Inbox!HandledAll(d) \/ Inbox!Throw(d) \/ Inbox!WriteMark(d)
    PROVE  Inbox!TypeOK' /\ InboxInv'
  <1> HIDE DEF Separate
  <1>0. /\ cursor \in [Window -> Inbox!Cursor \union {None}]
        /\ drain \in [Drain -> DrainRow] /\ drain[d] \in DrainRow
        /\ seen \in [Window -> SUBSET Row] /\ past \in [Window -> SUBSET Row]
        /\ faults \in FaultRow
    BY InboxTypes
  <1>1. CASE Inbox!HandledAll(d)
    <2>1. /\ drain[d].pc = "handling" /\ Inbox!Save(d, drain[d].line)
          /\ UNCHANGED <<file, torn, mark, alive, seen, past, used, faults>>
      BY <1>1 DEF Inbox!HandledAll, Inbox!At
    <2> QED BY <1>0, <2>1, SaveStep
  <1>2. CASE Inbox!Throw(d)
    <2>1. /\ drain[d].pc = "handling" /\ Inbox!Save(d, drain[d].line)
          /\ UNCHANGED <<file, torn, mark, alive, seen, past, used>>
      BY <1>2 DEF Inbox!Throw, Inbox!More, Inbox!At
    <2>2. faults' \in FaultRow /\ faults'.tear = faults.tear
      BY <1>0, <1>2 DEF Inbox!Throw, Inbox!Spend, FaultRow
    <2> QED BY <2>1, <2>2, SaveStep
  <1>3. CASE Inbox!WriteMark(d)
    <2>1. /\ UNCHANGED <<file, torn, cursor, alive, seen, past, used, faults>>
          /\ mark' = drain[d].line
      BY <1>3 DEF Inbox!WriteMark, Inbox!At
    <2>2. PICK u \in DrainRow : u = Inbox!Idle /\ u.pc = "idle" BY IdleDrain
    <2>3. drain' = [drain EXCEPT ![d] = u] BY <1>3, <2>2 DEF Inbox!WriteMark
    <2>4. DrainOK(Separate[d], u)' BY <2>2 DEF DrainOK
    <2>5. \A w \in Window : Took(w) \subseteq Took(w)' BY <2>1 DEF Took
    <2>6. mark' \in Nat \union {None} BY <1>0, <2>1 DEF DrainRow
    <2> QED BY <1>0, <2>1, <2>2, <2>3, <2>4, <2>5, <2>6, DrainGoes
  <1> QED BY <1>1, <1>2, <1>3

\* A step of a window or of a writer: drains stay or end, cursors stay or go.
LEMMA InboxGoes ==
    ASSUME Inbox!TypeOK, InboxInv, Evolves, FileOK',
           \A d \in Drain : drain'[d] = drain[d] \/ drain'[d] = Inbox!Idle,
           \A w \in Window : cursor'[w] = cursor[w] \/ cursor'[w] = None
    PROVE  InboxInv'
  <1> HIDE DEF Separate
  <1>0. drain \in [Drain -> DrainRow] /\ cursor \in [Window -> Inbox!Cursor \union {None}]
    BY InboxTypes
  <1>1. ASSUME NEW w \in Window, cursor'[w] # None PROVE AnchorOK(w, cursor[w])'
    <2>1. PICK c \in Inbox!Cursor : c = cursor[w] /\ c = cursor'[w] /\ c # None
      BY <1>0, <1>1
    <2>2. AnchorOK(w, c) BY <2>1 DEF InboxInv
    <2>3. AnchorOK(w, c)' BY <2>2, AnchorStays
    <2> QED BY <2>1, <2>3 DEF AnchorOK
  <1>2. ASSUME NEW d \in Drain PROVE DrainOK(Separate[d], drain[d])'
    <2>1. CASE drain'[d] = drain[d]
      <3>1. PICK u \in DrainRow : u = drain[d] BY <1>0
      <3>2. DrainOK(Separate[d], u) /\ Separate[d] \in Window
        BY <3>1, NoSentinels DEF InboxInv
      <3>3. DrainOK(Separate[d], u)' BY <3>2, DrainStays
      <3> QED BY <2>1, <3>1, <3>3 DEF DrainOK
    <2>2. CASE drain'[d] = Inbox!Idle BY <2>2, IdleDrain DEF DrainOK
    <2> QED BY <2>1, <2>2
  <1> QED BY <1>1, <1>2 DEF InboxInv

LEMMA WindowSteps ==
    ASSUME Inbox!TypeOK, InboxInv, NEW w \in Window, Inbox!Start(w) \/ Inbox!Crash(w)
    PROVE  Inbox!TypeOK' /\ InboxInv'
  <1> HIDE DEF Separate
  <1>0. /\ cursor \in [Window -> Inbox!Cursor \union {None}]
        /\ drain \in [Drain -> DrainRow] /\ alive \in SUBSET Window /\ faults \in FaultRow
    BY InboxTypes
  <1>1. CASE Inbox!Start(w)
    <2>1. /\ alive' = alive \union {w}
          /\ UNCHANGED <<file, torn, mark, drain, seen, past, used, faults>>
          /\ cursor' = [v \in Window |-> IF v \in alive' THEN cursor[v] ELSE None]
      BY <1>1 DEF Inbox!Start
    <2>2. /\ cursor' \in [Window -> Inbox!Cursor \union {None}]
          /\ \A v \in Window : cursor'[v] = cursor[v] \/ cursor'[v] = None
      BY <1>0, <2>1
    <2>3. Inbox!TypeOK' BY <2>1, <2>2 DEF Inbox!TypeOK
    <2>4. \A v \in Window : Took(v) \subseteq Took(v)' BY <2>1 DEF Took
    <2>5. Evolves /\ FileOK' BY <2>1, <2>4, FileStays DEF InboxInv
    <2> QED BY <2>1, <2>2, <2>3, <2>5, InboxGoes
  <1>2. CASE Inbox!Crash(w)
    <2>1. /\ alive' = alive \ {w} /\ UNCHANGED <<file, torn, cursor, mark, seen, past, used>>
          /\ drain' = [d \in Drain |-> IF Separate[d] = w THEN Inbox!Idle ELSE drain[d]]
      BY <1>2 DEF Inbox!Crash, Inbox!W
    <2>2. faults' \in FaultRow /\ faults'.tear = faults.tear
      BY <1>0, <1>2 DEF Inbox!Crash, Inbox!Spend, FaultRow
    <2>3. /\ drain' \in [Drain -> DrainRow]
          /\ \A d \in Drain : drain'[d] = IF Separate[d] = w THEN Inbox!Idle ELSE drain[d]
      BY <1>0, <2>1, IdleDrain
    <2>4. \A d \in Drain : drain'[d].pc = "handling" =>
             drain'[d].line \in 0 .. Len(drain'[d].lines)
      BY <2>3, IdleDrain DEF Inbox!TypeOK
    <2>5. \A d \in Drain : drain'[d].pc # "idle" => Separate[d] \in alive'
      BY <2>1, <2>3, IdleDrain DEF Inbox!TypeOK
    <2>6. Inbox!TypeOK'
      BY <1>0, <2>1, <2>2, <2>3, <2>4, <2>5 DEF Inbox!TypeOK, DrainRow, FaultRow
    <2>7. \A d \in Drain : drain'[d] = drain[d] \/ drain'[d] = Inbox!Idle BY <2>3
    <2>8. \A v \in Window : Took(v) \subseteq Took(v)' BY <2>1 DEF Took
    <2>9. Evolves /\ FileOK' BY <2>1, <2>2, <2>8, FileStays DEF InboxInv
    <2> QED BY <2>1, <2>6, <2>7, <2>9, InboxGoes
  <1> QED BY <1>1, <1>2

\* A row that comes in is new, and so is the residue it repairs.
LEMMA AppendStep ==
    ASSUME Inbox!TypeOK, InboxInv, NEW r \in Row, Inbox!AppendRow(r)
    PROVE  Inbox!TypeOK' /\ InboxInv'
  <1> DEFINE added == IF torn THEN <<Malformed, r>> ELSE <<r>>
  <1>0. file \in Seq(Inbox!Line) /\ Len(file) \in Nat /\ used \in SUBSET Row
    BY InboxTypes
  <1>1. /\ UNCHANGED <<cursor, mark, drain, alive, seen, past, faults>>
        /\ torn' = FALSE /\ used' = used \union {r} /\ r \notin used
        /\ file' = file \o added /\ Len(file \o added) <= MaxLen
    BY DEF Inbox!AppendRow
  <1>2. r \in Inbox!Line /\ Malformed \in Inbox!Line /\ r # Malformed BY NoSentinels
  <1>3. /\ added \in Seq(Inbox!Line) /\ Len(added) \in {1, 2}
        /\ \A i \in 1 .. Len(added) :
              (i = Len(added) /\ added[i] = r) \/ (i = 1 /\ added[i] = Malformed /\ torn)
        /\ Len(added) = 2 => torn
    <2>1. CASE torn BY <1>2, <2>1
    <2>2. CASE ~torn BY <1>2, <2>2
    <2> QED BY <2>1, <2>2
  <1> HIDE DEF added
  <1>4. /\ file' \in Seq(Inbox!Line) /\ Len(file') = Len(file) + Len(added)
        /\ \A i \in 1 .. Len(file) : file'[i] = file[i]
        /\ \A i \in 1 .. Len(added) : file'[Len(file) + i] = added[i]
    BY <1>0, <1>1, <1>3
  <1>5. Len(file') \in Nat /\ Len(file') <= MaxLen /\ Len(file) <= Len(file')
    BY <1>0, <1>1, <1>3, <1>4
  <1>6. \A i \in 1 .. Len(file') : \/ i \in 1 .. Len(file)
                                   \/ i = Len(file') /\ file'[i] = r
                                   \/ i = Len(file) + 1 /\ file'[i] = Malformed /\ torn
    <2> SUFFICES ASSUME NEW i \in 1 .. Len(file'), i \notin 1 .. Len(file)
                 PROVE  \/ i = Len(file') /\ file'[i] = r
                        \/ i = Len(file) + 1 /\ file'[i] = Malformed /\ torn
      OBVIOUS
    <2>1. PICK j \in 1 .. Len(added) : i = Len(file) + j
      <3>1. i - Len(file) \in 1 .. Len(added) BY <1>0, <1>3, <1>4
      <3>2. i = Len(file) + (i - Len(file)) BY <1>0
      <3> QED BY <3>1, <3>2
    <2>2. file'[i] = added[j] BY <1>4, <2>1
    <2> QED BY <1>0, <1>3, <1>4, <2>1, <2>2
  <1>7. Inbox!TypeOK'
    <2>1. torn' \in BOOLEAN BY <1>1, Zenon
    <2>2. used' \in SUBSET Row BY <1>0, <1>1
    <2> QED BY <1>1, <1>4, <1>5, <2>1, <2>2 DEF Inbox!TypeOK
  <1>8. Known(file) /\ (torn => faults.tear # 0)
    BY DEF InboxInv, FileOK
  <1>9. Evolves
    <2>1. Mended => Mended' BY <1>1 DEF Mended
    <2>2. \A w \in Window : Took(w) \subseteq Took(w)' BY <1>1 DEF Took
    <2>3. ASSUME NEW i \in 1 .. Len(file)
          PROVE  Inbox!Upto(file', i) \subseteq Inbox!Upto(file, i)
      <3>1. \A x \in 1 .. i : x \in DOMAIN file /\ file'[x] = file[x] BY <1>0, <1>4
      <3> QED BY <3>1 DEF Inbox!Upto
    <2>4. ASSUME NEW i \in 1 .. Len(file')
          PROVE  \/ \E h \in 1 .. Len(file) :
                       /\ file'[i] = file[h]
                       /\ Inbox!Upto(file', i) \subseteq Inbox!Upto(file, h)
                 \/ file'[i] \in Row \ used
                 \/ file'[i] = Malformed /\ ~Mended
      <3>1. CASE i \in 1 .. Len(file) BY <1>4, <2>3, <3>1
      <3>2. CASE i = Len(file') /\ file'[i] = r BY <1>1, <3>2
      <3>3. CASE file'[i] = Malformed /\ torn BY <3>3 DEF Mended
      <3> QED BY <1>6, <3>1, <3>2, <3>3
    <2> QED BY <1>1, <1>4, <2>1, <2>2, <2>4 DEF Evolves
  <1>10. FileOK'
    <2>1. Known(file)'
      <3> SUFFICES ASSUME NEW i \in 1 .. Len(file')
                   PROVE  file'[i] \in used' \/ (file'[i] = Malformed /\ Mended')
        BY DEF Known
      <3>1. CASE i \in 1 .. Len(file)
        <4>1. Mended => Mended' BY <1>1 DEF Mended
        <4> QED BY <1>1, <1>4, <1>8, <3>1, <4>1 DEF Known
      <3>2. CASE file'[i] = r BY <1>1, <3>2
      <3>3. CASE file'[i] = Malformed /\ torn BY <1>1, <1>8, <3>3 DEF Mended
      <3> QED BY <1>6, <3>1, <3>2, <3>3
    <2>2. ASSUME NEW i \in 1 .. Len(file') PROVE
             /\ file'[i] = r => i = Len(file')
             /\ file'[i] = Malformed /\ torn => i = Len(file) + 1
      <3>1. CASE i \in 1 .. Len(file)
        <4>1. file'[i] \in used \/ (file'[i] = Malformed /\ Mended)
          BY <1>4, <1>8, <3>1 DEF Known
        <4> QED BY <1>0, <1>1, <1>2, <4>1, NoSentinels DEF Mended
      <3>2. CASE i = Len(file') /\ file'[i] = r BY <1>2, <3>2
      <3>3. CASE i = Len(file) + 1 /\ file'[i] = Malformed /\ torn BY <1>2, <3>3
      <3> QED BY <1>6, <3>1, <3>2, <3>3
    <2>3. \A i, j \in 1 .. Len(file') : file'[i] = file'[j] => i = j
      <3> SUFFICES ASSUME NEW i \in 1 .. Len(file'), NEW j \in 1 .. Len(file'),
                          file'[i] = file'[j]
                   PROVE  i = j
        OBVIOUS
      <3>1. CASE file'[i] = r BY <2>2, <3>1
      <3>2. CASE file'[i] = Malformed /\ torn BY <2>2, <3>2
      <3>3. CASE file'[i] # r /\ ~(file'[i] = Malformed /\ torn)
        <4>1. i \in 1 .. Len(file) /\ j \in 1 .. Len(file) BY <1>6, <3>3
        <4>2. file[i] = file[j] BY <1>4, <4>1
        <4> QED BY <4>1, <4>2 DEF InboxInv, FileOK
      <3> QED BY <3>1, <3>2, <3>3
    <2> QED BY <1>1, <2>1, <2>3 DEF FileOK
  <1> QED BY <1>1, <1>7, <1>9, <1>10, InboxGoes

\* One residue in all: a second one could look like the first.
LEMMA TearStep ==
    ASSUME Inbox!TypeOK, InboxInv, MaxTear <= 1, Inbox!Tear
    PROVE  Inbox!TypeOK' /\ InboxInv'
  <1>0. file \in Seq(Inbox!Line) /\ faults \in FaultRow /\ MaxTear \in Nat
    BY InboxTypes, NoSentinels
  <1>1. /\ UNCHANGED <<file, cursor, mark, drain, alive, seen, past, used>> /\ torn' = TRUE
        /\ faults.tear < MaxTear /\ faults' = [faults EXCEPT !.tear = @ + 1]
    BY DEF Inbox!Tear, Inbox!Spend
  <1>2. faults.tear = 0 /\ faults'.tear = 1 /\ faults' \in FaultRow
    BY <1>0, <1>1 DEF FaultRow
  <1>3. Inbox!TypeOK'
    <2>1. torn' \in BOOLEAN BY <1>1, Zenon
    <2> QED BY <1>1, <1>2, <2>1 DEF Inbox!TypeOK, FaultRow
  <1>4. ~Mended BY <1>2 DEF Mended
  <1>5. Evolves
    <2>1. \A w \in Window : Took(w) \subseteq Took(w)' BY <1>1 DEF Took
    <2> QED BY <1>0, <1>1, <1>4, <2>1 DEF Evolves
  <1>6. FileOK'
    <2>1. Known(file) /\ \A i, j \in 1 .. Len(file) : file[i] = file[j] => i = j
      BY DEF InboxInv, FileOK
    <2>2. Known(file)' BY <1>1, <1>4, <2>1 DEF Known
    <2> QED BY <1>1, <1>2, <2>1, <2>2 DEF FileOK
  <1> QED BY <1>1, <1>3, <1>5, <1>6, InboxGoes

LEMMA RotateStep ==
    ASSUME Inbox!TypeOK, InboxInv, Inbox!Rotate
    PROVE  Inbox!TypeOK' /\ InboxInv'
  <1>0. /\ file \in Seq(Inbox!Line) /\ Len(file) \in Nat /\ Len(file) <= MaxLen
        /\ MaxLen \in Nat /\ faults \in FaultRow
    BY InboxTypes, NoSentinels
  <1>1. UNCHANGED <<cursor, mark, drain, alive, seen, past, used>> /\ torn' = FALSE
    BY DEF Inbox!Rotate
  <1>2. faults' \in FaultRow /\ faults'.tear = faults.tear
    <2>1. faults' = [faults EXCEPT !.rotate = @ + 1] BY DEF Inbox!Rotate, Inbox!Spend
    <2> QED BY <1>0, <2>1 DEF FaultRow
  <1>3. PICK n \in 1 .. Len(file) : file' = SubSeq(file, n + 1, Len(file))
    BY DEF Inbox!Rotate
  <1>4. n \in Nat /\ n + 1 \in Int /\ Len(file) \in Int BY <1>0
  <1>5. \A i \in n + 1 .. Len(file) : file[i] \in Inbox!Line BY <1>0, <1>4
  <1>6. /\ file' \in Seq(Inbox!Line)
        /\ Len(file') = IF n + 1 <= Len(file) THEN Len(file) - (n + 1) + 1 ELSE 0
        /\ \A i \in 1 .. Len(file') : file'[i] = file[n + 1 + i - 1]
    BY <1>3, <1>4, <1>5, SubSeqProperties
  <1>7. /\ Len(file') \in Nat /\ Len(file') <= MaxLen
        /\ \A i \in 1 .. Len(file') : n + i \in 1 .. Len(file) /\ file'[i] = file[n + i]
    <2>1. Len(file') \in Nat /\ Len(file') <= MaxLen /\ Len(file') = Len(file) - n
      BY <1>0, <1>4, <1>6
    <2>2. ASSUME NEW i \in 1 .. Len(file')
          PROVE  n + i \in 1 .. Len(file) /\ file'[i] = file[n + i]
      <3>1. n + i \in 1 .. Len(file) BY <1>0, <1>4, <2>1
      <3>2. n + 1 + i - 1 = n + i BY <1>4
      <3> QED BY <1>6, <3>1, <3>2
    <2> QED BY <2>1, <2>2
  <1>8. Inbox!TypeOK'
    <2>1. torn' \in BOOLEAN BY <1>1, Zenon
    <2> QED BY <1>1, <1>2, <1>6, <1>7, <2>1 DEF Inbox!TypeOK, FaultRow
  <1>9. Mended => Mended' BY <1>1, <1>2 DEF Mended
  <1>10. Evolves
    <2>1. ASSUME NEW i \in 1 .. Len(file')
          PROVE  Inbox!Upto(file', i) \subseteq Inbox!Upto(file, n + i)
      <3> SUFFICES ASSUME NEW x \in Inbox!Upto(file', i) PROVE x \in Inbox!Upto(file, n + i)
        OBVIOUS
      <3>1. PICK y \in (1 .. i) \intersect DOMAIN file' : x = file'[y] /\ x # Malformed
        BY DEF Inbox!Upto
      <3>2. y \in 1 .. Len(file') BY <1>7
      <3>3. /\ n + y \in 1 .. Len(file) /\ x = file[n + y] /\ n + y \in 1 .. n + i
            /\ DOMAIN file = 1 .. Len(file)
        BY <1>0, <1>4, <1>7, <3>1, <3>2
      <3> QED BY <3>1, <3>3 DEF Inbox!Upto
    <2>2. \A w \in Window : Took(w) \subseteq Took(w)' BY <1>1 DEF Took
    <2>3. ASSUME NEW i \in 1 .. Len(file')
          PROVE  \E h \in 1 .. Len(file) :
                     /\ file'[i] = file[h]
                     /\ Inbox!Upto(file', i) \subseteq Inbox!Upto(file, h)
      BY <1>7, <2>1
    <2> QED BY <1>1, <1>6, <1>9, <2>2, <2>3 DEF Evolves
  <1>11. FileOK'
    <2>1. Known(file) /\ \A i, j \in 1 .. Len(file) : file[i] = file[j] => i = j
      BY DEF InboxInv, FileOK
    <2>2. Known(file)'
      <3> SUFFICES ASSUME NEW i \in 1 .. Len(file')
                   PROVE  file'[i] \in used' \/ (file'[i] = Malformed /\ Mended')
        BY DEF Known
      <3>1. n + i \in 1 .. Len(file) /\ file'[i] = file[n + i] BY <1>7
      <3> QED BY <1>1, <1>9, <2>1, <3>1 DEF Known
    <2>3. ASSUME NEW i \in 1 .. Len(file'), NEW j \in 1 .. Len(file'), file'[i] = file'[j]
          PROVE  i = j
      <3>1. n + i = n + j BY <1>7, <2>1, <2>3
      <3> QED BY <1>4, <3>1
    <2> QED BY <1>1, <2>2, <2>3 DEF FileOK
  <1> QED BY <1>1, <1>8, <1>10, <1>11, InboxGoes

LEMMA InboxInit == ASSUME Inbox!Init PROVE Inbox!TypeOK /\ InboxInv
  <1> HIDE DEF Separate
  <1>0. /\ file = <<>> /\ file \in Seq(Inbox!Line) /\ Len(file) = 0 /\ MaxLen \in Nat
        /\ drain = [d \in Drain |-> Inbox!Idle] /\ cursor = [w \in Window |-> None]
        /\ mark = None /\ past = [w \in Window |-> {}] /\ seen = [w \in Window |-> {}]
        /\ alive = {} /\ used = {} /\ torn = FALSE
    BY NoSentinels DEF Inbox!Init
  <1>1. \A d \in Drain : drain[d] = Inbox!Idle BY <1>0
  <1>2. drain \in [Drain -> DrainRow] BY <1>0, IdleDrain
  <1>3. faults \in FaultRow BY DEF Inbox!Init, FaultRow
  <1>4. /\ cursor \in [Window -> Inbox!Cursor \union {None}]
        /\ seen \in [Window -> SUBSET Row] /\ past \in [Window -> SUBSET Row]
    BY <1>0
  <1>5. Inbox!TypeOK
    <2>1. \A d \in Drain : drain[d].pc = "idle" BY <1>1, IdleDrain
    <2>2. Len(file) <= MaxLen
      <3>1. Len(file) = 0 /\ MaxLen \in Nat BY <1>0
      <3> QED BY <3>1
    <2>3. mark \in Nat \union {None} BY <1>0
    <2>4. torn \in BOOLEAN BY <1>0, Zenon
    <2>5. drain \in [Drain -> [pc: Inbox!Pc, line: Nat, own: Inbox!Cursor \union {None},
                               lines: Seq(Inbox!Line)]]
      BY <1>2 DEF DrainRow
    <2>6. alive \in SUBSET Window /\ used \in SUBSET Row BY <1>0
    <2>7. file \in Seq(Inbox!Line) BY <1>0
    <2>8. faults \in [rotate: Nat, crash: Nat, throw: Nat, tear: Nat] BY <1>3 DEF FaultRow
    <2> QED BY <1>4, <2>1, <2>2, <2>3, <2>4, <2>5, <2>6, <2>7, <2>8 DEF Inbox!TypeOK
  <1>6. FileOK BY <1>0 DEF FileOK, Known
  <1>7. InboxInv BY <1>0, <1>1, <1>6, IdleDrain DEF InboxInv, DrainOK
  <1> QED BY <1>5, <1>7

LEMMA InboxNext ==
    ASSUME MaxTear <= 1, Inbox!TypeOK, InboxInv, [QueuesNext]_queuesVars
    PROVE  Inbox!TypeOK' /\ InboxInv'
  <1>1. CASE UNCHANGED inbox
    <2>1. UNCHANGED <<file, torn, cursor, mark, drain, alive, seen, past, used, faults>>
      BY <1>1 DEF inbox
    <2>2. Inbox!TypeOK' BY <2>1 DEF Inbox!TypeOK
    <2>3. \A w \in Window : Took(w) \subseteq Took(w)' BY <2>1 DEF Took
    <2>4. Evolves /\ FileOK' BY <2>1, <2>3, FileStays DEF InboxInv
    <2> QED BY <2>1, <2>2, <2>4, InboxGoes
  <1>2. CASE Inbox!Next
    BY <1>2, SeedStep, ReadStep, ResyncStep, HandleStep, EndSteps, WindowSteps, AppendStep,
       TearStep, RotateStep
       DEF Inbox!Next, Inbox!DrainStep
  <1> QED
    BY <1>1, <1>2 DEF QueuesNext, PlaneSteps, FileSteps, Rest, queuesVars

\* The two ways to a role, for any number of keys, recipients, clients and lost
\* connections, and of rows, windows, overlapping drains, deaths, raising handlers
\* and rotations: a recipient's sequences are 1..last_sequence without a gap, all
\* answers to the sends of a key name its one message, and a cursor whose anchor
\* fits stands only behind rows that its window has handled or was seeded past,
\* however often the queue was rotated and has grown since.  Two residues of torn
\* writes may be the same line, so at most one is torn.
THEOREM QueuesSound == ASSUME MaxTear <= 1 PROVE QueuesSpec => []QueuesAreSound
  <1>1. QueuesInit => Inbox!TypeOK /\ InboxInv BY InboxInit DEF QueuesInit
  <1>2. Inbox!TypeOK /\ InboxInv /\ [QueuesNext]_queuesVars => (Inbox!TypeOK /\ InboxInv)'
    BY InboxNext
  <1>3. Inbox!TypeOK /\ InboxInv => Inbox!AnchoredCursorIsSound
    <2> SUFFICES ASSUME Inbox!TypeOK, InboxInv, NEW w \in Window, Inbox!InStep(w)
                 PROVE  Inbox!Upto(file, cursor[w].line) \subseteq seen[w] \union past[w]
      BY DEF Inbox!AnchoredCursorIsSound
    <2>1. PICK c \in Inbox!Cursor :
              /\ c = cursor[w] /\ c.line <= Len(file)
              /\ c.anchor = Inbox!AnchorAt(file, c.line)
      BY InboxTypes DEF Inbox!InStep
    <2>2. AnchorOK(w, c) BY <2>1 DEF InboxInv, Inbox!InStep
    <2>3. c.line \in Nat /\ Len(file) \in Nat BY InboxTypes DEF Inbox!Cursor
    <2>4. CASE c.line = 0
      <3>1. Inbox!Upto(file, 0) = {} BY DEF Inbox!Upto
      <3> QED BY <2>1, <2>4, <3>1
    <2>5. CASE c.line # 0
      <3>1. c.line \in 1 .. Len(file) BY <2>1, <2>3, <2>5
      <3>2. file[c.line] = c.anchor BY <2>1, <3>1 DEF Inbox!AnchorAt
      <3> QED BY <2>1, <2>2, <3>1, <3>2 DEF AnchorOK, Took
    <2> QED BY <2>4, <2>5
  <1>4. PlaneInv => TypeOK /\ SequencesAreGapless /\ AnswersNameOneMessage
    <2> SUFFICES ASSUME PlaneInv, NEW r \in Recipient
                 PROVE  Sequences(r) = 1 .. last[r] /\ Cardinality(Inbound(r)) = last[r]
      BY DEF PlaneInv, SequencesAreGapless, Inbound
    <2>1. Numbered(r) BY DEF PlaneInv
    <2>2. Sequences(r) = {message[k].seq : k \in Inbound(r)} BY DEF Sequences, Inbound
    <2>3. Sequences(r) = 1 .. last[r] BY <2>1, <2>2 DEF Numbered
    <2> QED BY <2>1, <2>3 DEF Numbered
  <1>5. PlaneInv /\ Inbox!TypeOK /\ InboxInv => QueuesAreSound
    BY <1>3, <1>4 DEF QueuesAreSound, QueuesTypeOK
  <1> QED BY <1>1, <1>2, <1>5, PlaneSafe, PTL DEF QueuesSpec
=============================================================================
