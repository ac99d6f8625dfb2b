------------------------------ MODULE MCQueues ------------------------------
(***************************************************************************)
(* The two ways in which a message reaches a role, under fairness: through *)
(* the database (MessagePlane) and through its queue file (DurableInbox).  *)
(* They have no state in common, so a behaviour explores one of them; the  *)
(* other one stays as it started, with no call or window to be fair to.    *)
(***************************************************************************)
EXTENDS MessagePlane, TLC

CONSTANTS a, b, g1,                                       \* MessagePlane
          w1, w2, d1, d2, Row, Window, Drain, Malformed,  \* DurableInbox
          MaxLen, MaxRotate, MaxCrash, MaxThrow, MaxTear

\* A relay of one of two roles; what is sent to the other one is for its
\* round trips.
OwnRole == g1 :> a

\* One drain at a time in each of two windows.
Separate == (d1 :> w1) @@ (d2 :> w2)

ASSUME InboxAssumption ==
    /\ Separate \in [Drain -> Window]
    /\ None \notin Row \union {Malformed} /\ Malformed \notin Row
    /\ {MaxLen, MaxRotate, MaxCrash, MaxThrow, MaxTear} \subseteq Nat

VARIABLES
    way,                                                  \* the way explored
    file, torn, cursor, mark, drain, alive, seen, past, used, faults

Inbox == INSTANCE DurableInbox WITH OwnerOf <- Separate

inbox == <<file, torn, cursor, mark, drain, alive, seen, past, used, faults>>
queuesVars == <<way, vars, inbox>>

QueuesInit == way \in {"plane", "file"} /\ Init /\ Inbox!Init

PlaneSteps == way = "plane" /\ Next /\ UNCHANGED <<way, inbox>>
FileSteps == way = "file" /\ Inbox!Next /\ UNCHANGED <<way, vars>>

\* Rows and faults run out.
Rest == way = "file" /\ UNCHANGED queuesVars

QueuesNext == PlaneSteps \/ FileSteps \/ Rest

\* The fairness of the two modules: calls return, and a relay claims while it
\* finds its role cut over; drains run on and a live window starts one every
\* three seconds.
QueuesSpec ==
    /\ QueuesInit /\ [][QueuesNext]_queuesVars
    /\ \A c \in Client : WF_vars(Call(c))
    /\ \A d \in Drain : WF_inbox(Inbox!DrainStep(d))

-----------------------------------------------------------------------------
\* Every variable of the way explored has its type.
QueuesTypeOK == IF way = "plane" THEN TypeOK ELSE Inbox!TypeOK

\* Sequences, keys and cursors survive races, retries, lost connections and
\* rotations: sequences have no gaps, answers name one message per key, and no
\* cursor stands behind a row of a queue that grew past it.
QueuesAreSound ==
    /\ QueuesTypeOK /\ SequencesAreGapless /\ AnswersNameOneMessage
    /\ Inbox!AnchoredCursorIsSound

\* kernel_claim_message_v1: a message is given to one claimant, and never before an
\* earlier one that is free.
DeliveredOnceInOrder == []DeliveredOnce /\ ClaimedInOrder

\* durable_inbox.ts: every row reaches every window that keeps running, after a
\* handler raised, a torn line or a rotation.
EveryWindowSeesEveryRow == Inbox!EveryWindowSeesEveryRow

=============================================================================
