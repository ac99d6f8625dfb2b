--------------------------- MODULE ChannelEffects ---------------------------
(***************************************************************************)
(* The channel half of scripts/company_scribe_effect_broker.py: the tools  *)
(* channel_send and channel_reply, and the recovery of prepared channel    *)
(* effects.  A send appends one row to the target role's queue and one to  *)
(* the audit log, a reply appends the acknowledged row of a delivered      *)
(* event to the delivery journal it shares with the Scribe webhook.        *)
(* Channel calls do not take the workspace mutation lock: a call holds the *)
(* flock of its own journal record, and an append the flock of its file.   *)
(***************************************************************************)
EXTENDS Naturals, Sequences, FiniteSets

CONSTANTS
    Effect,      \* effect_id values; a send's send_id is its effect's hash
    Client,      \* connection worker threads of the channel capability
    Recovery,    \* the thread that runs _recover_prepared_channel_effects
    Target,      \* receiving roles, each with its queue_<role>.jsonl
    Event,       \* events of the delivery journal, by event_id
    Text,        \* message bodies and verdicts
    Stamp,       \* values of sent_at and transitioned_at
    Clock,       \* the stamps the record of each effect may be given
    Request,     \* the calls clients may make
    Audit,       \* audit_sends.jsonl
    Delivery,    \* delivery_journal.jsonl
    None,
    MaxCrash, MaxLapse, MaxRaise   \* fault budgets

\* What a row is appended to: a queue, the audit log, or the rows that the
\* delivery journal has for one event.
Log == Target \union {Audit} \union Event
File == Target \union {Audit, Delivery}
FileOf(l) == IF l \in Event THEN Delivery ELSE l

ASSUME RequestAssumption ==
    Request \subseteq
        [tool: {"channel_send"}, to: Target, text: Text]
            \union [tool: {"channel_reply"}, to: Event, text: Text]

ASSUME ClockAssumption == Clock \in [Effect -> (SUBSET Stamp) \ {{}}]

DeliveryState == {"pending", "delivered", "acknowledged"}

ASSUME SentinelAssumption ==
    /\ Recovery \notin Client
    /\ Audit \notin Target \union Event /\ Delivery \notin Log
    /\ Target \cap Event = {} /\ None \notin Log \union Text \union Effect
    /\ Effect \cap DeliveryState = {}

ASSUME BoundAssumption == {MaxCrash, MaxLapse, MaxRaise} \subseteq Nat

Thread == Client \union {Recovery}

\* A queue or audit row is identified by its send_id, a delivery row by its
\* event and state.  The rest of the row is its text and its timestamp.
Row == [id: Effect \union DeliveryState, text: Text \union {None},
        stamp: Stamp \union {None}]

VARIABLES
    journal,  \* effect-journal: one record per effect_id
    log,      \* the rows of every append-only channel file
    twice,    \* the files whose temporary name still exists (st_nlink is 2)
    thread,   \* the connection threads and the recovery thread
    daemon,   \* the broker process
    auth,     \* EffectAuthority.check would succeed
    late,     \* history: rows appended to a file since the authority was live
    faults    \* history: how much of each fault budget is used

vars == <<journal, log, twice, thread, daemon, auth, late, faults>>

Record == [state: {"none", "prepared", "completed"},
           req: Request \union {None}, row: Row \union {None}]
NoRecord == [state |-> "none", req |-> None, row |-> None]
Pc == {"idle", "entered", "recheck", "append", "linking", "linked", "opened",
       "checked", "finish"}
Idle == [pc |-> "idle", eff |-> None, req |-> None, log |-> None]

TypeOK ==
    /\ journal \in [Effect -> Record]
    /\ \A e \in Effect :
           journal[e].state # "none" => journal[e].req \in Request
    /\ \A e \in Effect : journal[e].state = "prepared" => journal[e].row \in Row
    /\ log \in [Log -> Seq(Row)]
    /\ twice \subseteq File
    /\ thread \in [Thread -> [pc: Pc, eff: Effect \union {None},
                              req: Request \union {None},
                              log: Log \union {None}]]
    /\ \A t \in Thread : thread[t].pc # "idle" =>
           thread[t].eff \in Effect /\ thread[t].req \in Request
    /\ \A t \in Thread : thread[t].pc \in {"append", "linking", "linked",
                                         "opened", "checked"} =>
           /\ thread[t].log \in Log
           /\ journal[thread[t].eff].state = "prepared"
    /\ daemon \in {"down", "recovering", "ready"}
    /\ auth \in BOOLEAN
    /\ late \in [File -> Nat]
    /\ faults \in [crash: Nat, lapse: Nat, raise: Nat]

Init ==
    /\ journal = [e \in Effect |-> NoRecord]
    /\ log = [l \in Log |-> <<>>]
    /\ twice = {}
    /\ thread = [t \in Thread |-> Idle]
    /\ daemon = "down"
    /\ auth = TRUE
    /\ late = [f \in File |-> 0]
    /\ faults = [crash |-> 0, lapse |-> 0, raise |-> 0]

-----------------------------------------------------------------------------
(* What the steps read.                                                    *)

At(t, p) == thread[t].pc = p
EffOf(t) == thread[t].eff
ReqOf(t) == thread[t].req
RecOf(t) == journal[EffOf(t)]
LogOf(t) == log[thread[t].log]

Prepared == {e \in Effect : journal[e].state = "prepared"}

\* The effect record's flock is held by the call that is working on it.
EffectLocked(e) == \E t \in Thread : ~At(t, "idle") /\ EffOf(t) = e

\* Deviation: the flock is taken on open and once more, by another descriptor.
WrongDoubleLock(f) ==
    \E t \in Thread : thread[t].pc \in {"opened", "checked"}
                      /\ FileOf(thread[t].log) = f

\* A file's flock is held from the scan to the append.
FileLocked(f) ==
    \E t \in Thread : At(t, "checked") /\ FileOf(thread[t].log) = f

\* _delivery_snapshot: the state and the verdict of the event's last row.
Snapshot(v) == log[v][Len(log[v])]
StateOf(v) == IF log[v] = <<>> THEN "unknown" ELSE Snapshot(v).id

Goto(t, p, l) == thread' = [thread EXCEPT ![t].pc = p, ![t].log = l]
Leave(t) == thread' = [thread EXCEPT ![t] = Idle]
Write(t, rec) == journal' = [journal EXCEPT ![EffOf(t)] = rec]

\* An exception leaves the handler; the recovery's ends the daemon.
GiveUp(t) ==
    /\ Leave(t)
    /\ daemon' = IF t = Recovery THEN "down" ELSE daemon

-----------------------------------------------------------------------------
(* Entering a call: _call_channel_tool and MutationJournal.locked.         *)

Enter(t, e, r) ==
    /\ At(t, "idle")
    /\ ~EffectLocked(e)
    /\ thread' = [thread EXCEPT ![t] = [pc |-> "entered", eff |-> e,
                                        req |-> r, log |-> None]]
    /\ UNCHANGED <<journal, log, twice, daemon, auth, late, faults>>

CallTool(c, e, r) == daemon = "ready" /\ Enter(c, e, r)

\* An effect_id used for another request is refused, a completed effect is
\* answered from the journal.
Replay(t) ==
    /\ At(t, "entered")
    /\ \/ RecOf(t).state # "none" /\ RecOf(t).req # ReqOf(t)
       \/ RecOf(t).state = "completed"
    /\ GiveUp(t)
    /\ UNCHANGED <<journal, log, twice, auth, late, faults>>

\* A fresh send journals the rows it will append.
PrepareSend(t, s) ==
    /\ At(t, "entered")
    /\ ReqOf(t).tool = "channel_send"
    /\ RecOf(t).state = "none"
    /\ Write(t, [state |-> "prepared", req |-> ReqOf(t),
                 row |-> [id |-> EffOf(t), text |-> ReqOf(t).text,
                          stamp |-> s]])
    /\ Goto(t, "append", ReqOf(t).to)
    /\ UNCHANGED <<log, twice, daemon, auth, late, faults>>

\* A fresh reply to a delivered event journals its acknowledged row.
PrepareReply(t, s) ==
    /\ At(t, "entered")
    /\ ReqOf(t).tool = "channel_reply"
    /\ RecOf(t).state = "none"
    /\ StateOf(ReqOf(t).to) = "delivered"
    /\ Write(t, [state |-> "prepared", req |-> ReqOf(t),
                 row |-> [id |-> "acknowledged", text |-> ReqOf(t).text,
                          stamp |-> s]])
    /\ Goto(t, "recheck", None)
    /\ UNCHANGED <<log, twice, daemon, auth, late, faults>>

\* Deviation: a fresh reply is a duplicate of any acknowledgment.
WrongDuplicateReply(t) ==
    /\ At(t, "entered")
    /\ ReqOf(t).tool = "channel_reply"
    /\ RecOf(t).state = "none"
    /\ StateOf(ReqOf(t).to) = "acknowledged"
    /\ Write(t, [state |-> "completed", req |-> ReqOf(t), row |-> None])
    /\ Leave(t)
    /\ UNCHANGED <<log, twice, daemon, auth, late, faults>>

\* A fresh reply that repeats the verdict of an acknowledged event is a
\* duplicate: it is completed without a row of its own.
DuplicateReply(t) ==
    /\ At(t, "entered")
    /\ ReqOf(t).tool = "channel_reply"
    /\ RecOf(t).state = "none"
    /\ StateOf(ReqOf(t).to) = "acknowledged"
    /\ Snapshot(ReqOf(t).to).text = ReqOf(t).text
    /\ Write(t, [state |-> "completed", req |-> ReqOf(t), row |-> None])
    /\ Leave(t)
    /\ UNCHANGED <<log, twice, daemon, auth, late, faults>>

\* An unknown event, one that is not delivered, or one acknowledged with
\* another verdict: nothing is journaled.
RefuseReply(t) ==
    /\ At(t, "entered")
    /\ ReqOf(t).tool = "channel_reply"
    /\ RecOf(t).state = "none"
    /\ \/ StateOf(ReqOf(t).to) \in {"unknown", "pending"}
       \/ /\ StateOf(ReqOf(t).to) = "acknowledged"
          /\ Snapshot(ReqOf(t).to).text # ReqOf(t).text
    /\ GiveUp(t)
    /\ UNCHANGED <<journal, log, twice, auth, late, faults>>

\* A prepared record is taken up where its rows say: a send at its queue, a
\* reply at the comparison with the delivery journal.
Resume(t) ==
    /\ At(t, "entered")
    /\ RecOf(t).state = "prepared"
    /\ RecOf(t).req = ReqOf(t)
    /\ IF ReqOf(t).tool = "channel_send" THEN Goto(t, "append", ReqOf(t).to)
                                         ELSE Goto(t, "recheck", None)
    /\ UNCHANGED <<journal, log, twice, daemon, auth, late, faults>>

\* The event is still delivered: go on to the append.
StillDelivered(t) ==
    /\ At(t, "recheck")
    /\ StateOf(ReqOf(t).to) = "delivered"
    /\ Goto(t, "append", ReqOf(t).to)
    /\ UNCHANGED <<journal, log, twice, daemon, auth, late, faults>>

\* It was acknowledged with this verdict meanwhile: nothing is appended.
AlreadyAcknowledged(t) ==
    /\ At(t, "recheck")
    /\ StateOf(ReqOf(t).to) = "acknowledged"
    /\ Snapshot(ReqOf(t).to).text = ReqOf(t).text
    /\ auth
    /\ Goto(t, "finish", None)
    /\ UNCHANGED <<journal, log, twice, daemon, auth, late, faults>>

\* "prepared channel reply no longer matches delivery state".
ReplyMismatch(t) ==
    /\ At(t, "recheck")
    /\ StateOf(ReqOf(t).to) # "delivered"
    /\ StateOf(ReqOf(t).to) = "acknowledged" =>
           Snapshot(ReqOf(t).to).text # ReqOf(t).text
    /\ GiveUp(t)
    /\ UNCHANGED <<journal, log, twice, auth, late, faults>>

-----------------------------------------------------------------------------
(* _append_jsonl_once.                                                     *)

\* After one append: a send goes on to the audit log, then the effect is
\* finished.
Advance(t) ==
    IF thread[t].log \in Target THEN Goto(t, "append", Audit)
                                ELSE Goto(t, "finish", None)

Landed(t) ==
    /\ log' = [log EXCEPT ![thread[t].log] = Append(@, RecOf(t).row)]
    /\ late' = [late EXCEPT ![FileOf(thread[t].log)] =
                    IF auth THEN 0 ELSE @ + 1]

SameIdentity(t) ==
    {i \in DOMAIN LogOf(t) : LogOf(t)[i].id = RecOf(t).row.id}

\* The file does not exist: write it aside, check the authority and link it.
CreateFile(t) ==
    /\ At(t, "append")
    /\ LogOf(t) = <<>>
    /\ auth
    /\ Goto(t, "linking", thread[t].log)
    /\ UNCHANGED <<journal, log, twice, daemon, auth, late, faults>>

\* Deviation: the new file is renamed into place, over what is there.
WrongLinkFile(t) ==
    /\ At(t, "linking")
    /\ log' = [log EXCEPT ![thread[t].log] = <<RecOf(t).row>>]
    /\ late' = [late EXCEPT ![FileOf(thread[t].log)] =
                    IF auth THEN 0 ELSE @ + 1]
    /\ Advance(t)
    /\ UNCHANGED <<journal, twice, daemon, auth, faults>>

\* link(2) publishes the file with its one row, which has two names until the
\* temporary one is removed.
LinkFile(t) ==
    /\ At(t, "linking")
    /\ LogOf(t) = <<>>
    /\ Landed(t)
    /\ twice' = twice \union {FileOf(thread[t].log)}
    /\ Goto(t, "linked", thread[t].log)
    /\ UNCHANGED <<journal, daemon, auth, faults>>

\* The directory is fsynced and the temporary name removed.
UnlinkTemporary(t) ==
    /\ At(t, "linked")
    /\ twice' = twice \ {FileOf(thread[t].log)}
    /\ Advance(t)
    /\ UNCHANGED <<journal, log, daemon, auth, late, faults>>

\* The file exists, or somebody else has linked it meanwhile, which takes no
\* further check of the authority.
Opening(t) ==
    /\ (At(t, "append") /\ auth) \/ At(t, "linking")
    /\ LogOf(t) # <<>>

\* It has its one name: open it and wait for its flock.
OpenFile(t) ==
    /\ Opening(t)
    /\ FileOf(thread[t].log) \notin twice
    /\ Goto(t, "opened", thread[t].log)
    /\ UNCHANGED <<journal, log, twice, daemon, auth, late, faults>>

\* "channel mutation target is unsafe": it has a second name.
RefuseFile(t) ==
    /\ Opening(t)
    /\ FileOf(thread[t].log) \in twice
    /\ GiveUp(t)
    /\ UNCHANGED <<journal, log, twice, auth, late, faults>>

\* Under the flock: the row is already there, byte for byte.
AlreadyThere(t) ==
    /\ At(t, "opened")
    /\ ~FileLocked(FileOf(thread[t].log))
    /\ SameIdentity(t) # {}
    /\ \A i \in SameIdentity(t) : LogOf(t)[i] = RecOf(t).row
    /\ Advance(t)
    /\ UNCHANGED <<journal, log, twice, daemon, auth, late, faults>>

\* A row with this identity and other bytes: raise.
IdentityConflict(t) ==
    /\ At(t, "opened")
    /\ ~FileLocked(FileOf(thread[t].log))
    /\ \E i \in SameIdentity(t) : LogOf(t)[i] # RecOf(t).row
    /\ GiveUp(t)
    /\ UNCHANGED <<journal, log, twice, auth, late, faults>>

\* Deviation: the check next to the append is left out.
WrongScan(t) ==
    /\ At(t, "opened")
    /\ ~FileLocked(FileOf(thread[t].log))
    /\ SameIdentity(t) = {}
    /\ Goto(t, "checked", thread[t].log)
    /\ UNCHANGED <<journal, log, twice, daemon, auth, late, faults>>

\* No such row: check the authority, the flock stays held.
Scan(t) ==
    /\ At(t, "opened")
    /\ ~FileLocked(FileOf(thread[t].log))
    /\ SameIdentity(t) = {}
    /\ auth
    /\ Goto(t, "checked", thread[t].log)
    /\ UNCHANGED <<journal, log, twice, daemon, auth, late, faults>>

\* The write, its fsync and its read-back; the flock is released.
AppendRow(t) ==
    /\ At(t, "checked")
    /\ Landed(t)
    /\ Advance(t)
    /\ UNCHANGED <<journal, twice, daemon, auth, faults>>

\* The completed record and the answer.
Complete(t) ==
    /\ At(t, "finish")
    /\ Write(t, [RecOf(t) EXCEPT !.state = "completed"])
    /\ Leave(t)
    /\ UNCHANGED <<log, twice, daemon, auth, late, faults>>

\* A step that checks the authority raises (none does between the link and
\* the unlink).
LacksAuthority(t) == ~auth /\ ~At(t, "linked")

\* An authority check, an I/O call, a read-back or a journal write raises; the
\* creator's finally clause removes the temporary name.
Raise(t) ==
    /\ ~At(t, "idle")
    /\ LacksAuthority(t) \/ faults.raise < MaxRaise
    /\ faults' = IF LacksAuthority(t) THEN faults
                                     ELSE [faults EXCEPT !.raise = @ + 1]
    /\ twice' = IF At(t, "linked") THEN twice \ {FileOf(thread[t].log)}
                                   ELSE twice
    /\ GiveUp(t)
    /\ UNCHANGED <<journal, log, auth, late>>

-----------------------------------------------------------------------------
(* serve_effect_daemon, as far as channel effects are concerned.           *)

StartDaemon ==
    /\ daemon = "down"
    /\ daemon' = "recovering"
    /\ UNCHANGED <<journal, log, twice, thread, auth, late, faults>>

\* _recover_prepared_channel_effects calls the handler again with the
\* arguments it rebuilds from the record.
RecoverRecord(e) ==
    /\ daemon = "recovering"
    /\ e \in Prepared
    /\ auth
    /\ Enter(Recovery, e, journal[e].req)

BecomeReady ==
    /\ daemon = "recovering"
    /\ At(Recovery, "idle")
    /\ Prepared = {}
    /\ daemon' = "ready"
    /\ UNCHANGED <<journal, log, twice, thread, auth, late, faults>>

Crash ==
    /\ daemon # "down"
    /\ faults.crash < MaxCrash
    /\ faults' = [faults EXCEPT !.crash = @ + 1]
    /\ daemon' = "down"
    /\ thread' = [t \in Thread |-> Idle]
    /\ UNCHANGED <<journal, log, twice, auth, late>>

-----------------------------------------------------------------------------
(* The environment: the lease, and the webhook that owns the pending and   *)
(* delivered rows of the delivery journal.                                 *)

Lapse ==
    /\ auth
    /\ faults.lapse < MaxLapse
    /\ auth' = FALSE
    /\ faults' = [faults EXCEPT !.lapse = @ + 1]
    /\ UNCHANGED <<journal, log, twice, thread, daemon, late>>

Renew ==
    /\ ~auth
    /\ auth' = TRUE
    /\ late' = [f \in File |-> 0]
    /\ UNCHANGED <<journal, log, twice, thread, daemon, faults>>

\* DurableDeliveryStore.ensurePending and markDelivered (nobody compares the
\* timestamps of their rows).
DeliveryRow(v, s) ==
    /\ \/ log[v] = <<>> /\ s = "pending"
       \/ StateOf(v) = "pending" /\ s = "delivered"
    /\ log' = [log EXCEPT ![v] =
                  Append(@, [id |-> s, text |-> None, stamp |-> None])]
    /\ UNCHANGED <<journal, twice, thread, daemon, auth, late, faults>>

-----------------------------------------------------------------------------
Step(t) ==
    \/ Replay(t) \/ DuplicateReply(t) \/ RefuseReply(t) \/ Resume(t)
    \/ \E e \in Effect : \E s \in Clock[e] :
          EffOf(t) = e /\ (PrepareSend(t, s) \/ PrepareReply(t, s))
    \/ StillDelivered(t) \/ AlreadyAcknowledged(t) \/ ReplyMismatch(t)
    \/ CreateFile(t) \/ LinkFile(t) \/ UnlinkTemporary(t) \/ OpenFile(t)
    \/ RefuseFile(t) \/ AlreadyThere(t)
    \/ IdentityConflict(t) \/ Scan(t) \/ AppendRow(t) \/ Complete(t)

Next ==
    \/ \E c \in Client, e \in Effect, r \in Request : CallTool(c, e, r)
    \/ \E t \in Thread : Step(t) \/ Raise(t)
    \/ \E e \in Effect : RecoverRecord(e)
    \/ StartDaemon \/ BecomeReady \/ Crash \/ Lapse \/ Renew
    \/ \E v \in Event, s \in {"pending", "delivered"} : DeliveryRow(v, s)

Spec == Init /\ [][Next]_vars

\* As in EffectBroker: restarts, scheduling, raising checks and renewals.
Fairness ==
    /\ WF_vars(StartDaemon) /\ WF_vars(BecomeReady) /\ WF_vars(Renew)
    /\ \A e \in Effect : WF_vars(RecoverRecord(e))
    /\ \A t \in Thread : WF_vars(Step(t) \/ (LacksAuthority(t) /\ Raise(t)))

FairSpec == Spec /\ Fairness

-----------------------------------------------------------------------------
(* Properties.                                                             *)

RowsWith(l, i) == {n \in DOMAIN log[l] : log[l][n].id = i}

\* "Append exactly once": over concurrent calls that create the same file,
\* retries and crashes between the two appends, a send never has two rows in
\* its target's queue or in the audit log, and a completed send has one in
\* each (no concurrent creation of the file loses a row).
SentOnce ==
    \A e \in Effect, l \in Target \union {Audit} :
        /\ Cardinality(RowsWith(l, e)) <= 1
        /\ /\ journal[e].state = "completed"
           /\ journal[e].req.tool = "channel_send"
           /\ l \in {journal[e].req.to, Audit}
           => RowsWith(l, e) # {}

\* The audit log never names a send that its target cannot read: the audit row
\* follows the queue row, whatever crashes or raises in between.
AuditMeansQueued ==
    \A e \in Effect : RowsWith(Audit, e) # {} =>
        \E l \in Target : RowsWith(l, e) # {}

\* DurableDeliveryStore.load accepts what the broker and the webhook write
\* between them: an event's rows are pending, delivered, acknowledged, in this
\* order and each at most once, though replies race with replies and retries.
\* (A second acknowledged row would keep the webhook from starting.)
JournalLoads ==
    \A v \in Event :
        /\ Len(log[v]) <= 3
        /\ \A i \in DOMAIN log[v] :
              log[v][i].id = <<"pending", "delivered", "acknowledged">>[i]

\* The shared files stay what their readers expect of them, whoever creates,
\* appends, retries, crashes or lapses: sends appear once, the audit log behind
\* the queue, and the delivery journal can be loaded.
LogsAreSound == TypeOK /\ SentOnce /\ AuditMeansQueued /\ JournalLoads

\* A reply that was answered "acknowledged", as the first or as a duplicate,
\* is the verdict the delivery journal holds for ever.
ReplyIsDurable ==
    \A e \in Effect :
        /\ journal[e].state = "completed"
        /\ journal[e].req.tool = "channel_reply"
        => /\ StateOf(journal[e].req.to) = "acknowledged"
           /\ Snapshot(journal[e].req.to).text = journal[e].req.text

\* Once EffectAuthority.check fails, at most one row (the one whose adjacent
\* check had passed) still lands in each file: the flock spans check and write,
\* and of several creators of a file only one links it.
OneLateRowPerFile == \A f \in File : late[f] <= 1

\* "Finish durable channel effects before the daemon advertises readiness":
\* with finitely many faults, a broker that is down becomes ready.
ChannelRecoveryCompletes == daemon = "down" ~> daemon = "ready"

\* A prepared reply whose event was acknowledged with another verdict: no retry
\* and no restart can finish it.
Overtaken ==
    \E e \in Prepared :
        /\ journal[e].req.tool = "channel_reply"
        /\ StateOf(journal[e].req.to) = "acknowledged"
        /\ Snapshot(journal[e].req.to).text # journal[e].req.text

\* A file whose creator died between link and unlink: it keeps its second
\* name, and every later open of it is refused.
LeftLinked ==
    \E f \in twice : \A t \in Thread :
        At(t, "linked") => FileOf(thread[t].log) # f

\* Those two are all a restart can stumble over: whatever crashed, lapsed,
\* raised or raced, a broker that is down becomes ready unless a prepared reply
\* was overtaken by another verdict or a crash left a file with two names.
RecoversUnlessBlocked ==
    daemon = "down" ~> daemon = "ready" \/ Overtaken \/ LeftLinked

\* Every channel call returns: nobody waits for a flock for ever.
ChannelCallsReturn == \A c \in Client : ~At(c, "idle") ~> At(c, "idle")

\* No call and no restart hangs, except where a reply was overtaken or a file
\* was left with two names.
ChannelProgress == RecoversUnlessBlocked /\ ChannelCallsReturn

=============================================================================
