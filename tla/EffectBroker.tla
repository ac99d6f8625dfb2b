---------------------------- MODULE EffectBroker ----------------------------
(***************************************************************************)
(* The workspace half of scripts/company_scribe_effect_broker.py: the      *)
(* journaled tools workspace_write, workspace_edit, workspace_mkdir,       *)
(* workspace_command and workspace_commit, called by the connection        *)
(* threads of one broker daemon, and the recovery a daemon runs before it  *)
(* serves.  The journal, the workspace tree, the bound branch and the real *)
(* Git index are on disk and survive a crash; the threads, the mutation    *)
(* lock and the command supervisor's job table do not.                     *)
(***************************************************************************)
EXTENDS Naturals, Sequences, FiniteSets

CONSTANTS
    Effect,      \* effect_id values
    Client,      \* connection worker threads
    Recovery,    \* the thread that runs serve_effect_daemon's recovery
    Path,        \* workspace paths
    Value,       \* file contents, mode included
    Request,     \* the tool calls clients may make (argument hashes)
    Absent,      \* path state: nothing there
    Directory,   \* path state: a directory
    None,        \* no path, no value, no lock holder
    Outside,     \* author of a commit the broker did not make
    MaxCrash, MaxLapse, MaxRaise, MaxExternal   \* fault budgets

Tool == {"workspace_write", "workspace_edit", "workspace_mkdir",
         "workspace_command", "workspace_commit"}

\* What _path_state_beneath can report of a path.
Content == Value \union {Absent, Directory}

ASSUME RequestAssumption ==
    Request \subseteq [tool: Tool, path: Path \union {None},
                       old: Value \union {None}, value: Value \union {None}]

\* Only a command may name no path (a command without publish_paths); a
\* write, an edit and a publishing command carry the bytes they produce.
ASSUME RequestShape ==
    \A r \in Request :
        /\ r.path = None => r.tool = "workspace_command"
        /\ r.tool \in {"workspace_write", "workspace_edit"} => r.value \in Value
        /\ r.tool = "workspace_edit" => r.old \in Value
        /\ r.tool = "workspace_command" /\ r.path # None => r.value \in Value

ASSUME SentinelAssumption ==
    /\ Absent \notin Value /\ Directory \notin Value /\ Absent # Directory
    /\ Recovery \notin Client /\ None \notin Client \union {Recovery}
    /\ None \notin Path /\ None \notin Content /\ Outside \notin Effect

ASSUME BoundAssumption ==
    {MaxCrash, MaxLapse, MaxRaise, MaxExternal} \subseteq Nat

Thread == Client \union {Recovery}
Tree == [Path -> Content]

\* A commit is identified by its hash, hence by its whole ancestry: a branch
\* is the sequence of its commits and "the commit" is the branch it ends.
Commit == [by: Effect \union {Outside}, tree: Tree]
Branch == Seq(Commit)

VARIABLES
    journal,  \* effect-journal/<sha>.json: one record per effect_id
    jobs,     \* CommandSupervisor._jobs: command effects this daemon started
    thread,   \* the connection threads and the recovery thread
    mutex,    \* holder of _WORKSPACE_MUTATION_LOCK
    daemon,   \* the broker process
    fs,       \* the workspace tree on disk
    branch,   \* the bound ref, and HEAD through it
    index,    \* the tree of the real Git index
    auth,     \* EffectAuthority.check would succeed
    late,     \* history: mutations landed since the authority was last live
    applied,  \* history: visible mutations made for each effect
    faults    \* history: how much of each fault budget is used

store == <<fs, branch, index>>
vars == <<journal, jobs, thread, mutex, daemon, fs, branch, index, auth,
          late, applied, faults>>

JournalState == {"none", "prepared", "running", "publishing", "completed",
                 "failed"}
\* pre is the journaled prestate and want the desired state: path states for
\* the file tools, the old and the new commit for workspace_commit.
Record == [state: JournalState, req: Request \union {None},
           pre: Content \union {None} \union Branch,
           want: Content \union {None} \union Branch]
NoRecord == [state |-> "none", req |-> None, pre |-> None, want |-> None]

Pc == {"idle", "gated", "running", "publishing", "prepared", "checked", "ref",
       "indexchecked", "applied"}
\* seen is the publish target's state before the command; raced is history:
\* somebody else changed the checkout during this call.
Idle == [pc |-> "idle", eff |-> None, req |-> None, seen |-> None,
         raced |-> FALSE]

\* Besides the types: a record that can be replayed has the request and the
\* states the replay compares, and a thread in a handler has its request.
RecordShape(rec) ==
    /\ rec.state # "none" => rec.req \in Request
    /\ rec.state \in {"running", "publishing"} =>
           rec.req.tool = "workspace_command"
    /\ rec.state = "prepared" => rec.req.tool # "workspace_command"
    /\ rec.state = "prepared" /\ rec.req.tool = "workspace_commit" =>
           rec.pre \in Branch \ {<<>>} /\ rec.want \in Branch \ {<<>>}
    /\ rec.state = "prepared" /\ rec.req.tool # "workspace_commit" =>
           rec.pre \in Content /\ rec.want \in Content
    /\ rec.state = "publishing" =>
           rec.pre \in Content /\ rec.want \in Value

TypeOK ==
    /\ journal \in [Effect -> Record]
    /\ \A e \in Effect : RecordShape(journal[e])
    /\ jobs \subseteq Effect
    /\ thread \in [Thread -> [pc: Pc, eff: Effect \union {None},
                              req: Request \union {None},
                              seen: Content \union {None},
                              raced: BOOLEAN]]
    /\ \A t \in Thread : thread[t].pc # "idle" =>
           thread[t].eff \in Effect /\ thread[t].req \in Request
    /\ mutex \in Thread \union {None}
    /\ daemon \in {"down", "recovering", "ready"}
    /\ fs \in Tree
    /\ branch \in Branch \ {<<>>}
    /\ index \in Tree
    /\ auth \in BOOLEAN
    /\ late \in Nat
    /\ applied \in [Effect -> Nat]
    /\ faults \in [crash: Nat, lapse: Nat, raise: Nat, extern: Nat]

\* A new state directory beside a clean checkout: an empty journal, an index
\* and a tree that equal the only commit.
Init ==
    /\ journal = [e \in Effect |-> NoRecord]
    /\ jobs = {}
    /\ thread = [t \in Thread |-> Idle]
    /\ mutex = None
    /\ daemon = "down"
    /\ fs = [p \in Path |-> Absent]
    /\ branch = <<[by |-> Outside, tree |-> [p \in Path |-> Absent]]>>
    /\ index = [p \in Path |-> Absent]
    /\ auth = TRUE
    /\ late = 0
    /\ applied = [e \in Effect |-> 0]
    /\ faults = [crash |-> 0, lapse |-> 0, raise |-> 0, extern |-> 0]

-----------------------------------------------------------------------------
(* What the steps read.                                                    *)

TreeOf(b) == b[Len(b)].tree

\* The records that block readiness and every other workspace effect.
UnresolvedState == {"prepared", "running", "publishing"}
Unresolved == {e \in Effect : journal[e].state \in UnresolvedState}

\* The state a prepared or publishing record is compared with on a replay.
Current(r) == IF r.tool = "workspace_commit" THEN branch ELSE fs[r.path]

\* Deviation: the gate is left out.
WrongGate(e) == TRUE

\* _assert_no_other_unresolved_nonchannel.
NoOtherUnresolved(e) == Unresolved \subseteq {e}

At(t, p) == thread[t].pc = p
EffOf(t) == thread[t].eff
ReqOf(t) == thread[t].req
RecOf(t) == journal[EffOf(t)]

Goto(t, p) == thread' = [thread EXCEPT ![t].pc = p]

\* The handler returns or raises and leaves "with _WORKSPACE_MUTATION_LOCK".
Leave(t) ==
    /\ thread' = [thread EXCEPT ![t] = Idle]
    /\ mutex' = None

\* An exception leaves the handler: a client gets an error and may retry, the
\* recovery ends the daemon before it serves.
GiveUp(t) ==
    /\ Leave(t)
    /\ daemon' = IF t = Recovery THEN "down" ELSE daemon

Write(t, rec) == journal' = [journal EXCEPT ![EffOf(t)] = rec]

-----------------------------------------------------------------------------
(* Entering a tool call.                                                   *)

\* _call_tool: one tool call takes the mutation lock and passes the gate.  A
\* call the gate refuses changes nothing.
CallTool(c, e, r) ==
    /\ daemon = "ready"
    /\ At(c, "idle")
    /\ mutex = None
    /\ NoOtherUnresolved(e)
    /\ mutex' = c
    /\ thread' = [thread EXCEPT ![c] = [pc |-> "gated", eff |-> e, req |-> r,
                                        seen |-> None, raced |-> FALSE]]
    /\ UNCHANGED <<journal, jobs, daemon, fs, branch, index, auth, late,
                   applied, faults>>

\* Deviation: a retry of a command that ended without a terminal record waits.
WrongReplay(t) ==
    /\ At(t, "gated")
    /\ t # Recovery
    /\ RecOf(t).state # "none"
    /\ RecOf(t).req # ReqOf(t) \/ RecOf(t).state \in {"completed", "failed"}
    /\ Leave(t)
    /\ UNCHANGED <<journal, jobs, daemon, fs, branch, index, auth, late,
                   applied, faults>>

\* MutationJournal.locked and _replayed_result: an effect_id used for another
\* request and a failed effect are refused, a completed effect is answered
\* from the journal.  A command this daemon already started and left without
\* a terminal record is refused too (submit's last test).
Replay(t) ==
    /\ At(t, "gated")
    /\ t # Recovery
    /\ RecOf(t).state # "none"
    /\ \/ RecOf(t).req # ReqOf(t)
       \/ RecOf(t).state \in {"completed", "failed"}
       \/ EffOf(t) \in jobs
    /\ Leave(t)
    /\ UNCHANGED <<journal, jobs, daemon, fs, branch, index, auth, late,
                   applied, faults>>

\* _workspace_write_plan: the target is absent or a regular file, and an edit
\* finds its old text.
PlanWrite(r) ==
    IF r.tool = "workspace_edit" THEN fs[r.path] = r.old
                                 ELSE fs[r.path] \in Value \union {Absent}

\* Deviation: the journal is not consulted before a write is prepared.
WrongPrepareWrite(t) ==
    /\ At(t, "gated")
    /\ ReqOf(t).tool \in {"workspace_write", "workspace_edit"}
    /\ PlanWrite(ReqOf(t))
    /\ Write(t, [state |-> "prepared", req |-> ReqOf(t),
                 pre |-> fs[ReqOf(t).path], want |-> ReqOf(t).value])
    /\ Goto(t, "prepared")
    /\ UNCHANGED <<jobs, mutex, daemon, fs, branch, index, auth, late,
                   applied, faults>>

\* A fresh write or edit: plan it and journal the plan as prepared.
PrepareWrite(t) ==
    /\ At(t, "gated")
    /\ ReqOf(t).tool \in {"workspace_write", "workspace_edit"}
    /\ RecOf(t).state = "none"
    /\ PlanWrite(ReqOf(t))
    /\ Write(t, [state |-> "prepared", req |-> ReqOf(t),
                 pre |-> fs[ReqOf(t).path], want |-> ReqOf(t).value])
    /\ Goto(t, "prepared")
    /\ UNCHANGED <<jobs, mutex, daemon, fs, branch, index, auth, late,
                   applied, faults>>

\* A fresh mkdir: the target must be absent.
PrepareMkdir(t) ==
    /\ At(t, "gated")
    /\ ReqOf(t).tool = "workspace_mkdir"
    /\ RecOf(t).state = "none"
    /\ fs[ReqOf(t).path] = Absent
    /\ Write(t, [state |-> "prepared", req |-> ReqOf(t), pre |-> Absent,
                 want |-> Directory])
    /\ Goto(t, "prepared")
    /\ UNCHANGED <<jobs, mutex, daemon, fs, branch, index, auth, late,
                   applied, faults>>

\* A fresh commit: HEAD is the bound branch, nothing is staged, the selected
\* path is a file or the deletion of a tracked one, and it changes the tree.
\* The objects of the new commit are built in a private directory.
PlanCommit(r) ==
    /\ index = TreeOf(branch)
    /\ fs[r.path] # Directory
    /\ fs[r.path] = Absent => TreeOf(branch)[r.path] \in Value
    /\ fs[r.path] # TreeOf(branch)[r.path]

PrepareCommit(t) ==
    /\ At(t, "gated")
    /\ ReqOf(t).tool = "workspace_commit"
    /\ RecOf(t).state = "none"
    /\ auth
    /\ PlanCommit(ReqOf(t))
    /\ LET p == ReqOf(t).path
           tree == [TreeOf(branch) EXCEPT ![p] = fs[p]]
       IN  Write(t, [state |-> "prepared", req |-> ReqOf(t), pre |-> branch,
                     want |-> Append(branch, [by |-> EffOf(t),
                                              tree |-> tree])])
    /\ Goto(t, "prepared")
    /\ UNCHANGED <<jobs, mutex, daemon, fs, branch, index, auth, late,
                   applied, faults>>

\* A fresh request whose plan is refused before anything is journaled.
RefusePlan(t) ==
    /\ At(t, "gated")
    /\ RecOf(t).state = "none"
    /\ CASE ReqOf(t).tool \in {"workspace_write", "workspace_edit"} ->
                ~PlanWrite(ReqOf(t))
         [] ReqOf(t).tool = "workspace_mkdir" -> fs[ReqOf(t).path] # Absent
         [] ReqOf(t).tool = "workspace_commit" -> ~PlanCommit(ReqOf(t))
         [] OTHER -> FALSE
    /\ Leave(t)
    /\ UNCHANGED <<journal, jobs, daemon, fs, branch, index, auth, late,
                   applied, faults>>

-----------------------------------------------------------------------------
(* Replaying an unresolved record, by the client that retries it or by the *)
(* recovery.                                                               *)

\* The start of a replay: a prepared record found by _journaled_*, or a
\* publishing record in _publish_recovery.
Resuming(t) ==
    \/ At(t, "publishing")
    \/ /\ At(t, "gated")
       /\ RecOf(t).state \in {"prepared", "publishing"}
       /\ RecOf(t).req = ReqOf(t)
       /\ EffOf(t) \notin jobs

\* The desired state is already there: check the authority and close the
\* record without a second mutation.  A commit still reconciles the index.
ResumeApplied(t) ==
    /\ Resuming(t)
    /\ Current(ReqOf(t)) = RecOf(t).want
    /\ auth
    /\ IF ReqOf(t).tool = "workspace_commit"
       THEN Goto(t, "ref") /\ UNCHANGED <<journal, mutex>>
       ELSE Write(t, [RecOf(t) EXCEPT !.state = "completed"]) /\ Leave(t)
    /\ UNCHANGED <<jobs, daemon, fs, branch, index, auth, late, applied,
                   faults>>

\* Deviation: a replay applies the plan again without looking.
WrongBlindResume(t) ==
    /\ Resuming(t)
    /\ Goto(t, "prepared")
    /\ UNCHANGED <<journal, jobs, mutex, daemon, fs, branch, index, auth,
                   late, applied, faults>>

\* Deviation: a replay trusts the prepared record and reports it as done.
WrongTrustingResume(t) ==
    /\ Resuming(t)
    /\ Current(ReqOf(t)) = RecOf(t).pre
    /\ Goto(t, "applied")
    /\ UNCHANGED <<journal, jobs, mutex, daemon, fs, branch, index, auth,
                   late, applied, faults>>

\* The prestate is still there: go on with the mutation.
ResumeUnapplied(t) ==
    /\ Resuming(t)
    /\ Current(ReqOf(t)) # RecOf(t).want
    /\ Current(ReqOf(t)) = RecOf(t).pre
    /\ Goto(t, "prepared")
    /\ UNCHANGED <<journal, jobs, mutex, daemon, fs, branch, index, auth,
                   late, applied, faults>>

\* Neither is there: refuse, the record stays as it is.
ResumeConflict(t) ==
    /\ Resuming(t)
    /\ Current(ReqOf(t)) \notin {RecOf(t).want, RecOf(t).pre}
    /\ GiveUp(t)
    /\ UNCHANGED <<journal, jobs, fs, branch, index, auth, late, applied,
                   faults>>

-----------------------------------------------------------------------------
(* The mutation itself: _commit_workspace_write, _make_directory and the   *)
(* compare-and-swap of _journaled_workspace_commit.                        *)

\* What the code re-reads, or the system call itself refuses, right before
\* the mutation.  os.replace overwrites any file but no directory.
Applicable(t) ==
    LET r == ReqOf(t)
        rec == RecOf(t)
    IN  CASE r.tool = "workspace_mkdir" -> fs[r.path] = Absent
          [] r.tool = "workspace_commit" ->
                /\ branch = rec.pre
                /\ index = TreeOf(rec.pre)
                /\ fs[r.path] = TreeOf(rec.want)[r.path]
          [] OTHER -> fs[r.path] # Directory

\* Deviation: the check next to the mutation is left out.
WrongCheck(t) ==
    /\ At(t, "prepared")
    /\ Applicable(t)
    /\ Goto(t, "checked")
    /\ UNCHANGED <<journal, jobs, mutex, daemon, fs, branch, index, auth,
                   late, applied, faults>>

\* authority.check(), adjacent to the mutation.
CheckAuthority(t) ==
    /\ At(t, "prepared")
    /\ auth
    /\ Applicable(t)
    /\ Goto(t, "checked")
    /\ UNCHANGED <<journal, jobs, mutex, daemon, fs, branch, index, auth,
                   late, applied, faults>>

\* _make_directory returns "present" for a directory made by someone else.
MkdirPresent(t) ==
    /\ At(t, "prepared")
    /\ ReqOf(t).tool = "workspace_mkdir"
    /\ fs[ReqOf(t).path] = Directory
    /\ Goto(t, "applied")
    /\ UNCHANGED <<journal, jobs, mutex, daemon, fs, branch, index, auth,
                   late, applied, faults>>

\* The state changed under the plan: raise, the record stays unresolved.
RefuseApply(t) ==
    /\ thread[t].pc \in {"prepared", "checked"}
    /\ ~Applicable(t)
    /\ ~(/\ At(t, "prepared")
         /\ ReqOf(t).tool = "workspace_mkdir"
         /\ fs[ReqOf(t).path] = Directory)
    /\ GiveUp(t)
    /\ UNCHANGED <<journal, jobs, fs, branch, index, auth, late, applied,
                   faults>>

Landed(t) ==
    /\ applied' = [applied EXCEPT ![EffOf(t)] = @ + 1]
    /\ late' = IF auth THEN 0 ELSE late + 1

\* os.replace, os.mkdir or git update-ref.
Apply(t) ==
    /\ At(t, "checked")
    /\ Applicable(t)
    /\ Landed(t)
    /\ IF ReqOf(t).tool = "workspace_commit"
       THEN /\ branch' = RecOf(t).want
            /\ Goto(t, "ref")
            /\ UNCHANGED fs
       ELSE /\ fs' = [fs EXCEPT ![ReqOf(t).path] = RecOf(t).want]
            /\ Goto(t, "applied")
            /\ UNCHANGED branch
    /\ UNCHANGED <<journal, jobs, mutex, daemon, index, auth, faults>>

\* After the compare-and-swap: the branch must be the new commit, and the real
\* index is the old tree (to be reset, after a check) or already the new one.
CheckIndex(t) ==
    /\ At(t, "ref")
    /\ branch = RecOf(t).want
    /\ \/ index = TreeOf(RecOf(t).pre) /\ auth /\ Goto(t, "indexchecked")
       \/ index = TreeOf(RecOf(t).want) /\ Goto(t, "applied")
    /\ UNCHANGED <<journal, jobs, mutex, daemon, fs, branch, index, auth,
                   late, applied, faults>>

\* "refuses to overwrite a changed real index", or the branch moved on.
RefuseIndex(t) ==
    /\ At(t, "ref")
    /\ \/ branch # RecOf(t).want
       \/ index \notin {TreeOf(RecOf(t).pre), TreeOf(RecOf(t).want)}
    /\ GiveUp(t)
    /\ UNCHANGED <<journal, jobs, fs, branch, index, auth, late, applied,
                   faults>>

\* git read-tree --reset.
ResetIndex(t) ==
    /\ At(t, "indexchecked")
    /\ index' = TreeOf(RecOf(t).want)
    /\ late' = IF auth THEN 0 ELSE late + 1
    /\ Goto(t, "applied")
    /\ UNCHANGED <<journal, jobs, mutex, daemon, fs, branch, auth, applied,
                   faults>>

\* The terminal journal record and the answer to the caller.
Complete(t) ==
    /\ At(t, "applied")
    /\ Write(t, [RecOf(t) EXCEPT !.state = "completed"])
    /\ Leave(t)
    /\ UNCHANGED <<jobs, daemon, fs, branch, index, auth, late, applied,
                   faults>>

\* Deviation: the worker's handler fails a publishing command as well.
WrongRaise(t) ==
    /\ thread[t].pc \notin {"idle", "running"}
    /\ ~auth \/ faults.raise < MaxRaise
    /\ faults' = IF auth THEN [faults EXCEPT !.raise = @ + 1] ELSE faults
    /\ journal' = IF RecOf(t).state = "publishing"
                  THEN [journal EXCEPT ![EffOf(t)].state = "failed"]
                  ELSE journal
    /\ GiveUp(t)
    /\ UNCHANGED <<jobs, fs, branch, index, auth, late, applied>>

\* An authority check, an I/O call or a journal write raises.  The record
\* keeps the state it has.
Raise(t) ==
    /\ thread[t].pc \notin {"idle", "running"}
    /\ ~auth \/ faults.raise < MaxRaise
    /\ faults' = IF auth THEN [faults EXCEPT !.raise = @ + 1] ELSE faults
    /\ GiveUp(t)
    /\ UNCHANGED <<journal, jobs, fs, branch, index, auth, late, applied>>

-----------------------------------------------------------------------------
(* workspace_command: CommandSupervisor.submit and _worker.  The submitting *)
(* thread keeps the mutation lock while it waits for its worker.           *)

StartCommand(t) ==
    /\ At(t, "gated")
    /\ ReqOf(t).tool = "workspace_command"
    /\ RecOf(t).state = "none"
    /\ Write(t, [state |-> "running", req |-> ReqOf(t), pre |-> None,
                 want |-> None])
    /\ jobs' = jobs \union {EffOf(t)}
    /\ thread' = [thread EXCEPT ![t].pc = "running",
                                ![t].seen = IF ReqOf(t).path = None THEN None
                                            ELSE fs[ReqOf(t).path]]
    /\ UNCHANGED <<mutex, daemon, fs, branch, index, auth, late, applied,
                   faults>>

\* The command ended and nothing is to be published.
CommandCompletes(t) ==
    /\ At(t, "running")
    /\ ReqOf(t).path = None
    /\ auth
    /\ Write(t, [RecOf(t) EXCEPT !.state = "completed"])
    /\ Leave(t)
    /\ UNCHANGED <<jobs, daemon, fs, branch, index, auth, late, applied,
                   faults>>

\* Deviation: a command without publish_paths is published as well.
WrongSeals(t) ==
    /\ At(t, "running")
    /\ thread[t].seen # Directory
    /\ auth
    /\ Write(t, [state |-> "publishing", req |-> ReqOf(t),
                 pre |-> thread[t].seen, want |-> ReqOf(t).value])
    /\ Goto(t, "publishing")
    /\ UNCHANGED <<jobs, mutex, daemon, fs, branch, index, auth, late,
                   applied, faults>>

\* The command succeeded: its output is quarantined, sealed and journaled as
\* publishing, against the prestate read before the command ran.
CommandSeals(t) ==
    /\ At(t, "running")
    /\ ReqOf(t).path # None
    /\ thread[t].seen # Directory
    /\ auth
    /\ Write(t, [state |-> "publishing", req |-> ReqOf(t),
                 pre |-> thread[t].seen, want |-> ReqOf(t).value])
    /\ Goto(t, "publishing")
    /\ UNCHANGED <<jobs, mutex, daemon, fs, branch, index, auth, late,
                   applied, faults>>

\* A non-zero exit with something to publish, a timeout, a fence, or any other
\* exception in the worker: the running record becomes failed.
CommandFails(t) ==
    /\ At(t, "running")
    /\ Write(t, [RecOf(t) EXCEPT !.state = "failed"])
    /\ Leave(t)
    /\ UNCHANGED <<jobs, daemon, fs, branch, index, auth, late, applied,
                   faults>>

\* _CommandCleanupUncertain: the record stays running for a restart.
CommandUncertain(t) ==
    /\ At(t, "running")
    /\ faults.raise < MaxRaise
    /\ faults' = [faults EXCEPT !.raise = @ + 1]
    /\ Leave(t)
    /\ UNCHANGED <<journal, jobs, daemon, fs, branch, index, auth, late,
                   applied>>

-----------------------------------------------------------------------------
(* serve_effect_daemon.                                                    *)

StartDaemon ==
    /\ daemon = "down"
    /\ daemon' = "recovering"
    /\ UNCHANGED <<journal, jobs, thread, mutex, fs, branch, index, auth,
                   late, applied, faults>>

\* _recover_nonchannel_effects takes up the one unresolved record; it refuses
\* a journal with several.
RecoverRecord(e) ==
    /\ daemon = "recovering"
    /\ At(Recovery, "idle")
    /\ Unresolved = {e}
    /\ mutex' = Recovery
    /\ thread' = [thread EXCEPT ![Recovery] =
                    [pc |-> "gated", eff |-> e, req |-> journal[e].req,
                     seen |-> None, raced |-> FALSE]]
    /\ UNCHANGED <<journal, jobs, daemon, fs, branch, index, auth, late,
                   applied, faults>>

\* Deviation: recovery looks for the command in its own, empty, job table.
WrongRecoverRunning(t) ==
    /\ At(t, "gated")
    /\ t = Recovery
    /\ RecOf(t).state = "running"
    /\ EffOf(t) \in jobs
    /\ auth
    /\ Write(t, [RecOf(t) EXCEPT !.state = "failed"])
    /\ Leave(t)
    /\ UNCHANGED <<jobs, daemon, fs, branch, index, auth, late, applied,
                   faults>>

\* A running record of an earlier daemon: its processes are proved absent, the
\* authority is checked, and the command is failed without publication.
RecoverRunning(t) ==
    /\ At(t, "gated")
    /\ t = Recovery
    /\ RecOf(t).state = "running"
    /\ auth
    /\ Write(t, [RecOf(t) EXCEPT !.state = "failed"])
    /\ Leave(t)
    /\ UNCHANGED <<jobs, daemon, fs, branch, index, auth, late, applied,
                   faults>>

\* _assert_no_unresolved_effects, then the sockets are bound.
BecomeReady ==
    /\ daemon = "recovering"
    /\ At(Recovery, "idle")
    /\ Unresolved = {}
    /\ daemon' = "ready"
    /\ UNCHANGED <<journal, jobs, thread, mutex, fs, branch, index, auth,
                   late, applied, faults>>

\* The process dies, or exits because the admitted process epoch ended: its
\* threads die with it wherever they are.
Crash ==
    /\ daemon # "down"
    /\ faults.crash < MaxCrash
    /\ faults' = [faults EXCEPT !.crash = @ + 1]
    /\ daemon' = "down"
    /\ thread' = [t \in Thread |-> Idle]
    /\ mutex' = None
    /\ jobs' = {}
    /\ UNCHANGED <<journal, fs, branch, index, auth, late, applied>>

-----------------------------------------------------------------------------
(* The environment.                                                        *)

\* EffectAuthority.check starts to fail: lease, epoch, image or database.
Lapse ==
    /\ auth
    /\ faults.lapse < MaxLapse
    /\ auth' = FALSE
    /\ faults' = [faults EXCEPT !.lapse = @ + 1]
    /\ UNCHANGED <<journal, jobs, thread, mutex, daemon, fs, branch, index,
                   late, applied>>

Renew ==
    /\ ~auth
    /\ auth' = TRUE
    /\ late' = 0
    /\ UNCHANGED <<journal, jobs, thread, mutex, daemon, fs, branch, index,
                   applied, faults>>

\* Somebody else works in the same checkout.
External ==
    /\ faults.extern < MaxExternal
    /\ faults' = [faults EXCEPT !.extern = @ + 1]
    /\ \/ \E p \in Path, x \in Content :
            /\ fs' = [fs EXCEPT ![p] = x]
            /\ UNCHANGED <<branch, index>>
       \/ \E p \in Path :
            /\ fs[p] # Directory
            /\ index' = [index EXCEPT ![p] = fs[p]]
            /\ UNCHANGED <<fs, branch>>
       \/ /\ index # TreeOf(branch)
          /\ branch' = Append(branch, [by |-> Outside, tree |-> index])
          /\ UNCHANGED <<fs, index>>
       \/ /\ Len(branch) > 1
          /\ branch' = SubSeq(branch, 1, Len(branch) - 1)
          /\ index' = TreeOf(branch')
          /\ UNCHANGED fs
    /\ thread' = [t \in Thread |->
                     IF At(t, "idle") THEN thread[t]
                     ELSE [thread[t] EXCEPT !.raced = TRUE]]
    /\ UNCHANGED <<journal, jobs, mutex, daemon, auth, late, applied>>

-----------------------------------------------------------------------------
Step(t) ==
    \/ Replay(t) \/ PrepareWrite(t) \/ PrepareMkdir(t) \/ PrepareCommit(t)
    \/ RefusePlan(t) \/ ResumeApplied(t) \/ ResumeUnapplied(t)
    \/ ResumeConflict(t) \/ CheckAuthority(t) \/ MkdirPresent(t)
    \/ RefuseApply(t) \/ Apply(t) \/ CheckIndex(t) \/ RefuseIndex(t)
    \/ ResetIndex(t) \/ Complete(t) \/ StartCommand(t)
    \/ CommandCompletes(t) \/ CommandSeals(t) \/ CommandFails(t)
    \/ RecoverRunning(t)

Next ==
    \/ \E c \in Client, e \in Effect, r \in Request : CallTool(c, e, r)
    \/ \E t \in Thread : Step(t) \/ Raise(t) \/ CommandUncertain(t)
    \/ \E e \in Effect : RecoverRecord(e)
    \/ StartDaemon \/ BecomeReady \/ Crash
    \/ Lapse \/ Renew \/ External

Spec == Init /\ [][Next]_vars

\* The process is restarted, its threads are scheduled, a failing check raises,
\* and the supervisor's renewals make the authority live again.
Fairness ==
    /\ WF_vars(StartDaemon) /\ WF_vars(BecomeReady) /\ WF_vars(Renew)
    /\ \A e \in Effect : WF_vars(RecoverRecord(e))
    /\ \A t \in Thread : WF_vars(Step(t) \/ (~auth /\ Raise(t)))

FairSpec == Spec /\ Fairness

-----------------------------------------------------------------------------
(* Properties.                                                             *)

\* The mutation lock and the gate of _call_tool keep at most one workspace
\* effect unresolved, so that _recover_nonchannel_effects never meets the
\* journal it refuses ("contains multiple unresolved effects"), whatever
\* clients retry, raise or crash half way.
AtMostOneUnresolved == \A e, f \in Unresolved : e = f

\* As long as nobody else touches the checkout, an unresolved record can always
\* be replayed: what it describes is still its prestate or already its desired
\* state, and a prepared commit finds the index and the selected bytes it was
\* prepared from.  No sequence of broker effects can wedge the recovery.
Replayable(e) ==
    LET rec == journal[e]
    IN  /\ rec.state \in {"prepared", "publishing"} =>
              Current(rec.req) \in {rec.pre, rec.want}
        /\ rec.state = "prepared" /\ rec.req.tool = "workspace_commit" =>
              \/ /\ branch = rec.pre
                 /\ index = TreeOf(rec.pre)
                 /\ fs[rec.req.path] = TreeOf(rec.want)[rec.req.path]
              \/ /\ branch = rec.want
                 /\ index \in {TreeOf(rec.pre), TreeOf(rec.want)}

RecoveryNeverWedged ==
    faults.extern = 0 => \A e \in Effect : Replayable(e)

\* An effect mutates the workspace or the branch once, over every retry, crash
\* and recovery; only somebody else's change of the checkout (which may put
\* the prestate back) can make a replay apply it again.
AppliedAtMostOnce == \A e \in Effect : applied[e] <= 1 + faults.extern

\* A failed effect ("canonical publication was refused") mutated nothing: no
\* error path of the worker fails a command whose output may have landed.
FailedLeavesNothing ==
    \A e \in Effect : journal[e].state = "failed" => applied[e] = 0

\* A completed effect that changes something has landed, when nobody else
\* touched the checkout: no crash between the journal writes and the mutation
\* lets a replay report an effect that never happened.
CompletedMeansApplied ==
    faults.extern = 0 =>
        \A e \in Effect :
            journal[e].state = "completed" /\ journal[e].pre # journal[e].want
                => applied[e] = 1

\* Every journal record is true of the checkout: an unresolved one can be
\* replayed, a failed one left nothing behind, a completed one has landed.
RecordsAreTrue == RecoveryNeverWedged /\ FailedLeavesNothing /\ CompletedMeansApplied

\* Once EffectAuthority.check has begun to fail, at most one mutation (the one
\* whose adjacent check had just passed) still lands, over all threads, until
\* the authority is live again.
AtMostOneLateMutation == late <= 1

\* What one step may do to one record.
MovesForward(e) ==
    LET old == journal[e]
        new == journal'[e]
    IN  /\ old.state # "none" => new.req = old.req
        /\ old.state \in {"completed", "failed"} => new = old
        /\ old.state = "publishing" => new.state \in {"publishing", "completed"}
        /\ old.state = "prepared" =>
               /\ new.state \in {"prepared", "completed"}
               /\ new.pre = old.pre /\ new.want = old.want

\* The journal only moves forward: an effect_id keeps its request and its
\* terminal record, and a publication never goes back to being a command.
JournalMovesForward == [][\A e \in Effect : MovesForward(e)]_vars

\* What a thread that mutates finds in place of what it replaces.
FindsPrestate(t) ==
    At(t, "checked") /\ applied' # applied /\ thread'[t] # thread[t] =>
        \/ Current(ReqOf(t)) = RecOf(t).pre
        \/ ReqOf(t).tool # "workspace_commit" /\ thread[t].raced

\* A mutation replaces exactly the state its journal record was prepared from:
\* a foreign change made while the record waited for its replay is never
\* overwritten, and a branch never is.  (os.replace is no compare-and-swap, so
\* a foreign write during the very call can be.)
ReplacesOnlyItsPrestate == [][\A t \in Thread : FindsPrestate(t)]_vars

\* Crash recovery ends: with finitely many crashes and errors, an authority
\* that becomes live again and nobody else in the checkout, a broker that is
\* down becomes ready with every workspace effect resolved.
RecoveryCompletes == daemon = "down" ~> (daemon = "ready" /\ Unresolved = {})

\* Every tool call returns and releases the mutation lock, so no client waits
\* on another for ever.
EveryCallReturns == \A c \in Client : ~At(c, "idle") ~> At(c, "idle")
=============================================================================
