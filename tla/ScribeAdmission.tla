--------------------------- MODULE ScribeAdmission ---------------------------
(***************************************************************************)
(* How the one writable Company Scribe is launched, admitted, renewed,     *)
(* fenced and restarted: company_scribe_runtime.py (the launched process), *)
(* company_scribe_supervisor.py (the supervisor's tick and the prepare and *)
(* admit commands), company_scribe_admission.py (rows, private files and   *)
(* the rollback procedure) and the triggers of DDL 025 and 039.            *)
(*                                                                         *)
(* A candidate is one worker session with the admission row, recovery      *)
(* intent row and binding that carry its identity; it is named by the      *)
(* order of preparation.  A pointer file is replaced atomically; a         *)
(* write-once artifact is created first and filled after, so that a crash  *)
(* may leave it torn.  Digests, signatures and field-by-field comparisons  *)
(* are the identity of the candidate or process they name.                 *)
(***************************************************************************)
EXTENDS Naturals, Sequences, FiniteSets

CONSTANTS
    MaxCand,    \* candidates that are ever prepared
    MaxLaunch,  \* runtime processes that are ever launched
    MaxEvents   \* crashes, lapsed leases, operator rollbacks, workspace
                \* changes and mandate completions, taken together

ASSUME BoundAssumption == {MaxCand, MaxLaunch, MaxEvents} \subseteq Nat

Cand == 1 .. MaxCand
Launch == 1 .. MaxLaunch
Roller == {"tick", "operator"}          \* who runs the rollback procedure
Actor == Roller \union {"command"}

\* Where a rolled-back binding is archived: in revoked-bindings of the state
\* directory, or in another directory that a rollback by hand named.
Archive == {"revoked", "aside"}
Artifact == Archive \union {"intent", "epoch"} \union Roller

VARIABLES
    cand,      \* the candidates' session, admission and intent rows
    worker,    \* the candidate whose lease token the worker row holds, or 0
    mandate,   \* status of the founder activation mandate
    canon,     \* digest of the canonical company workspace tables
    active,    \* ACTIVE.json: a binding, a pointer to an archived one, or missing
    lease,     \* current-lease.json: the candidate it names, or 0
    once,      \* write-once artifacts, by kind and candidate
    snap,      \* the workspace digest in each candidate's rollback receipt
    request,   \* restart-request.json
    candidate, \* the candidate file of prepare and admit, or 0
    bootstrap, \* bootstrap-request.json: the launch it names, or 0
    home,      \* what the first launch leaves in the private state directory
    proc,      \* the launched processes
    holder,    \* the launch whose descriptor holds runtime.lock, or 0
    act,       \* supervisor tick, operator rollback, operator command
    events     \* history: events so far

rows == <<cand, worker, mandate, canon>>
files == <<active, lease, once, snap, request, candidate, bootstrap, home>>
procs == <<proc, holder>>
vars == <<rows, files, procs, act, events>>

CandRow ==
    [epoch: Nat, proc: Launch, prior: 0 .. MaxCand,
     session: {"active", "ended"},
     lease: {"first", "held", "lapsed"},  \* as minted, renewed since, expired
     adm: {"none", "live", "revoked"},
     intent: {"none", "prepared", "consumed", "abandoned"}]

Missing == [kind |-> "missing", c |-> 0]
NoRequest == [state |-> "none", prior |-> 0]
Idle == [pc |-> "idle", c |-> 0]
ProcPc == {"new", "empty", "placed", "moved", "ready", "waiting", "bound",
           "serving", "dead"}
ActPc == {"idle", "judge", "renew", "lease", "request", "epoch", "complete",
          "load", "revoke", "quiesce", "archive", "probe", "write", "intent",
          "restart", "file", "admitLease", "admitBinding"} \union Archive

\* Every variable has its type; a row never names a candidate that follows it.
TypeOK ==
    /\ cand \in Seq(CandRow) /\ Len(cand) <= MaxCand
    /\ \A c \in DOMAIN cand : cand[c].prior < c
    /\ worker \in 0 .. Len(cand)
    /\ mandate \in {"active", "completed"} /\ canon \in 0 .. MaxEvents
    /\ active \in [kind: {"missing", "binding"} \union Archive, c: 0 .. Len(cand)]
    /\ lease \in 0 .. Len(cand) /\ candidate \in 0 .. Len(cand)
    /\ once \in [Artifact -> [Cand -> {"none", "torn", "done"}]]
    /\ snap \in [Cand -> 0 .. MaxEvents]
    /\ request \in [state: {"none", "awaiting", "completed"}, prior: 0 .. Len(cand)]
    /\ bootstrap \in 0 .. MaxLaunch /\ holder \in 0 .. MaxLaunch
    /\ home \in [empty: BOOLEAN, workspace: BOOLEAN, target: BOOLEAN, receipt: BOOLEAN]
    /\ proc \in [Launch -> ProcPc]
    /\ act \in [Actor -> [pc: ActPc, c: 0 .. Len(cand)]]
    /\ events \in 0 .. MaxEvents

Init ==
    /\ cand = <<>> /\ worker = 0 /\ mandate = "active" /\ canon = 0
    /\ active = Missing /\ lease = 0 /\ request = NoRequest
    /\ once = [k \in Artifact |-> [c \in Cand |-> "none"]]
    /\ snap = [c \in Cand |-> 0]
    /\ candidate = 0 /\ bootstrap = 0
    /\ home = [empty |-> TRUE, workspace |-> FALSE, target |-> FALSE, receipt |-> FALSE]
    /\ proc = [p \in Launch |-> "new"] /\ holder = 0
    /\ act = [a \in Actor |-> Idle]
    /\ events = 0

-----------------------------------------------------------------------------
(* Rows, processes and actors. *)

Live == {c \in DOMAIN cand : cand[c].adm = "live"}
Admitted == {c \in DOMAIN cand : cand[c].adm # "none"}
LastEpoch == IF Admitted = {} THEN 0
             ELSE CHOOSE e \in {cand[c].epoch : c \in Admitted} :
                      \A c \in Admitted : cand[c].epoch <= e

Running(p) == proc[p] \notin {"new", "dead"}

\* _process_state = "exact_live": same host, boot, pid and start fingerprint.
Alive(c) == Running(cand[c].proc)

\* verify_runtime_lock_held
HoldsLock(p) == Running(p) /\ holder = p

\* _admission_row_lineage_broken: an expired clock is not a broken lineage.
LineageBroken(c) == cand[c].adm # "live" \/ cand[c].session # "active" \/ worker = 0

\* kernel_bind_company_scribe_admission
Bindable(c) ==
    cand[c].adm = "live" /\ cand[c].session = "active" /\ cand[c].lease # "lapsed"

\* LocalAuthority.check, as the effect broker of launch p evaluates it.
Authorized(p) ==
    /\ proc[p] = "serving" /\ active.kind = "binding"
    /\ cand[active.c].proc = p /\ lease = active.c /\ Bindable(active.c)

At(a, pc) == act[a].pc = pc
Go(a, pc) == act' = [act EXCEPT ![a].pc = pc]
Raise(a) == act' = [act EXCEPT ![a] = Idle]

\* The budget for what the environment does.
Event == events < MaxEvents /\ events' = events + 1

\* _write_once_private: an equal file is accepted, a torn one never is.
WriteOnce(a, kind, next) ==
    /\ IF once[kind][act[a].c] = "torn"
       THEN Raise(a) /\ UNCHANGED once
       ELSE Go(a, next) /\ once' = [once EXCEPT ![kind][act[a].c] = "done"]

-----------------------------------------------------------------------------
(* The launched process: company_scribe_runtime.main. *)

\* _verify_cursor_migration
MigrationVerified == home.target /\ home.receipt

\* Up to the activation mode: an initial launch wants an empty state
\* directory, a recovery an awaited restart and the first launch's leavings.
LaunchRuntime(p) ==
    /\ proc[p] = "new" /\ \A q \in 1 .. p - 1 : proc[q] # "new"
    /\ \/ request.state = "none" /\ home.empty
          /\ proc' = [proc EXCEPT ![p] = "empty"]
       \/ request.state = "awaiting" /\ home.workspace /\ MigrationVerified
          /\ proc' = [proc EXCEPT ![p] = "ready"]
    /\ UNCHANGED <<rows, files, holder, act, events>>

\* _verify_or_create_workspace_binding, initial mode.
CreateWorkspaceBinding(p) ==
    /\ proc[p] = "empty"
    /\ proc' = [proc EXCEPT ![p] = IF home.workspace THEN "dead" ELSE "placed"]
    /\ home' = [home EXCEPT !.workspace = TRUE, !.empty = FALSE]
    /\ UNCHANGED <<rows, active, lease, once, snap, request, candidate, bootstrap,
                   holder, act, events>>

\* _migrate_legacy_scribe_cursor, initial mode: the checkpoint ...
MigrateCursor(p) ==
    /\ proc[p] = "placed"
    /\ IF home.target \/ home.receipt
       THEN proc' = [proc EXCEPT ![p] = "dead"] /\ UNCHANGED home
       ELSE /\ proc' = [proc EXCEPT ![p] = "moved"]
            /\ home' = [home EXCEPT !.target = TRUE]
    /\ UNCHANGED <<rows, active, lease, once, snap, request, candidate, bootstrap,
                   holder, act, events>>

\* ... and the receipt that later launches verify.
ReceiptCursor(p) ==
    /\ proc[p] = "moved"
    /\ proc' = [proc EXCEPT ![p] = "ready"]
    /\ home' = [home EXCEPT !.receipt = TRUE]
    /\ UNCHANGED <<rows, active, lease, once, snap, request, candidate, bootstrap,
                   holder, act, events>>

\* runtime_lock, then the bootstrap request.
TakeRuntimeLock(p) ==
    /\ proc[p] = "ready"
    /\ IF holder = 0
       THEN holder' = p /\ bootstrap' = p /\ proc' = [proc EXCEPT ![p] = "waiting"]
       ELSE proc' = [proc EXCEPT ![p] = "dead"] /\ UNCHANGED <<holder, bootstrap>>
    /\ UNCHANGED <<rows, active, lease, once, snap, request, candidate, home, act, events>>

\* verify_local_binding, which reads the binding's own deadline.
BindingVerified(p) == cand[active.c].lease = "first" /\ HoldsLock(p)

\* _wait_for_binding, the verification and bind_transaction.
Bind(p) ==
    /\ proc[p] = "waiting"
    /\ active.kind = "binding" /\ cand[active.c].proc = p
    /\ proc' = [proc EXCEPT ![p] =
           IF BindingVerified(p) /\ Bindable(active.c) THEN "bound" ELSE "dead"]
    /\ UNCHANGED <<rows, files, holder, act, events>>

\* _start_effect_daemon and exec.
Serve(p) ==
    /\ proc[p] = "bound"
    /\ proc' = [proc EXCEPT ![p] = "serving"]
    /\ UNCHANGED <<rows, files, holder, act, events>>

\* The process ends by itself: a crash, a refusal, the wait's timeout, a reboot.
ProcessDies(p) ==
    /\ Running(p)
    /\ proc' = [proc EXCEPT ![p] = "dead"]
    /\ UNCHANGED <<rows, files, holder, act, events>>

\* Deviation: the forked effect daemon unlocks its inherited descriptor.
WrongLockReleased ==
    /\ holder # 0 /\ holder' = 0
    /\ UNCHANGED <<rows, files, proc, act, events>>

\* The last inherited descriptor of the lock is closed; children of a dead
\* launch may keep it for a while.
LockReleased ==
    /\ holder # 0 /\ proc[holder] = "dead"
    /\ holder' = 0
    /\ UNCHANGED <<rows, files, proc, act, events>>

-----------------------------------------------------------------------------
(* prepare-initial, prepare-recovery and admit, run by an operator. *)

\* ScribeBootstrapRequest.verify_local_process
BootstrapHeld == bootstrap # 0 /\ HoldsLock(bootstrap)

NewCand(epoch, prior) ==
    [epoch |-> epoch, proc |-> bootstrap, prior |-> prior, session |-> "active",
     lease |-> "first", adm |-> "none",
     intent |-> IF prior = 0 THEN "none" ELSE "prepared"]

\* open_worker_session for a new candidate, after the sessions in Ended were
\* ended; the worker row gets the new token whatever it held.
OpenSession(Ended, epoch, prior) ==
    /\ Len(cand) < MaxCand
    /\ cand' = Append([c \in DOMAIN cand |->
                          IF c \in Ended
                          THEN [cand[c] EXCEPT !.session = "ended",
                                    !.intent = IF @ = "prepared" /\ prior # 0
                                               THEN "abandoned" ELSE @]
                          ELSE cand[c]],
                      NewCand(epoch, prior))
    /\ worker' = Len(cand) + 1
    /\ act' = [act EXCEPT !["command"] = [pc |-> "file", c |-> Len(cand) + 1]]

\* prepare_admission_candidate: lapsed sessions are ended in the same transaction.
PrepareInitial ==
    /\ At("command", "idle") /\ BootstrapHeld
    /\ mandate = "active" /\ Live = {}
    /\ OpenSession({c \in DOMAIN cand : cand[c].lease = "lapsed"}, LastEpoch + 1, 0)
    /\ UNCHANGED <<mandate, canon, files, procs, events>>

\* load_restart_intent, with the receipt that the intent names.
IntentLoads(i) == once["intent"][i] = "done" /\ once["tick"][i] = "done"

\* The recovery intents for prior i that are neither abandoned nor absent.
OpenIntents(i) ==
    {c \in DOMAIN cand : cand[c].prior = i /\ cand[c].intent \in {"prepared", "consumed"}}

\* prepare_recovery_candidate for the restart intent of i: the open candidate
\* of the same process is handed out again ...
PrepareRecoveryAgain(i) ==
    /\ At("command", "idle") /\ BootstrapHeld
    /\ IntentLoads(i)
    /\ \E o \in OpenIntents(i) :
         /\ cand[o].proc = bootstrap /\ cand[o].session = "active"
         /\ cand[o].lease = "first"
         /\ cand[o].intent = "prepared" \/ cand[o].adm = "live"
         /\ act' = [act EXCEPT !["command"] = [pc |-> "file", c |-> o]]
    /\ UNCHANGED <<rows, files, procs, events>>

\* Deviation: it trusts the database alone and loads no restart intent.
WrongPrepareRecovery(i) ==
    /\ At("command", "idle") /\ BootstrapHeld
    /\ \A o \in OpenIntents(i) : cand[o].intent = "prepared" /\ cand[o].lease = "lapsed"
    /\ cand[i].adm = "revoked" /\ cand[i].session = "ended" /\ Live = {}
    /\ OpenSession(OpenIntents(i), cand[i].epoch + 1, i)
    /\ UNCHANGED <<mandate, canon, files, procs, events>>

\* ... an expired one is abandoned, and a new epoch prepared.
PrepareRecovery(i) ==
    /\ At("command", "idle") /\ BootstrapHeld
    /\ IntentLoads(i)
    /\ \A o \in OpenIntents(i) : cand[o].intent = "prepared" /\ cand[o].lease = "lapsed"
    /\ cand[i].adm = "revoked" /\ cand[i].session = "ended" /\ Live = {}
    /\ OpenSession(OpenIntents(i), cand[i].epoch + 1, i)
    /\ UNCHANGED <<mandate, canon, files, procs, events>>

\* write_candidate
WriteCandidate ==
    /\ At("command", "file")
    /\ candidate' = act["command"].c
    /\ Raise("command")
    /\ UNCHANGED <<rows, active, lease, once, snap, request, bootstrap, home, procs, events>>

\* What the admission's insert trigger asks of candidate c.
Insertable(c) ==
    /\ Live = {} /\ cand[c].epoch = LastEpoch + 1
    /\ cand[c].session = "active" /\ cand[c].lease # "lapsed"
    /\ IF cand[c].prior = 0
       THEN mandate = "active"
       ELSE /\ cand[cand[c].prior].adm = "revoked"
            /\ cand[cand[c].prior].session = "ended"
            /\ cand[c].intent = "prepared"

\* admit_approved_candidate: verify_local_process and create_live_admission,
\* which is idempotent while its row is live; the trigger consumes the intent.
AdmitInsert ==
    /\ At("command", "idle") /\ candidate # 0
    /\ cand[candidate].proc = bootstrap /\ BootstrapHeld
    /\ \/ cand[candidate].adm = "none" /\ Insertable(candidate)
       \/ cand[candidate].adm = "live"
    /\ cand' = [cand EXCEPT ![candidate].adm = "live",
                   ![candidate].intent = IF @ = "prepared" THEN "consumed" ELSE @]
    /\ act' = [act EXCEPT !["command"] = [pc |-> "admitLease", c |-> candidate]]
    /\ UNCHANGED <<worker, mandate, canon, files, procs, events>>

AdmitLease ==
    /\ At("command", "admitLease")
    /\ lease' = act["command"].c
    /\ Go("command", "admitBinding")
    /\ UNCHANGED <<rows, active, once, snap, request, candidate, bootstrap, home, procs, events>>

AdmitBinding ==
    /\ At("command", "admitBinding")
    /\ active' = [kind |-> "binding", c |-> act["command"].c]
    /\ Raise("command")
    /\ UNCHANGED <<rows, lease, once, snap, request, candidate, bootstrap, home, procs, events>>

\* complete-verification: the mandate's last step receipt closes it.
CompleteVerification ==
    /\ At("command", "idle") /\ mandate = "active" /\ active.kind = "binding"
    /\ mandate' = "completed"
    /\ Event
    /\ UNCHANGED <<cand, worker, canon, files, procs, act>>

-----------------------------------------------------------------------------
(* The supervisor's tick: _supervisor_tick_locked. *)

\* The binding the database would restore: the live one, else the last revoked.
DatabaseBinding == CHOOSE c \in Admitted : cand[c].epoch = LastEpoch

\* Read ACTIVE.json; restore a missing one from the database.
TickStart ==
    /\ At("tick", "idle")
    /\ home' = [home EXCEPT !.empty = FALSE]
    /\ IF active.kind = "missing" /\ Admitted # {}
       THEN active' = [kind |-> "binding", c |-> DatabaseBinding]
       ELSE UNCHANGED active
    /\ act' = [act EXCEPT !["tick"] =
           IF active'.kind = "missing" THEN Idle
           ELSE [pc |-> IF active'.kind = "binding" THEN "judge" ELSE "load",
                 c |-> active'.c]]
    /\ UNCHANGED <<rows, lease, once, snap, request, candidate, bootstrap, procs, events>>

\* The process census and the lineage query.
TickJudge ==
    /\ At("tick", "judge")
    /\ LET c == act["tick"].c IN
         Go("tick", IF Alive(c) /\ ~LineageBroken(c) THEN "renew" ELSE "load")
    /\ UNCHANGED <<rows, files, procs, events>>

\* Deviation: an expired row is treated as lost, not renewed.
WrongTickRenew ==
    /\ At("tick", "renew")
    /\ LET c == act["tick"].c IN
         IF HoldsLock(cand[c].proc) /\ Bindable(c) /\ worker = c
         THEN Go("tick", "lease") ELSE Raise("tick")
    /\ UNCHANGED <<rows, files, procs, events>>

\* verify_runtime_lock_held and renew_live_admission, one transaction.
TickRenew ==
    /\ At("tick", "renew")
    /\ LET c == act["tick"].c IN
         IF HoldsLock(cand[c].proc) /\ cand[c].session = "active"
            /\ worker = c /\ cand[c].adm = "live"
         THEN /\ cand' = [cand EXCEPT ![c].lease = IF @ = "lapsed" THEN "held" ELSE @]
              /\ Go("tick", "lease")
         ELSE Raise("tick") /\ UNCHANGED cand
    /\ UNCHANGED <<worker, mandate, canon, files, procs, events>>

TickLease ==
    /\ At("tick", "lease")
    /\ lease' = act["tick"].c
    /\ Go("tick", "request")
    /\ UNCHANGED <<rows, active, once, snap, request, candidate, bootstrap, home, procs, events>>

\* Deviation: the awaited epoch is completed without its receipt.
WrongTickRequest ==
    /\ At("tick", "request")
    /\ IF /\ request.state = "awaiting"
          /\ cand[request.prior].epoch + 1 = cand[act["tick"].c].epoch
       THEN Go("tick", "complete") ELSE Raise("tick")
    /\ UNCHANGED <<rows, files, procs, events>>

\* _load_restart_request: is this the epoch that the request awaits?
TickRequest ==
    /\ At("tick", "request")
    /\ IF /\ request.state = "awaiting"
          /\ cand[request.prior].epoch + 1 = cand[act["tick"].c].epoch
       THEN Go("tick", "epoch") ELSE Raise("tick")
    /\ UNCHANGED <<rows, files, procs, events>>

\* What record_restart_epoch_receipt verifies of the restarted candidate c.
RestartExact(c) ==
    /\ cand[c].prior = request.prior
    /\ HoldsLock(cand[c].proc)
    /\ Bindable(c) /\ worker = c /\ cand[c].intent = "consumed"
    /\ Live = {c} /\ cand[cand[c].prior].adm = "revoked"
    /\ cand[cand[c].prior].session = "ended"
    /\ canon = snap[cand[c].prior]

TickEpochReceipt ==
    /\ At("tick", "epoch")
    /\ IF RestartExact(act["tick"].c)
       THEN WriteOnce("tick", "epoch", "complete")
       ELSE Raise("tick") /\ UNCHANGED once
    /\ UNCHANGED <<rows, active, lease, snap, request, candidate, bootstrap, home,
                   procs, events>>

TickComplete ==
    /\ At("tick", "complete")
    /\ request' = [request EXCEPT !.state = "completed"]
    /\ Raise("tick")
    /\ UNCHANGED <<rows, active, lease, once, snap, candidate, bootstrap, home, procs, events>>

-----------------------------------------------------------------------------
(* rollback_live_scribe, by the tick (_resume_revoked_restart) or by hand. *)

\* The rollback command.
OperatorRollback ==
    /\ At("operator", "idle") /\ active.kind # "missing"
    /\ Go("operator", "load")
    /\ Event
    /\ UNCHANGED <<rows, files, procs>>

\* _load_rollback_binding reads ACTIVE.json, again in the tick's case.  A
\* receipt of an earlier attempt takes the replay path.
RollbackLoad(a) ==
    /\ At(a, "load")
    /\ act' = [act EXCEPT ![a] =
           [pc |-> CASE once[a][active.c] = "none" -> "revoke"
                     [] once[a][active.c] = "done" -> "archive"
                     [] once[a][active.c] = "torn" -> "idle",
            c |-> IF once[a][active.c] = "torn" THEN 0 ELSE active.c]]
    /\ UNCHANGED <<rows, files, procs, events>>

\* One transaction: close_live_admission, end_bound_worker_session and the
\* workspace digest that the receipt will record.
RollbackRevoke(a) ==
    /\ At(a, "revoke")
    /\ LET c == act[a].c IN
         /\ cand' = [cand EXCEPT ![c].adm = "revoked", ![c].session = "ended"]
         /\ worker' = IF worker = c THEN 0 ELSE worker
         /\ snap' = IF a = "tick" THEN [snap EXCEPT ![c] = canon] ELSE snap
    /\ Go(a, "quiesce")
    /\ UNCHANGED <<mandate, canon, active, lease, once, request, candidate, bootstrap,
                   home, procs, events>>

\* quiesce_bound_process: SIGTERM, then SIGKILL.
RollbackQuiesce(a) ==
    /\ At(a, "quiesce")
    /\ proc' = [proc EXCEPT ![cand[act[a].c].proc] = "dead"]
    /\ Go(a, "archive")
    /\ UNCHANGED <<rows, files, holder, events>>

\* The tick archives in revoked-bindings; --archive-dir is free.
ArchivesOf(a) == IF a = "tick" THEN {"revoked"} ELSE Archive

\* Deviation: a pointer left by an earlier attempt is refused.
WrongRollbackArchive(a, d) ==
    /\ At(a, "archive") /\ d \in ArchivesOf(a)
    /\ IF active = [kind |-> "binding", c |-> act[a].c]
       THEN WriteOnce(a, d, d)
       ELSE Raise(a) /\ UNCHANGED once
    /\ UNCHANGED <<rows, active, lease, snap, request, candidate, bootstrap, home,
                   procs, events>>

\* archive_binding_for_restart: a pointer that already names c is accepted if
\* its archive is in the same directory ...
RollbackArchive(a, d) ==
    /\ At(a, "archive") /\ d \in ArchivesOf(a)
    /\ CASE active = [kind |-> d, c |-> act[a].c] -> Go(a, "probe") /\ UNCHANGED once
         [] active = [kind |-> "binding", c |-> act[a].c] -> WriteOnce(a, d, d)
         [] OTHER -> Raise(a) /\ UNCHANGED once
    /\ UNCHANGED <<rows, active, lease, snap, request, candidate, bootstrap, home,
                   procs, events>>

\* ... and otherwise it replaces whatever ACTIVE.json holds by now.
RollbackPointer(a, d) ==
    /\ At(a, d)
    /\ active' = [kind |-> d, c |-> act[a].c]
    /\ Go(a, "probe")
    /\ UNCHANGED <<rows, lease, once, snap, request, candidate, bootstrap, home, procs, events>>

\* The last look at the database, and in a replay at the process.
RollbackProbe(a) ==
    /\ At(a, "probe")
    /\ LET c == act[a].c
           replay == once[a][c] = "done"
       IN IF /\ cand[c].adm = "revoked" /\ Live = {}
             /\ replay => cand[c].session = "ended" /\ ~Alive(c)
          THEN IF ~replay THEN Go(a, "write")
               ELSE IF a = "tick" THEN Go(a, "intent") ELSE Raise(a)
          ELSE Raise(a)
    /\ UNCHANGED <<rows, files, procs, events>>

RollbackReceipt(a) ==
    /\ At(a, "write")
    /\ IF a = "tick" THEN WriteOnce(a, a, "intent")
       ELSE Raise(a) /\ once' = [once EXCEPT ![a][act[a].c] = "done"]
    /\ UNCHANGED <<rows, active, lease, snap, request, candidate, bootstrap, home,
                   procs, events>>

\* create_restart_intent
TickIntent ==
    /\ At("tick", "intent")
    /\ WriteOnce("tick", "intent", "restart")
    /\ UNCHANGED <<rows, active, lease, snap, request, candidate, bootstrap, home,
                   procs, events>>

\* The restart request, whatever it was before.
TickRestart ==
    /\ At("tick", "restart")
    /\ request' = [state |-> "awaiting", prior |-> act["tick"].c]
    /\ Raise("tick")
    /\ UNCHANGED <<rows, active, lease, once, snap, candidate, bootstrap, home, procs, events>>

-----------------------------------------------------------------------------
(* The environment. *)

\* The database clock passes the candidate's lease.
LeaseLapses(c) ==
    /\ cand[c].lease # "lapsed" /\ cand[c].session = "active"
    /\ cand' = [cand EXCEPT ![c].lease = "lapsed"]
    /\ Event
    /\ UNCHANGED <<worker, mandate, canon, files, procs, act>>

\* Some role changes the canonical company workspace.
WorkspaceWrite ==
    /\ canon' = canon + 1
    /\ Event
    /\ UNCHANGED <<cand, worker, mandate, files, procs, act>>

\* The write-once artifact an actor may be about to create.
Writing(a) ==
    CASE At(a, "archive") /\ active = [kind |-> "binding", c |-> act[a].c] -> ArchivesOf(a)
      [] At(a, "write") -> {a}
      [] At(a, "intent") -> {"intent"}
      [] At(a, "epoch") /\ RestartExact(act[a].c) -> {"epoch"}
      [] OTHER -> {}

\* The actor events; one that is creating an artifact may leave it torn.
Crash(a) ==
    /\ ~At(a, "idle")
    /\ \/ UNCHANGED once
       \/ \E k \in Writing(a) :
            /\ once[k][act[a].c] = "none"
            /\ once' = [once EXCEPT ![k][act[a].c] = "torn"]
    /\ Raise(a)
    /\ Event
    /\ UNCHANGED <<rows, active, lease, snap, request, candidate, bootstrap, home, procs>>

Tick ==
    \/ TickStart \/ TickJudge \/ TickRenew \/ TickLease \/ TickRequest
    \/ TickEpochReceipt \/ TickComplete \/ TickIntent \/ TickRestart
    \/ RollbackLoad("tick") \/ RollbackRevoke("tick") \/ RollbackQuiesce("tick")
    \/ \E d \in Archive : RollbackArchive("tick", d) \/ RollbackPointer("tick", d)
    \/ RollbackProbe("tick") \/ RollbackReceipt("tick")

Operator ==
    \/ PrepareInitial
    \/ \E i \in DOMAIN cand : PrepareRecoveryAgain(i) \/ PrepareRecovery(i)
    \/ AdmitInsert \/ CompleteVerification \/ OperatorRollback

\* A command that was started goes on.
Started ==
    \/ WriteCandidate \/ AdmitLease \/ AdmitBinding
    \/ RollbackLoad("operator") \/ RollbackRevoke("operator")
    \/ RollbackQuiesce("operator")
    \/ \E d \in Archive : RollbackArchive("operator", d) \/ RollbackPointer("operator", d)
    \/ RollbackProbe("operator") \/ RollbackReceipt("operator")

Runtime ==
    \/ \E p \in Launch :
         \/ LaunchRuntime(p) \/ CreateWorkspaceBinding(p) \/ MigrateCursor(p)
         \/ ReceiptCursor(p) \/ TakeRuntimeLock(p) \/ Bind(p) \/ Serve(p)
         \/ ProcessDies(p)
    \/ LockReleased

Next ==
    \/ Tick \/ Operator \/ Started \/ Runtime \/ WorkspaceWrite
    \/ \E c \in DOMAIN cand : LeaseLapses(c)
    \/ \E a \in Actor : Crash(a)

Spec == Init /\ [][Next]_vars

\* launchd keeps the supervisor's loop running, and neither a tick nor a started
\* command has a blocking step; both may still crash.
FairSpec == Spec /\ WF_vars(Tick) /\ WF_vars(Started)

-----------------------------------------------------------------------------
(* Properties *)

\* rollback_live_scribe: a rollback receipt, whoever wrote it and however many
\* crashes and retries it took, is the receipt of an epoch that is over: row
\* revoked, session ended, binding archived, process dead.
ReceiptMeansInactive ==
    \A a \in Roller, c \in DOMAIN cand : once[a][c] = "done" =>
        /\ cand[c].adm = "revoked" /\ cand[c].session = "ended"
        /\ (\E d \in ArchivesOf(a) : once[d][c] = "done") /\ ~Alive(c)

\* create_live_admission with prepare_recovery_candidate: an epoch that was
\* admitted as a recovery continues one that the supervisor had receipted and
\* archived, as the very next epoch, and no other recovery of it was admitted.
RecoveryHasEvidence ==
    \A c \in Admitted : cand[c].prior # 0 =>
        LET i == cand[c].prior IN
        /\ cand[i].adm = "revoked" /\ once["tick"][i] = "done"
        /\ once["revoked"][i] = "done" /\ once["intent"][i] = "done"
        /\ cand[c].epoch = cand[i].epoch + 1
        /\ \A d \in Admitted : cand[d].prior = i => d = c

\* LocalAuthority.check: when a runtime's effects are authorized, its epoch is
\* the last one, no other process of any epoch is serving, and its lock is held.
AuthorityIsExclusive ==
    \A p \in Launch : Authorized(p) =>
        /\ cand[active.c].epoch = LastEpoch /\ holder = p
        /\ \A q \in Launch \ {p} : proc[q] # "serving"

\* _verify_or_create_workspace_binding and _verify_cursor_migration: whoever has
\* a bootstrap request left the complete migration behind, so that no recovery
\* launch is refused for a half-done first launch.
RecoveryFindsMigration ==
    bootstrap # 0 \/ request # NoRequest =>
        home.workspace /\ home.target /\ home.receipt /\ ~home.empty

\* _supervisor_tick_locked: a completed restart names an epoch receipt of an
\* admitted recovery of exactly the epoch that was rolled back.
CompletedRestartIsReceipted ==
    request.state = "completed" =>
        \E c \in Admitted : /\ cand[c].prior = request.prior
                            /\ once["epoch"][c] = "done"
                            /\ cand[c].intent = "consumed"

\* Every file that a launch, a tick or a recovery relies on means what it says:
\* receipts of epochs that are over, a migration that is whole, a completed
\* restart whose epoch was receipted.
EvidenceIsSound ==
    /\ TypeOK /\ ReceiptMeansInactive /\ RecoveryFindsMigration
    /\ CompletedRestartIsReceipted

\* A torn artifact stops the tick that needs it.
Torn ==
    \E k \in {"revoked", "intent", "epoch", "tick"}, c \in DOMAIN cand :
        once[k][c] = "torn"

\* ACTIVE.json holds the binding of a live row.
Published == active.kind = "binding" /\ active.c \in Live

\* supervisor_tick under launchd: when the process of a published, live epoch
\* dies, ticks carry the fence through to the receipt and the request for the
\* next launch, across crashes of the supervisor and a rollback by hand into the
\* tick's own archive directory, unless an artifact of the tick was torn, a
\* healthy epoch is published by then, the rollback met an admission that
\* ACTIVE.json does not name, or a rollback by hand archived the binding in
\* another directory: every tick then refuses that pointer.
FenceCompletes ==
    (Published /\ ~Alive(active.c))
    ~> \/ /\ active.kind = "revoked" /\ once["tick"][active.c] = "done"
          /\ request = [state |-> "awaiting", prior |-> active.c]
       \/ Torn \/ active.kind = "aside" \/ \E c \in Live : c # active.c
       \/ Published /\ Alive(active.c)

\* What the tick finds when a lease lapsed but nothing else is wrong.
LapsedButHeld ==
    /\ Published /\ worker = active.c /\ cand[active.c].lease = "lapsed"
    /\ HoldsLock(cand[active.c].proc)

\* _admission_row_lineage_broken: "An expired clock on an otherwise live row is
\* not lineage loss.  The supervisor renews that row if the local process still
\* holds the lock."
RenewsLapsedRow == LapsedButHeld ~> ~LapsedButHeld

\* The same words of _admission_row_lineage_broken, for the tick's other half: it
\* revokes no live row whose lineage is whole and whose process is alive.
TickFencesOnlyLost ==
    [][At("tick", "revoke") /\ act'["tick"].pc = "quiesce" =>
           LET c == act["tick"].c IN LineageBroken(c) \/ ~Alive(c)]_vars

\* DDL 025 on closing a row: stale dependencies must not "strand the partial-unique
\* singleton row forever and make a safe epoch restart impossible".  A live row
\* whose process is dead is closed in the end, unless an artifact was torn.
NoStrandedRow == (\E c \in Live : ~Alive(c)) ~> (Torn \/ \A c \in Live : Alive(c))

=============================================================================
