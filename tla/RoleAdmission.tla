---------------------------- MODULE RoleAdmission ----------------------------
(***************************************************************************)
(* The admission of a Company role other than Scribe: company_role_runtime *)
(* (the launched process), the company_role half of the supervisor and     *)
(* admission modules, and the role validator of DDL 031, 040 and 075.      *)
(*                                                                         *)
(* It differs from Scribe's where it matters: the tick fences again on     *)
(* every pass over a revoked pointer, the fence kills no process but       *)
(* checks the database authority once more, a missing binding is never     *)
(* restored, an expired recovery candidate is never abandoned, and a lease *)
(* renewed after it lapsed gives no authority before the next renewal.     *)
(* Candidates and artifacts are abstracted as in ScribeAdmission.          *)
(***************************************************************************)
EXTENDS Naturals, Sequences, FiniteSets

CONSTANTS
    MaxCand,    \* candidates that are ever prepared
    MaxLaunch,  \* runtime processes that are ever launched
    MaxEvents   \* crashes, lapses, slow commits and mandate completions

ASSUME BoundAssumption == {MaxCand, MaxLaunch, MaxEvents} \subseteq Nat

Cand == 1 .. MaxCand
Launch == 1 .. MaxLaunch
Actor == {"tick", "command"}

VARIABLES
    cand,      \* the candidates' session, admission and intent rows
    worker,    \* the candidate whose lease token the worker row holds, or 0
    mandate,   \* status of the founder activation mandate
    active,    \* ACTIVE.json: a binding, a revoked pointer, or missing
    archive,   \* archived bindings, by candidate
    intent,    \* restart-intent files, by candidate
    receipt,   \* rollback receipts, by the candidate their path names
    request,   \* restart-request.json: the candidate it names, or 0
    candidate, \* the candidate file of prepare and admit, or 0
    bootstrap, \* bootstrap-request.json: the launch it names, or 0
    workspace, \* workspace-binding.json exists
    proc,      \* the launched processes
    holder,    \* the launch whose descriptor holds runtime.lock, or 0
    act,       \* supervisor tick and operator command
    events     \* history: events so far

rows == <<cand, worker, mandate>>
files == <<active, archive, intent, receipt, request, candidate, bootstrap, workspace>>
procs == <<proc, holder>>
vars == <<rows, files, procs, act, events>>

\* A lease: as minted; renewed in time; renewed after it lapsed; expired; or
\* renewed by a write that was committed after its own horizon.
LeaseState == {"first", "held", "late", "lapsed", "poisoned"}
Expired == {"lapsed", "poisoned"}

CandRow ==
    [epoch: Nat, proc: Launch, prior: 0 .. MaxCand,
     session: {"active", "ended"}, lease: LeaseState,
     adm: {"none", "live", "revoked"}, intent: {"none", "prepared", "consumed"}]

TornReceipt == MaxCand + 1  \* a receipt file that holds no whole receipt
Idle == [pc |-> "idle", c |-> 0, r |-> 0, lost |-> FALSE, holds |-> FALSE]
ActPc == {"idle", "judge", "renew", "load", "revoke", "archive", "pointer",
          "receipt", "intent", "request", "file", "binding"}

\* Every variable has its type; a row never names a candidate that follows it.
TypeOK ==
    /\ cand \in Seq(CandRow) /\ Len(cand) <= MaxCand
    /\ \A c \in DOMAIN cand : cand[c].prior < c
    /\ worker \in 0 .. Len(cand) /\ mandate \in {"active", "completed"}
    /\ active \in [kind: {"missing", "binding", "revoked"}, c: 0 .. Len(cand)]
    /\ archive \in [Cand -> {"none", "torn", "done"}]
    /\ intent \in [Cand -> {"none", "torn", "done"}]
    /\ receipt \in [Cand -> 0 .. TornReceipt]
    /\ request \in 0 .. Len(cand) /\ candidate \in 0 .. Len(cand)
    /\ bootstrap \in 0 .. MaxLaunch /\ workspace \in BOOLEAN
    /\ proc \in [Launch -> {"new", "empty", "ready", "waiting", "bound",
                         "serving", "dead"}]
    /\ holder \in 0 .. MaxLaunch
    /\ act \in [Actor -> [pc: ActPc, c: 0 .. Len(cand), r: 0 .. Len(cand),
                          lost: BOOLEAN, holds: BOOLEAN]]
    /\ events \in 0 .. MaxEvents

Init ==
    /\ cand = <<>> /\ worker = 0 /\ mandate = "active"
    /\ active = [kind |-> "missing", c |-> 0]
    /\ archive = [c \in Cand |-> "none"] /\ intent = [c \in Cand |-> "none"]
    /\ receipt = [c \in Cand |-> 0]
    /\ request = 0 /\ candidate = 0 /\ bootstrap = 0 /\ workspace = FALSE
    /\ proc = [p \in Launch |-> "new"] /\ holder = 0
    /\ act = [a \in Actor |-> Idle] /\ events = 0

-----------------------------------------------------------------------------
(* Rows, processes and actors. *)

Live == {c \in DOMAIN cand : cand[c].adm = "live"}
Admitted == {c \in DOMAIN cand : cand[c].adm # "none"}
LastEpoch == IF Admitted = {} THEN 0
             ELSE CHOOSE e \in {cand[c].epoch : c \in Admitted} :
                      \A c \in Admitted : cand[c].epoch <= e

Running(p) == proc[p] \notin {"new", "dead"}

\* verify_runtime_lock_held, of the process the candidate's binding names.
HoldsLock(c) == Running(cand[c].proc) /\ holder = cand[c].proc

\* _admission_row_lineage_broken
LineageBroken(c) == cand[c].adm # "live" \/ cand[c].session # "active" \/ worker = 0

\* kernel_bind_company_role_admission: DDL 040 stays strict, so that a lease
\* renewed late gives no authority yet.
Bindable(c) ==
    cand[c].adm = "live" /\ cand[c].session = "active" /\ cand[c].lease \in {"first", "held"}

\* The rollback's own look at the database: every deadline is in the future.
AuthorityFresh(c) ==
    /\ cand[c].adm = "live" /\ cand[c].session = "active"
    /\ cand[c].lease \notin Expired
    /\ worker # 0 /\ cand[worker].lease \notin Expired

At(a, pc) == act[a].pc = pc
Go(a, pc) == act' = [act EXCEPT ![a].pc = pc]
Raise(a) == act' = [act EXCEPT ![a] = Idle]
Event == events < MaxEvents /\ events' = events + 1

-----------------------------------------------------------------------------
(* The launched process: company_role_runtime.main. *)

\* assert_initial_state_empty: everything else in the state directory is created
\* after the workspace binding, or belongs to the supervisor.
StateEmpty == ~workspace

\* _load_optional_restart decides the mode; a recovery verifies the workspace
\* binding of the first launch.
LaunchRuntime(p) ==
    /\ proc[p] = "new" /\ \A q \in 1 .. p - 1 : proc[q] # "new"
    /\ \/ request = 0 /\ StateEmpty /\ proc' = [proc EXCEPT ![p] = "empty"]
       \/ request # 0 /\ workspace /\ proc' = [proc EXCEPT ![p] = "ready"]
    /\ UNCHANGED <<rows, files, holder, act, events>>

\* verify_or_create_workspace_binding, initial mode.
CreateWorkspaceBinding(p) ==
    /\ proc[p] = "empty"
    /\ proc' = [proc EXCEPT ![p] = IF workspace THEN "dead" ELSE "ready"]
    /\ workspace' = TRUE
    /\ UNCHANGED <<rows, active, archive, intent, receipt, request, candidate,
                   bootstrap, holder, act, events>>

\* runtime_lock, then the bootstrap request.
TakeRuntimeLock(p) ==
    /\ proc[p] = "ready"
    /\ IF holder = 0
       THEN holder' = p /\ bootstrap' = p /\ proc' = [proc EXCEPT ![p] = "waiting"]
       ELSE proc' = [proc EXCEPT ![p] = "dead"] /\ UNCHANGED <<holder, bootstrap>>
    /\ UNCHANGED <<rows, active, archive, intent, receipt, request, candidate,
                   workspace, act, events>>

\* verify_local_company_role_binding reads no deadline.
BindingVerified(p) == cand[active.c].proc = p /\ HoldsLock(active.c)

\* wait_for_binding, the verification and bind_company_role_transaction.
Bind(p) ==
    /\ proc[p] = "waiting"
    /\ active.kind = "binding" /\ cand[active.c].proc = p
    /\ proc' = [proc EXCEPT ![p] =
           IF BindingVerified(p) /\ Bindable(active.c) THEN "bound" ELSE "dead"]
    /\ UNCHANGED <<rows, files, holder, act, events>>

\* The runtime receipt and exec.
Serve(p) ==
    /\ proc[p] = "bound"
    /\ proc' = [proc EXCEPT ![p] = "serving"]
    /\ UNCHANGED <<rows, files, holder, act, events>>

\* The process ends by itself: a crash, a refusal, the wait's timeout, a reboot.
ProcessDies(p) ==
    /\ Running(p)
    /\ proc' = [proc EXCEPT ![p] = "dead"]
    /\ UNCHANGED <<rows, files, holder, act, events>>

\* Deviation: leaving the context manager unlocks before exec.
WrongLockReleased ==
    /\ holder # 0 /\ holder' = 0
    /\ UNCHANGED <<rows, files, proc, act, events>>

\* The last inherited descriptor of the lock is closed.
LockReleased ==
    /\ holder # 0 /\ proc[holder] = "dead" /\ holder' = 0
    /\ UNCHANGED <<rows, files, proc, act, events>>

-----------------------------------------------------------------------------
(* prepare-initial, prepare-recovery and admit, run by an operator. *)

\* CompanyRoleBootstrapRequest.verify_local_process
BootstrapHeld == bootstrap # 0 /\ Running(bootstrap) /\ holder = bootstrap

NewCand(epoch, prior) ==
    [epoch |-> epoch, proc |-> bootstrap, prior |-> prior, session |-> "active",
     lease |-> "first", adm |-> "none",
     intent |-> IF prior = 0 THEN "none" ELSE "prepared"]

\* _end_stale_company_role_sessions, then open_worker_session: the worker row
\* gets the new token whatever it held.
OpenSession(epoch, prior) ==
    /\ Len(cand) < MaxCand
    /\ cand' = Append([c \in DOMAIN cand |->
                          IF cand[c].lease \in Expired
                          THEN [cand[c] EXCEPT !.session = "ended"] ELSE cand[c]],
                      NewCand(epoch, prior))
    /\ worker' = Len(cand) + 1
    /\ act' = [act EXCEPT !["command"] = [Idle EXCEPT !.pc = "file", !.c = Len(cand) + 1]]

\* register_company_role_activation_subject, in the transaction of a prepare: it
\* wants the mandate active, whatever prepare itself would accept.
SubjectRegistered == mandate = "active"

\* prepare_company_role_initial_candidate
PrepareInitial ==
    /\ At("command", "idle") /\ BootstrapHeld
    /\ SubjectRegistered /\ Live = {}
    /\ \A c \in DOMAIN cand : cand[c].session = "ended" \/ cand[c].lease \in Expired
    /\ OpenSession(LastEpoch + 1, 0)
    /\ UNCHANGED <<mandate, files, procs, events>>

\* load_role_restart_intent, with the receipt that the intent names.
IntentLoads(i) == intent[i] = "done" /\ receipt[i] = i

OpenIntents(i) ==
    {c \in DOMAIN cand : cand[c].prior = i /\ cand[c].intent \in {"prepared", "consumed"}}

\* prepare_company_role_recovery_candidate: an open candidate is handed out
\* again while its first lease lasts ...
PrepareRecoveryAgain(i) ==
    /\ At("command", "idle") /\ BootstrapHeld /\ IntentLoads(i)
    /\ \E o \in OpenIntents(i) :
         /\ cand[o].proc = bootstrap /\ cand[o].session = "active"
         /\ cand[o].lease = "first"
         /\ cand[o].intent = "prepared" \/ cand[o].adm = "live"
         /\ act' = [act EXCEPT !["command"] = [Idle EXCEPT !.pc = "file", !.c = o]]
    /\ UNCHANGED <<rows, files, procs, events>>

\* ... any other open candidate, an expired one too, is refused.
PrepareRecovery(i) ==
    /\ At("command", "idle") /\ BootstrapHeld /\ IntentLoads(i)
    /\ OpenIntents(i) = {}
    /\ cand[i].adm = "revoked" /\ cand[i].session = "ended" /\ Live = {}
    /\ SubjectRegistered
    /\ OpenSession(cand[i].epoch + 1, i)
    /\ UNCHANGED <<mandate, files, procs, events>>

\* write_company_role_candidate
WriteCandidate ==
    /\ At("command", "file")
    /\ candidate' = act["command"].c
    /\ Raise("command")
    /\ UNCHANGED <<rows, active, archive, intent, receipt, request, bootstrap, workspace,
                   procs, events>>

\* kernel_validate_company_role_admission, on insert.
Insertable(c) ==
    /\ Live = {} /\ cand[c].epoch = LastEpoch + 1 /\ mandate = "active"
    /\ cand[c].session = "active" /\ cand[c].lease \notin Expired
    /\ cand[c].prior # 0 =>
           cand[cand[c].prior].adm = "revoked" /\ cand[c].intent = "prepared"

\* admit_company_role_candidate: the row is inserted once; a retry is refused.
AdmitInsert ==
    /\ At("command", "idle") /\ candidate # 0 /\ BootstrapHeld
    /\ cand[candidate].proc = bootstrap
    /\ cand[candidate].adm = "none" /\ Insertable(candidate)
    /\ cand' = [cand EXCEPT ![candidate].adm = "live",
                   ![candidate].intent = IF @ = "prepared" THEN "consumed" ELSE @]
    /\ act' = [act EXCEPT !["command"] = [Idle EXCEPT !.pc = "binding", !.c = candidate]]
    /\ UNCHANGED <<worker, mandate, files, procs, events>>

AdmitBinding ==
    /\ At("command", "binding")
    /\ active' = [kind |-> "binding", c |-> act["command"].c]
    /\ Raise("command")
    /\ UNCHANGED <<rows, archive, intent, receipt, request, candidate, bootstrap,
                   workspace, procs, events>>

-----------------------------------------------------------------------------
(* supervise_company_role_once, under the supervisor's database lock. *)

\* Read ACTIVE.json: a revoked pointer goes straight to the fence, a missing
\* binding is an error of the tick.
TickStart ==
    /\ At("tick", "idle")
    /\ act' = [act EXCEPT !["tick"] =
           CASE active.kind = "binding" -> [Idle EXCEPT !.pc = "judge", !.c = active.c]
             [] active.kind = "revoked" ->
                  [Idle EXCEPT !.pc = "load", !.c = active.c, !.lost = TRUE]
             [] active.kind = "missing" -> Idle]
    /\ UNCHANGED <<rows, files, procs, events>>

\* The process census, the lock and the lineage query.
TickJudge ==
    /\ At("tick", "judge")
    /\ LET c == act["tick"].c IN
         act' = [act EXCEPT
             !["tick"].pc = IF HoldsLock(c) /\ ~LineageBroken(c) THEN "renew" ELSE "load",
             !["tick"].lost = HoldsLock(c)]
    /\ UNCHANGED <<rows, files, procs, events>>

\* What renew_company_role_admission and the update branch of the role
\* validator ask of candidate c; an expired lease may be extended, a poisoned
\* one may not.
Renewable(c) ==
    /\ cand[c].session = "active" /\ worker = c /\ cand[c].adm = "live"
    /\ cand[c].lease # "poisoned" /\ mandate = "active"

\* Deviation: the lineage rule of DDL 069, which a late renewal fails next time.
WrongTickRenew ==
    /\ At("tick", "renew")
    /\ LET c == act["tick"].c IN
         IF Renewable(c) /\ cand[c].lease # "late"
         THEN cand' = [cand EXCEPT ![c].lease = IF @ = "lapsed" THEN "late" ELSE @]
         ELSE UNCHANGED cand
    /\ Raise("tick")
    /\ UNCHANGED <<worker, mandate, files, procs, events>>

\* renew_company_role_admission, one transaction, and the end of the tick.
TickRenew ==
    /\ At("tick", "renew")
    /\ LET c == act["tick"].c IN
         IF Renewable(c)
         THEN cand' = [cand EXCEPT ![c].lease =
                  CASE @ = "lapsed" -> "late" [] @ = "late" -> "held" [] OTHER -> @]
         ELSE UNCHANGED cand
    /\ Raise("tick")
    /\ UNCHANGED <<worker, mandate, files, procs, events>>

\* The same transaction, committed only after the lease that it grants is over.
TickRenewsTooLate ==
    /\ At("tick", "renew") /\ Renewable(act["tick"].c)
    /\ cand' = [cand EXCEPT ![act["tick"].c].lease = "poisoned"]
    /\ Raise("tick")
    /\ Event
    /\ UNCHANGED <<worker, mandate, files, procs>>

\* rollback_live_company_role reads ACTIVE.json again and measures the process
\* it names: one that holds the lock is fenced only if its authority is lost.
RollbackLoad ==
    /\ At("tick", "load")
    /\ LET r == active.c IN
         IF HoldsLock(r) /\ ~act["tick"].lost
         THEN Raise("tick")
         ELSE act' = [act EXCEPT !["tick"].pc = "revoke", !["tick"].r = r,
                                 !["tick"].holds = HoldsLock(r)]
    /\ UNCHANGED <<rows, files, procs, events>>

\* The transaction stands only if no other row is live and no other token is
\* left in the worker row.
NothingElseLive(r) == Live \subseteq {r} /\ worker \in {0, r}

\* Deviation: it trusts the lineage that was read before the lock was taken.
WrongRollbackRevoke ==
    /\ At("tick", "revoke")
    /\ LET r == act["tick"].r IN
         IF NothingElseLive(r)
         THEN /\ cand' = [cand EXCEPT ![r].adm = "revoked", ![r].session = "ended"]
              /\ worker' = 0 /\ Go("tick", "archive")
         ELSE Raise("tick") /\ UNCHANGED <<cand, worker>>
    /\ UNCHANGED <<mandate, files, procs, events>>

\* The rollback's transaction, under the admission's advisory lock: the row is
\* closed, its session ended and its token cleared, all or nothing.
RollbackRevoke ==
    /\ At("tick", "revoke")
    /\ LET r == act["tick"].r IN
         IF NothingElseLive(r) /\ ~(act["tick"].holds /\ AuthorityFresh(r))
         THEN /\ cand' = [cand EXCEPT ![r].adm = "revoked", ![r].session = "ended"]
              /\ worker' = 0 /\ Go("tick", "archive")
         ELSE Raise("tick") /\ UNCHANGED <<cand, worker>>
    /\ UNCHANGED <<mandate, files, procs, events>>

\* Deviation: an archive left by an interrupted fence is taken for a conflict.
WrongRollbackArchive ==
    /\ At("tick", "archive")
    /\ LET r == act["tick"].r IN
         IF archive[r] = "none" /\ active = [kind |-> "binding", c |-> r]
         THEN archive' = [archive EXCEPT ![r] = "done"] /\ Go("tick", "pointer")
         ELSE Raise("tick") /\ UNCHANGED archive
    /\ UNCHANGED <<rows, active, intent, receipt, request, candidate, bootstrap,
                   workspace, procs, events>>

\* archive_company_role_binding_for_restart: an archive of r is enough ...
RollbackArchive ==
    /\ At("tick", "archive")
    /\ LET r == act["tick"].r IN
         IF \/ archive[r] = "done"
            \/ archive[r] = "none" /\ active = [kind |-> "binding", c |-> r]
         THEN archive' = [archive EXCEPT ![r] = "done"] /\ Go("tick", "pointer")
         ELSE Raise("tick") /\ UNCHANGED archive
    /\ UNCHANGED <<rows, active, intent, receipt, request, candidate, bootstrap,
                   workspace, procs, events>>

\* ... to replace whatever ACTIVE.json holds by now.
RollbackPointer ==
    /\ At("tick", "pointer")
    /\ active' = [kind |-> "revoked", c |-> act["tick"].r]
    /\ Go("tick", "receipt")
    /\ UNCHANGED <<rows, archive, intent, receipt, request, candidate, bootstrap,
                   workspace, procs, events>>

\* The receipt of r, under the path of the binding that the tick read first.
RollbackReceipt ==
    /\ At("tick", "receipt")
    /\ LET c == act["tick"].c
           r == act["tick"].r
       IN IF receipt[c] \in {0, r}
          THEN receipt' = [receipt EXCEPT ![c] = r] /\ Go("tick", "intent")
          ELSE Raise("tick") /\ UNCHANGED receipt
    /\ UNCHANGED <<rows, active, archive, intent, request, candidate, bootstrap,
                   workspace, procs, events>>

\* Deviation: the intent does not compare the receipt with the prior binding.
WrongTickIntent ==
    /\ At("tick", "intent")
    /\ LET c == act["tick"].c IN
         IF intent[c] # "torn"
         THEN intent' = [intent EXCEPT ![c] = "done"] /\ Go("tick", "request")
         ELSE Raise("tick") /\ UNCHANGED intent
    /\ UNCHANGED <<rows, active, archive, receipt, request, candidate, bootstrap,
                   workspace, procs, events>>

\* create_role_restart_intent
TickIntent ==
    /\ At("tick", "intent")
    /\ LET c == act["tick"].c IN
         IF receipt[c] = c /\ intent[c] # "torn"
         THEN intent' = [intent EXCEPT ![c] = "done"] /\ Go("tick", "request")
         ELSE Raise("tick") /\ UNCHANGED intent
    /\ UNCHANGED <<rows, active, archive, receipt, request, candidate, bootstrap,
                   workspace, procs, events>>

TickRequest ==
    /\ At("tick", "request")
    /\ request' = act["tick"].c
    /\ Raise("tick")
    /\ UNCHANGED <<rows, active, archive, intent, receipt, candidate, bootstrap,
                   workspace, procs, events>>

-----------------------------------------------------------------------------
(* The environment. *)

\* The database clock passes the candidate's lease.
LeaseLapses(c) ==
    /\ cand[c].lease \notin Expired /\ cand[c].session = "active"
    /\ cand' = [cand EXCEPT ![c].lease = "lapsed"]
    /\ Event
    /\ UNCHANGED <<worker, mandate, files, procs, act>>

\* The last step receipt of the mandate is recorded.
MandateCompletes ==
    /\ mandate = "active" /\ mandate' = "completed"
    /\ Event
    /\ UNCHANGED <<cand, worker, files, procs, act>>

\* An actor stops; one that is creating a write-once file may leave it torn.
Crash(a) ==
    /\ ~At(a, "idle")
    /\ \/ UNCHANGED <<archive, intent, receipt>>
       \/ /\ At(a, "archive") /\ archive[act[a].r] = "none"
          /\ active = [kind |-> "binding", c |-> act[a].r]
          /\ archive' = [archive EXCEPT ![act[a].r] = "torn"]
          /\ UNCHANGED <<intent, receipt>>
       \/ /\ At(a, "receipt") /\ receipt[act[a].c] = 0
          /\ receipt' = [receipt EXCEPT ![act[a].c] = TornReceipt]
          /\ UNCHANGED <<archive, intent>>
       \/ /\ At(a, "intent") /\ receipt[act[a].c] = act[a].c /\ intent[act[a].c] = "none"
          /\ intent' = [intent EXCEPT ![act[a].c] = "torn"]
          /\ UNCHANGED <<archive, receipt>>
    /\ Raise(a)
    /\ Event
    /\ UNCHANGED <<rows, active, request, candidate, bootstrap, workspace, procs>>

Tick ==
    \/ TickStart \/ TickJudge \/ TickRenew \/ RollbackLoad \/ RollbackRevoke
    \/ RollbackArchive \/ RollbackPointer \/ RollbackReceipt \/ TickIntent \/ TickRequest

Started == WriteCandidate \/ AdmitBinding

Next ==
    \/ Tick \/ TickRenewsTooLate \/ Started
    \/ PrepareInitial \/ AdmitInsert
    \/ \E i \in DOMAIN cand : PrepareRecoveryAgain(i) \/ PrepareRecovery(i)
    \/ \E p \in Launch :
         \/ LaunchRuntime(p) \/ CreateWorkspaceBinding(p) \/ TakeRuntimeLock(p)
         \/ Bind(p) \/ Serve(p) \/ ProcessDies(p)
    \/ LockReleased \/ MandateCompletes
    \/ \E c \in DOMAIN cand : LeaseLapses(c)
    \/ \E a \in Actor : Crash(a)

Spec == Init /\ [][Next]_vars

\* The supervisor's loop catches every error and ticks again, and neither a tick
\* nor a started command has a blocking step.
FairSpec == Spec /\ WF_vars(Tick) /\ WF_vars(Started)

-----------------------------------------------------------------------------
(* Properties *)

\* supervise_company_role_once: the restart request, which any launch obeys,
\* names an epoch that is over and whose archive, receipt and intent are whole,
\* whatever was published between the two readings of ACTIVE.json.
RequestHasEvidence ==
    request # 0 =>
        /\ cand[request].adm = "revoked" /\ cand[request].session = "ended"
        /\ archive[request] = "done" /\ receipt[request] = request
        /\ intent[request] = "done"

\* prepare_company_role_recovery_candidate with the DDL's insert check: a
\* recovery continues a fenced epoch as the next one, and no epoch is continued
\* twice.
RecoveryHasEvidence ==
    \A c \in DOMAIN cand : cand[c].prior # 0 =>
        LET i == cand[c].prior IN
        /\ cand[i].adm = "revoked" /\ receipt[i] = i /\ intent[i] = "done"
        /\ cand[c].epoch = cand[i].epoch + 1
        /\ \A d \in DOMAIN cand : cand[d].prior = i => d = c

\* Whatever a launch or a recovery of the role relies on is the evidence of an
\* epoch that is over, and is relied on once.
EvidenceIsSound == TypeOK /\ RequestHasEvidence /\ RecoveryHasEvidence

\* company_role_runtime.main with verify_local_process: no two launched processes
\* serve the role, and a row that gives authority gives it to the process that
\* serves, although a fenced process is not killed.
OneServes ==
    \A p \in Launch : proc[p] = "serving" =>
        holder = p /\ \A c \in DOMAIN cand : Bindable(c) => cand[c].proc = p

\* The rollback's transaction closes no row that has its process and authority.
RevokesLost ==
    At("tick", "revoke") /\ act'["tick"].pc = "archive" =>
        ~(HoldsLock(act["tick"].r) /\ AuthorityFresh(act["tick"].r))

\* rollback_live_company_role: "cannot fence an exact live process while its
\* database authority remains live", whatever the tick had concluded from the
\* binding that it read before.
FencesOnlyLost == [][RevokesLost]_vars

\* A torn artifact stops the procedure that needs it.
Torn == \E c \in DOMAIN cand :
            "torn" \in {archive[c], intent[c]} \/ receipt[c] = TornReceipt

\* ACTIVE.json holds the binding of a live row, and the worker row its token.
Published == active.kind = "binding" /\ active.c \in Live /\ worker = active.c

\* The supervisor's loop: when the process of a published epoch dies, ticks
\* carry the fence through to the restart request, across their own crashes,
\* unless an artifact was torn or another candidate's token, row or receipt got in.
FenceCompletes ==
    (Published /\ ~Running(cand[active.c].proc))
    ~> \/ active.kind = "revoked" /\ request = active.c
       \/ Torn \/ worker \notin {0, active.c}

\* A published row that is out of authority only because its lease lapsed.
OutOfTime ==
    /\ Published /\ cand[active.c].lease \in {"lapsed", "late"}
    /\ HoldsLock(active.c) /\ mandate = "active"

\* DDL 075: "Honest chains - lawful post-lapse extends included - renew forever",
\* and readers refuse authority only "until the next in-window renewal re-anchors
\* provenance": a held row that lapsed is bindable again, or loses more than time.
LapsedRowRecovers == OutOfTime ~> ~OutOfTime

=============================================================================
