--------------------------- MODULE CommandGuardian ---------------------------
(***************************************************************************)
(* One sandboxed command of the effect broker: the worker thread that runs *)
(* _execute_sandboxed_command, its authority watchdog, the guardian        *)
(* process (_command_guardian), the command that the guardian forks, and   *)
(* the recovery of a running record by a restarted broker.                 *)
(*                                                                         *)
(* EffectBroker sees a command as running, sealed, failed or uncertain;    *)
(* this module opens that box.  A pipe is the token in it; a clock is the  *)
(* moment at which its bound is passed, which may be any moment.  The      *)
(* sandbox denies fork, so that the command is a single process.           *)
(***************************************************************************)
EXTENDS Naturals, Sequences

CONSTANT MaxFaults   \* broker crashes, killed guardians, exceptions, lapses

ASSUME FaultAssumption == MaxFaults \in Nat

VARIABLES
    worker,     \* [pc, outcome, knows, dirty, unsure] of the worker or recovery
    record,     \* the journal record: [state, known]
    watchdog,   \* "off", "on" or "ended"
    guardian,   \* where the guardian process is
    verdict,    \* the terminal status the guardian decided on
    stop,       \* the guardian received SIGTERM
    orphan,     \* the broker that spawned the guardian is gone
    child,      \* where the command process is
    fate,       \* history: how the command process ended
    launchGate, \* token in the pipe that releases the guardian
    childGate,  \* token in the pipe that releases the command
    control,    \* the watchdog's pipe to the guardian
    watch,      \* the watchdog's pipe to the worker
    status,     \* frames in the guardian's pipe to the worker
    authority,  \* authority.check would pass
    late,       \* the fixed deadline is over
    faults      \* history: faults so far

broker == <<worker, record, watchdog>>
guard == <<guardian, verdict, stop, orphan>>
command == <<child, fate>>
pipes == <<launchGate, childGate, control, watch, status>>
world == <<authority, late, faults>>
vars == <<broker, guard, command, pipes, world>>

WorkerPc == {"spawn", "register", "beat", "launch", "identity", "enlist", "gate",
             "watch", "terminal"}
CleanupPc == {"killChild", "proveChild", "term", "kill", "retry", "proveRetry",
              "unwatch"}
RecoverPc == {"recover", "rKillChild", "rProveChild", "rKill", "rRetry",
              "rProveRetry", "rWrite"}
Gate == {"shut", "go", "closed"}
Beat == {"empty", "beat", "refused", "closed"}

\* Every variable has its type.
TypeOK ==
    /\ worker \in [pc: WorkerPc \union CleanupPc \union RecoverPc
                         \union {"write", "ended", "down"},
                   outcome: {"none", "exited", "fenced"},
                   knows: BOOLEAN, dirty: BOOLEAN, unsure: BOOLEAN]
    /\ record \in [state: {"running", "completed", "failed"},
                   known: {"none", "guardian", "child"}]
    /\ watchdog \in {"off", "on", "ended"}
    /\ guardian \in {"none", "gate", "armed", "forked", "watching", "close", "reap",
                     "report", "exit", "dead"}
    /\ verdict \in {"none", "exited", "fenced"}
    /\ child \in {"none", "new", "gated", "exec", "zombie", "gone"}
    /\ fate \in {"none", "exited", "killed"}
    /\ {launchGate, childGate} \subseteq Gate /\ {control, watch} \subseteq Beat
    /\ status \in Seq({"child", "exited", "fenced"}) /\ Len(status) <= 2
    /\ {stop, orphan, authority, late} \subseteq BOOLEAN
    /\ faults \in 0 .. MaxFaults

Init ==
    /\ worker = [pc |-> "spawn", outcome |-> "none", knows |-> FALSE,
                 dirty |-> FALSE, unsure |-> FALSE]
    /\ record = [state |-> "running", known |-> "none"]
    /\ watchdog = "off" /\ guardian = "none" /\ verdict = "none"
    /\ stop = FALSE /\ orphan = FALSE
    /\ child = "none" /\ fate = "none"
    /\ launchGate = "shut" /\ childGate = "shut"
    /\ control = "empty" /\ watch = "empty" /\ status = <<>>
    /\ authority = TRUE /\ late = FALSE /\ faults = 0

-----------------------------------------------------------------------------
(* Processes and pipes. *)

At(pc) == worker.pc = pc
Go(pc) == worker' = [worker EXCEPT !.pc = pc]

\* The finally block of _execute_sandboxed_command: the worker's ends of the gates
\* and of the status and watch pipes are closed before anything is killed.
Shut(gate) == IF gate = "shut" THEN "closed" ELSE gate
Fence(outcome) ==
    /\ worker' = [worker EXCEPT !.outcome = outcome,
                      !.pc = IF worker.knows THEN "killChild" ELSE "term"]
    /\ launchGate' = Shut(launchGate) /\ childGate' = Shut(childGate)
    /\ UNCHANGED <<control, watch, status>>

\* The worker still reads the status pipe.
StatusOpen == worker.pc \in WorkerPc

\* The next frame in it.
Frame(kind) == status # <<>> /\ Head(status) = kind

Alive == child \in {"new", "gated", "exec"}

\* SIGKILL; the zombie stays until its parent, or init for it, waits for it.
Kill == /\ child' = IF Alive THEN "zombie" ELSE child
        /\ fate' = IF Alive THEN "killed" ELSE fate

\* End of file or a refusal on a pipe of the watchdog.
Lost(pipe) == pipe = "refused" \/ (pipe = "empty" /\ watchdog = "ended")

-----------------------------------------------------------------------------
(* The watchdog thread: _authority_watchdog. *)

\* One pass: the guardian's pipe first, and a pipe nobody reads ends the watchdog
\* without a word to the worker.
WatchdogTick ==
    /\ watchdog = "on"
    /\ IF authority
       THEN IF control = "closed"
            THEN watchdog' = "ended" /\ UNCHANGED <<control, watch>>
            ELSE control' = "beat" /\ watch' = "beat" /\ UNCHANGED watchdog
       ELSE /\ watchdog' = "ended" /\ watch' = "refused"
            /\ control' = IF control = "closed" THEN control ELSE "refused"
    /\ UNCHANGED <<worker, record, guard, command, launchGate, childGate, status, world>>

-----------------------------------------------------------------------------
(* The worker: _execute_sandboxed_command. *)

\* The first authority check, the snapshot and Popen.
Spawn ==
    /\ At("spawn")
    /\ IF authority /\ ~late
       THEN guardian' = "gate" /\ Go("register")
       ELSE worker' = [worker EXCEPT !.pc = "write", !.outcome = "fenced"]
            /\ UNCHANGED guardian
    /\ UNCHANGED <<record, watchdog, verdict, stop, orphan, command, pipes, world>>

\* _register_guardian, then the watchdog's start.
RegisterGuardian ==
    /\ At("register")
    /\ record' = [record EXCEPT !.known = "guardian"]
    /\ watchdog' = "on"
    /\ Go("beat")
    /\ UNCHANGED <<guard, command, pipes, world>>

\* _await_initial_authority_heartbeat: a beat, a refusal, or nothing in time.
AwaitBeat ==
    /\ At("beat")
    /\ IF watch = "beat"
       THEN /\ watch' = "empty" /\ Go("launch")
            /\ UNCHANGED <<launchGate, childGate, control, status>>
       ELSE Fence("fenced")
    /\ UNCHANGED <<record, watchdog, guard, command, world>>

\* The check, the deadline and the token that releases the guardian.
ReleaseGuardian ==
    /\ At("launch")
    /\ IF authority /\ ~late /\ guardian # "dead"
       THEN /\ launchGate' = "go" /\ Go("identity")
            /\ UNCHANGED <<childGate, control, watch, status>>
       ELSE Fence("fenced")
    /\ UNCHANGED <<record, watchdog, guard, command, world>>

\* _read_guardian_child_identity: the first frame, end of file or nothing in time.
ReadIdentity ==
    /\ At("identity")
    /\ IF Frame("child") /\ child # "gone"
       THEN /\ worker' = [worker EXCEPT !.pc = "enlist", !.knows = TRUE]
            /\ status' = Tail(status)
            /\ UNCHANGED <<launchGate, childGate, control, watch>>
       ELSE Fence("fenced")
    /\ UNCHANGED <<record, watchdog, guard, command, world>>

\* Deviation: the child is registered only when it is already running.
WrongRegisterChild ==
    /\ At("enlist")
    /\ IF late THEN Fence("fenced") ELSE Go("gate") /\ UNCHANGED pipes
    /\ UNCHANGED <<record, watchdog, guard, command, world>>

\* _register_guardian_child
RegisterChild ==
    /\ At("enlist")
    /\ IF late
       THEN Fence("fenced") /\ UNCHANGED record
       ELSE /\ record' = [record EXCEPT !.known = "child"]
            /\ Go("gate") /\ UNCHANGED pipes
    /\ UNCHANGED <<watchdog, guard, command, world>>

\* The last checks and the token that releases the command.
ReleaseChild ==
    /\ At("gate")
    /\ IF authority /\ ~Lost(watch) /\ ~late /\ Alive
       THEN /\ childGate' = "go" /\ watch' = "empty" /\ Go("watch")
            /\ UNCHANGED <<launchGate, control, status>>
       ELSE Fence("fenced")
    /\ UNCHANGED <<record, watchdog, guard, command, world>>

\* The loop until the guardian is gone: a beat is consumed; a refusal, end of file,
\* silence and the deadline fence.
WatchCommand ==
    /\ At("watch")
    /\ \/ guardian = "dead" /\ Go("terminal") /\ UNCHANGED pipes
       \/ /\ guardian # "dead" /\ watch = "beat" /\ ~late
          /\ watch' = "empty"
          /\ UNCHANGED <<worker, launchGate, childGate, control, status>>
       \/ guardian # "dead" /\ (late \/ watch # "beat") /\ Fence("fenced")
    /\ UNCHANGED <<record, watchdog, guard, command, world>>

\* Deviation: whatever the guardian left, the command is taken for finished.
WrongReadTerminal ==
    /\ At("terminal")
    /\ Fence("exited")
    /\ UNCHANGED <<record, watchdog, guard, command, world>>

\* _read_guardian_terminal
ReadTerminal ==
    /\ At("terminal")
    /\ Fence(IF Frame("exited") THEN "exited" ELSE "fenced")
    /\ UNCHANGED <<record, watchdog, guard, command, world>>

\* Something of the worker raises: a pipe, the journal, a fingerprint.
WorkerRaises ==
    /\ worker.pc \in WorkerPc \ {"spawn", "terminal"} /\ faults < MaxFaults
    /\ Fence("fenced")
    /\ faults' = faults + 1
    /\ UNCHANGED <<record, watchdog, guard, command, authority, late>>

-----------------------------------------------------------------------------
(* Cleanup by the worker, and by the recovery of a running record. *)

\* _terminate_exact_command_child: SIGKILL ...
TerminateChild(pc, next) ==
    /\ At(pc)
    /\ Kill
    /\ Go(next)
    /\ UNCHANGED <<record, watchdog, guard, pipes, world>>

\* ... and the proof within a second that the process is gone.
ProveChild(pc, next) ==
    /\ At(pc)
    /\ worker' = [worker EXCEPT !.pc = next, !.dirty = child # "gone"]
    /\ UNCHANGED <<record, watchdog, guard, command, pipes, world>>

\* The second attempt, after the guardian is gone.
ProveAgain(pc, next) ==
    /\ At(pc)
    /\ worker' = [worker EXCEPT !.pc = next, !.dirty = FALSE,
                      !.unsure = @ \/ child # "gone"]
    /\ UNCHANGED <<record, watchdog, guard, command, pipes, world>>

\* _kill_process_group: SIGTERM kills a guardian without its handler ...
TermGuardian ==
    /\ At("term")
    /\ guardian' = IF guardian = "gate" THEN "dead" ELSE guardian
    /\ stop' = TRUE
    /\ Go("kill")
    /\ UNCHANGED <<record, watchdog, verdict, orphan, command, pipes, world>>

\* ... and SIGKILL any other; the worker has waited for it.
KillGuardian(pc, retry, next) ==
    /\ At(pc)
    /\ guardian' = IF guardian = "none" THEN "none" ELSE "dead"
    /\ control' = "closed"
    /\ Go(IF worker.dirty THEN retry ELSE next)
    /\ UNCHANGED <<record, watchdog, verdict, stop, orphan, command,
                   launchGate, childGate, watch, status, world>>

\* The watchdog is stopped and joined; one that hangs in its check is not.
StopWatchdog ==
    /\ At("unwatch")
    /\ \/ /\ watchdog' = IF watchdog = "on" THEN "ended" ELSE watchdog
          /\ Go("write") /\ UNCHANGED faults
       \/ /\ watchdog = "on" /\ faults < MaxFaults /\ faults' = faults + 1
          /\ worker' = [worker EXCEPT !.pc = "write", !.unsure = TRUE]
          /\ UNCHANGED watchdog
    /\ UNCHANGED <<record, guard, command, pipes, authority, late>>

\* Deviation: the guardian's word is stored as the state of the record.
WrongWriteOutcome ==
    /\ At("write")
    /\ record' = IF worker.unsure THEN record
                 ELSE [record EXCEPT !.state = worker.outcome]
    /\ Go("ended")
    /\ UNCHANGED <<watchdog, guard, command, pipes, world>>

\* The last authority check and the end of _worker: an uncertain cleanup leaves the
\* record running.
WriteOutcome ==
    /\ At("write")
    /\ record' = IF worker.unsure THEN record
                 ELSE [record EXCEPT !.state =
                     IF worker.outcome = "exited" /\ authority THEN "completed" ELSE "failed"]
    /\ Go("ended")
    /\ UNCHANGED <<watchdog, guard, command, pipes, world>>

\* Deviation: the recovery leaves the command to its guardian.
WrongRecover ==
    /\ At("recover")
    /\ Go(IF record.known = "none" THEN "rWrite" ELSE "rKill")
    /\ UNCHANGED <<record, watchdog, guard, command, pipes, world>>

\* Deviation: a record without a guardian is refused as malformed.
WrongStrictRecover ==
    /\ At("recover")
    /\ Go(CASE record.known = "none" -> "down"
            [] record.known = "guardian" -> "rKill"
            [] record.known = "child" -> "rKillChild")
    /\ UNCHANGED <<record, watchdog, guard, command, pipes, world>>

\* _recover_nonchannel_effects in a new broker: what the record names is
\* killed, the command first.
Recover ==
    /\ At("recover")
    /\ Go(CASE record.known = "none" -> "rWrite"
            [] record.known = "guardian" -> "rKill"
            [] record.known = "child" -> "rKillChild")
    /\ UNCHANGED <<record, watchdog, guard, command, pipes, world>>

\* An unproved kill or a lost authority raises, and the broker does not start.
RecoverWrite ==
    /\ At("rWrite")
    /\ IF worker.unsure \/ ~authority
       THEN Go("down") /\ UNCHANGED record
       ELSE Go("ended") /\ record' = [record EXCEPT !.state = "failed"]
    /\ UNCHANGED <<watchdog, guard, command, pipes, world>>

-----------------------------------------------------------------------------
(* The guardian process: _command_guardian. *)

\* A deadline in the future, the launch token, and a parent that still is the
\* broker.
GuardianStarts ==
    /\ guardian = "gate" /\ (launchGate # "shut" \/ late)
    /\ guardian' = IF launchGate = "go" /\ ~orphan /\ ~late THEN "armed" ELSE "dead"
    /\ control' = IF guardian' = "dead" THEN "closed" ELSE control
    /\ UNCHANGED <<broker, verdict, stop, orphan, command, launchGate, childGate,
                   watch, status, world>>

\* The first beat and the fork, or a fence before it.
GuardianForks ==
    /\ guardian = "armed"
    /\ IF control = "beat" /\ ~(stop \/ orphan \/ late)
       THEN /\ guardian' = "forked" /\ child' = "new" /\ control' = "empty"
            /\ UNCHANGED verdict
       ELSE /\ guardian' = "close" /\ verdict' = "fenced"
            /\ UNCHANGED <<child, control>>
    /\ UNCHANGED <<broker, stop, orphan, fate, launchGate, childGate, watch, status, world>>

\* The child's identity is reported once it leads a session of its own.
GuardianReports ==
    /\ guardian = "forked"
    /\ \/ /\ child = "gated" /\ StatusOpen
          /\ guardian' = "watching" /\ status' = Append(status, "child")
          /\ UNCHANGED verdict
       \/ /\ child # "gated" \/ ~StatusOpen \/ late
          /\ guardian' = "close" /\ verdict' = "fenced" /\ UNCHANGED status
    /\ UNCHANGED <<broker, stop, orphan, command, launchGate, childGate, control,
                   watch, world>>

\* The loop: the child's own end, a reason to fence, or another beat.  With an
\* empty pipe the silence may have lasted long enough.
GuardianWatches ==
    /\ guardian = "watching"
    /\ \/ /\ child = "zombie" /\ child' = "gone"
          /\ verdict' = IF late THEN "fenced" ELSE "exited"
          /\ guardian' = "close" /\ UNCHANGED control
       \/ /\ child # "zombie"
          /\ stop \/ late \/ orphan \/ Lost(control) \/ control = "empty"
          /\ verdict' = "fenced" /\ guardian' = "close"
          /\ UNCHANGED <<child, control>>
       \/ /\ child # "zombie" /\ control = "beat" /\ ~(stop \/ late \/ orphan)
          /\ control' = "empty"
          /\ UNCHANGED <<child, verdict, guardian>>
    /\ UNCHANGED <<broker, stop, orphan, fate, launchGate, childGate, watch, status, world>>

\* The finally block: the control pipe is closed first ...
GuardianCloses ==
    /\ guardian = "close"
    /\ guardian' = "reap" /\ control' = "closed"
    /\ UNCHANGED <<broker, verdict, stop, orphan, command, launchGate, childGate,
                   watch, status, world>>

\* ... the child is killed and waited for ...
GuardianReaps ==
    /\ guardian = "reap"
    /\ guardian' = "report"
    /\ child' = IF child = "none" THEN "none" ELSE "gone"
    /\ fate' = IF Alive THEN "killed" ELSE fate
    /\ UNCHANGED <<broker, verdict, stop, orphan, pipes, world>>

\* ... the terminal status is written, and the interpreter exits.
GuardianEnds ==
    /\ \/ /\ guardian = "report" /\ guardian' = "exit"
          /\ status' = IF StatusOpen THEN Append(status, verdict) ELSE status
       \/ guardian = "exit" /\ guardian' = "dead" /\ UNCHANGED status
    /\ UNCHANGED <<broker, verdict, stop, orphan, command, launchGate, childGate,
                   control, watch, world>>

-----------------------------------------------------------------------------
(* The command process. *)

ChildReady ==
    /\ child = "new" /\ child' = "gated"
    /\ UNCHANGED <<broker, guard, fate, pipes, world>>

\* The token, the same parent and the deadline, then exec.
ChildExecs ==
    /\ child = "gated" /\ childGate # "shut"
    /\ IF childGate = "go" /\ guardian # "dead" /\ ~late
       THEN child' = "exec" /\ UNCHANGED fate
       ELSE child' = "zombie" /\ fate' = "exited"
    /\ UNCHANGED <<broker, guard, pipes, world>>

\* The command ends when it pleases.
ChildExits ==
    /\ child = "exec" /\ child' = "zombie" /\ fate' = "exited"
    /\ UNCHANGED <<broker, guard, pipes, world>>

\* A dead guardian's child is waited for by init.
InitReaps ==
    /\ child = "zombie" /\ guardian = "dead" /\ child' = "gone"
    /\ UNCHANGED <<broker, guard, fate, pipes, world>>

-----------------------------------------------------------------------------
(* The environment. *)

Fault == faults < MaxFaults /\ faults' = faults + 1

\* The broker process dies; what it wrote to a pipe stays there.
BrokerDies ==
    /\ worker.pc # "down"
    /\ worker' = [worker EXCEPT !.pc = "down"]
    /\ watchdog' = IF watchdog = "on" THEN "ended" ELSE watchdog
    /\ orphan' = TRUE
    /\ launchGate' = Shut(launchGate) /\ childGate' = Shut(childGate)
    /\ Fault
    /\ UNCHANGED <<record, guardian, verdict, stop, command, control, watch, status,
                   authority, late>>

\* A new broker recovers before it serves.
BrokerRestarts ==
    /\ At("down") /\ record.state = "running"
    /\ worker' = [pc |-> "recover", outcome |-> "none", knows |-> FALSE,
                  dirty |-> FALSE, unsure |-> FALSE]
    /\ UNCHANGED <<record, watchdog, guard, command, pipes, world>>

\* Somebody kills the guardian.
GuardianDies ==
    /\ guardian \notin {"none", "dead"} /\ guardian' = "dead"
    /\ control' = "closed"
    /\ Fault
    /\ UNCHANGED <<broker, verdict, stop, orphan, command, launchGate, childGate,
                   watch, status, authority, late>>

AuthorityLost ==
    /\ authority /\ authority' = FALSE
    /\ Fault
    /\ UNCHANGED <<broker, guard, command, pipes, late>>

AuthorityBack ==
    /\ ~authority /\ authority' = TRUE
    /\ UNCHANGED <<broker, guard, command, pipes, late, faults>>

DeadlinePasses ==
    /\ ~late /\ guardian # "none" /\ late' = TRUE
    /\ UNCHANGED <<broker, guard, command, pipes, authority, faults>>

Worker ==
    \/ Spawn \/ RegisterGuardian \/ AwaitBeat \/ ReleaseGuardian \/ ReadIdentity
    \/ RegisterChild \/ ReleaseChild \/ WatchCommand \/ ReadTerminal
    \/ TerminateChild("killChild", "proveChild") \/ ProveChild("proveChild", "term")
    \/ TermGuardian \/ KillGuardian("kill", "retry", "unwatch")
    \/ TerminateChild("retry", "proveRetry") \/ ProveAgain("proveRetry", "unwatch")
    \/ StopWatchdog \/ WriteOutcome

Recovery ==
    \/ Recover \/ RecoverWrite \/ BrokerRestarts
    \/ TerminateChild("rKillChild", "rProveChild") \/ ProveChild("rProveChild", "rKill")
    \/ KillGuardian("rKill", "rRetry", "rWrite")
    \/ TerminateChild("rRetry", "rProveRetry") \/ ProveAgain("rProveRetry", "rWrite")

Guardian ==
    \/ GuardianStarts \/ GuardianForks \/ GuardianReports \/ GuardianWatches
    \/ GuardianCloses \/ GuardianReaps \/ GuardianEnds

Next ==
    \/ Worker \/ Recovery \/ Guardian \/ WatchdogTick
    \/ ChildReady \/ ChildExecs \/ ChildExits \/ InitReaps
    \/ WorkerRaises \/ BrokerDies \/ GuardianDies
    \/ AuthorityLost \/ AuthorityBack \/ DeadlinePasses

Spec == Init /\ [][Next]_vars

\* Threads and processes are scheduled, a dead broker is started again, and init
\* waits.  Nothing is assumed of the command, the clock, the authority or the
\* watchdog, whose check may hang in the database.
FairSpec ==
    /\ Spec /\ WF_vars(Worker) /\ WF_vars(Recovery) /\ WF_vars(Guardian)
    /\ WF_vars(InitReaps) /\ WF_vars(ChildReady \/ ChildExecs)

-----------------------------------------------------------------------------
(* Properties *)

\* _worker and the recovery: once a command's record is terminal, no process of
\* the command runs or ever will, whoever crashed or was killed in between.
TerminalMeansStopped == record.state # "running" => child # "exec"

\* _register_guardian_child before the gate: a command that runs is named by its
\* record, so that a new broker can find it when broker and guardian are gone.
RunningIsRecorded == child = "exec" => record.known = "child"

\* _execute_sandboxed_command: a result is reported only for a command that ended
\* by itself, never for one that was killed or did not start.
CompletedMeansExited == record.state = "completed" => fate = "exited" /\ child = "gone"

\* _command_guardian and the recovery: the deadline, a lost authority and a dead
\* broker each stop a running command, although broker and guardian may both be
\* gone and the watchdog may hang.
MustStop == child = "exec" /\ (late \/ ~authority \/ At("down"))
CommandStops == MustStop ~> ~MustStop

\* submit waits for its worker: past the deadline every worker ends, and a record
\* found running by a new broker is resolved unless the authority is lost.
CommandReturns ==
    /\ (late /\ ~At("ended")) ~> (At("ended") \/ At("down"))
    /\ At("down") ~> (record.state # "running" \/ ~authority)

=============================================================================
