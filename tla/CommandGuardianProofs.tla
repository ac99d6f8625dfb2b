----------------------- MODULE CommandGuardianProofs -----------------------
(***************************************************************************)
(* Proofs about CommandGuardian for every number of faults.                *)
(***************************************************************************)
EXTENDS CommandGuardian, TLAPS

-----------------------------------------------------------------------------
(* The inductive invariant. *)

Dead == child \in {"zombie", "gone"}
Released == childGate = "go"

\* The steps that follow a kill of the command, or that skip it because the
\* command was never released.
Killed == {"proveChild", "term", "kill", "retry", "proveRetry", "unwatch", "write",
           "ended", "rProveChild", "rKill", "rRetry", "rProveRetry", "rWrite"}

\* What the record and the worker know about the command before it is released.
Known ==
    /\ Released => record.known = "child"
    /\ At("gate") => record.known = "child"
    /\ worker.pc \in {"spawn", "register"} => record.known = "none"
    /\ record.known = "child" => child # "none"
    /\ worker.knows => child # "none"
    /\ \A i \in DOMAIN status : status[i] = "child" => child # "none"
    /\ worker.pc \in {"enlist", "gate", "watch", "terminal"} => worker.knows
    /\ Released /\ worker.pc \in WorkerPc \union CleanupPc => worker.knows

\* Only a released command runs, and no command that was released survives its
\* kill; a record is terminal only behind that.
Stopped ==
    /\ child = "exec" => Released
    /\ Released /\ worker.pc \in Killed => Dead
    /\ Released /\ record.state # "running" => Dead
    /\ record.state # "running" => worker.pc \in {"ended", "down"}

\* The guardian forks once and reports at most a child and a verdict.
Forks ==
    /\ At("spawn") => guardian = "none"
    /\ guardian \in {"none", "gate", "armed"} => child = "none"
    /\ guardian \in {"none", "gate", "armed", "forked"} => status = <<>>
    /\ guardian \in {"watching", "close", "reap", "report"} => Len(status) <= 1
    /\ guardian \in {"close", "reap", "report", "exit"} => verdict # "none"

\* The command ended by itself.
Exited == child = "gone" /\ fate = "exited"

\* Where the word "exited" may be found.
Verdicts ==
    /\ Dead => fate # "none"
    /\ verdict = "exited" => child = "gone"
    /\ worker.pc \in WorkerPc /\ fate = "killed" => verdict # "exited"
    /\ worker.pc \in WorkerPc /\ fate = "killed"
          => guardian \notin {"none", "gate", "armed", "forked", "watching"}
    /\ \A i \in DOMAIN status : status[i] = "exited" => Exited
    /\ worker.outcome = "exited" => Exited
    /\ record.state = "completed" => Exited

IInv == TypeOK /\ Known /\ Stopped /\ Forks /\ Verdicts

\* The type of the worker.
Workers == [pc: WorkerPc \union CleanupPc \union RecoverPc
                  \union {"write", "ended", "down"},
            outcome: {"none", "exited", "fenced"},
            knows: BOOLEAN, dirty: BOOLEAN, unsure: BOOLEAN]

USE DEF broker, guard, command, pipes, world, At, Go, WorkerPc, CleanupPc, RecoverPc,
        Gate, Beat, Dead, Released, Killed, Exited
USE FaultAssumption

\* The worker's finally block leaves typed pipes and a typed worker.
LEMMA FenceTypes ==
    ASSUME TypeOK, NEW o \in {"exited", "fenced"}, Fence(o)
    PROVE  /\ worker' \in Workers
           /\ {launchGate', childGate'} \subseteq Gate
           /\ UNCHANGED <<control, watch, status>>
  <1>1. worker' \in Workers BY DEF TypeOK, Workers, Fence
  <1>2. {launchGate', childGate'} \subseteq Gate BY DEF TypeOK, Fence, Shut
  <1>3. UNCHANGED <<control, watch, status>> BY DEF Fence
  <1> QED BY <1>1, <1>2, <1>3

\* From a fence the worker goes on to the kill if it may have released the command.
LEMMA FenceSafe ==
    ASSUME IInv, NEW o \in {"exited", "fenced"}, Fence(o), worker.pc \in WorkerPc,
           UNCHANGED <<record, child>>
    PROVE  Known' /\ Stopped'
  <1>1. /\ worker'.pc = IF worker.knows THEN "killChild" ELSE "term"
        /\ worker'.knows = worker.knows
    BY DEF IInv, TypeOK, Fence
  <1>2. childGate' = "go" <=> childGate = "go" BY DEF Fence, Shut
  <1>3. UNCHANGED status BY DEF Fence
  <1>4. Known' BY <1>1, <1>2, <1>3 DEF IInv, Known
  <1>5. record.state = "running" BY DEF IInv, TypeOK, Stopped
  <1>6. Stopped' BY <1>1, <1>2, <1>5 DEF IInv, Known, Stopped
  <1> QED BY <1>4, <1>6

\* What is left of the status pipe when its first frame is read.
LEMMA StatusTail ==
    ASSUME NEW S, NEW s \in Seq(S), s # <<>>
    PROVE  /\ Tail(s) \in Seq(S) /\ Len(Tail(s)) = Len(s) - 1
           /\ \A i \in DOMAIN Tail(s) : i + 1 \in DOMAIN s /\ Tail(s)[i] = s[i + 1]
  OBVIOUS

\* The first frame in an empty status pipe.
LEMMA FirstFrame ==
    ASSUME NEW S, NEW s \in Seq(S), Len(s) = 0, NEW x \in S
    PROVE  Append(s, x) \in Seq(S) /\ Len(Append(s, x)) = 1
  OBVIOUS

\* _authority_watchdog: a beat or a refusal touches no process.
LEMMA WatchdogTickStep == ASSUME IInv, WatchdogTick PROVE IInv'
  <1>1. TypeOK' BY DEF IInv, TypeOK, Forks, WatchdogTick
  <1>2. Known' BY DEF IInv, TypeOK, Known, WatchdogTick
  <1>3. Stopped' BY DEF IInv, TypeOK, Known, Stopped, WatchdogTick
  <1>4. Forks' BY DEF IInv, TypeOK, Forks, WatchdogTick
  <1>5. Verdicts' BY DEF IInv, TypeOK, Forks, Verdicts, WatchdogTick
  <1> QED BY <1>1, <1>2, <1>3, <1>4, <1>5 DEF IInv

\* Popen: the guardian waits at its gate, and nothing is forked.
LEMMA SpawnStep == ASSUME IInv, Spawn PROVE IInv'
  <1>1. TypeOK'
    <2>1. worker' \in Workers
      <3>1. CASE worker' = [worker EXCEPT !.pc = "register"]
        BY <3>1 DEF IInv, TypeOK, Workers
      <3>2. CASE worker' = [worker EXCEPT !.pc = "write", !.outcome = "fenced"]
        BY <3>2 DEF IInv, TypeOK, Workers
      <3> QED BY <3>1, <3>2 DEF Spawn
    <2>2. guardian' \in {guardian, "gate"} BY DEF Spawn
    <2>3. UNCHANGED <<record, watchdog, verdict, stop, orphan, command, pipes, world>>
      BY DEF Spawn
    <2> QED BY <2>1, <2>2, <2>3 DEF IInv, TypeOK, Workers
  <1>2. Known' BY DEF IInv, TypeOK, Known, Spawn
  <1>3. Stopped' BY DEF IInv, TypeOK, Known, Stopped, Spawn
  <1>4. Forks' BY DEF IInv, TypeOK, Forks, Spawn
  <1>5. Verdicts' BY DEF IInv, TypeOK, Forks, Verdicts, Spawn
  <1> QED BY <1>1, <1>2, <1>3, <1>4, <1>5 DEF IInv

\* _register_guardian: the record names the guardian, not yet a command.
LEMMA RegisterGuardianStep == ASSUME IInv, RegisterGuardian PROVE IInv'
  <1>1. TypeOK' BY DEF IInv, TypeOK, Forks, RegisterGuardian
  <1>2. Known' BY DEF IInv, TypeOK, Known, RegisterGuardian
  <1>3. Stopped' BY DEF IInv, TypeOK, Known, Stopped, RegisterGuardian
  <1>4. Forks' BY DEF IInv, TypeOK, Forks, RegisterGuardian
  <1>5. Verdicts' BY DEF IInv, TypeOK, Forks, Verdicts, RegisterGuardian
  <1> QED BY <1>1, <1>2, <1>3, <1>4, <1>5 DEF IInv

\* _await_initial_authority_heartbeat: nothing is released yet.
LEMMA AwaitBeatStep == ASSUME IInv, AwaitBeat PROVE IInv'
  <1>1. TypeOK'
    <2>1. worker' \in Workers BY FenceTypes DEF IInv, TypeOK, Workers, AwaitBeat
    <2>2. {launchGate', childGate'} \subseteq Gate /\ {control', watch'} \subseteq Beat
      BY FenceTypes DEF IInv, TypeOK, AwaitBeat
    <2>3. record' \in [state: {"running", "completed", "failed"},
                       known: {"none", "guardian", "child"}]
      BY DEF IInv, TypeOK, AwaitBeat
    <2>4. status' \in Seq({"child", "exited", "fenced"}) /\ Len(status') <= 2
      BY FenceTypes, StatusTail DEF IInv, TypeOK, AwaitBeat
    <2>5. faults' \in 0 .. MaxFaults BY DEF IInv, TypeOK, AwaitBeat
    <2>6. UNCHANGED <<watchdog, guard, command, authority, late>> BY DEF AwaitBeat
    <2> QED BY <2>1, <2>2, <2>3, <2>4, <2>5, <2>6 DEF IInv, TypeOK, Workers
  <1>2. Known' /\ Stopped'
    <2>1. CASE watch = "beat"
      <3>1. worker.pc = "beat" /\ worker'.pc = "launch" /\ worker'.knows = worker.knows
        BY <2>1 DEF IInv, TypeOK, AwaitBeat
      <3>2. UNCHANGED <<record, child, childGate, status>> BY <2>1 DEF AwaitBeat
      <3>3. Known' BY <3>1, <3>2 DEF IInv, Known
      <3>4. Stopped' BY <3>1, <3>2 DEF IInv, Stopped
      <3> QED BY <3>3, <3>4
    <2>2. CASE watch # "beat"
      <3>1. Fence("fenced") /\ worker.pc \in WorkerPc /\ UNCHANGED <<record, child>>
        BY <2>2 DEF AwaitBeat
      <3> QED BY <3>1, FenceSafe
    <2> QED BY <2>1, <2>2
  <1>4. Forks' BY DEF IInv, TypeOK, Forks, AwaitBeat, Fence, Shut
  <1>5. Verdicts' BY DEF IInv, TypeOK, Forks, Verdicts, AwaitBeat, Fence, Shut
  <1> QED BY <1>1, <1>2, <1>4, <1>5 DEF IInv

\* The launch token releases the guardian, not the command.
LEMMA ReleaseGuardianStep == ASSUME IInv, ReleaseGuardian PROVE IInv'
  <1>1. TypeOK'
    <2>1. worker' \in Workers BY FenceTypes DEF IInv, TypeOK, Workers, ReleaseGuardian
    <2>2. {launchGate', childGate'} \subseteq Gate /\ {control', watch'} \subseteq Beat
      BY FenceTypes DEF IInv, TypeOK, ReleaseGuardian
    <2>3. record' \in [state: {"running", "completed", "failed"},
                       known: {"none", "guardian", "child"}]
      BY DEF IInv, TypeOK, ReleaseGuardian
    <2>4. status' \in Seq({"child", "exited", "fenced"}) /\ Len(status') <= 2
      BY FenceTypes, StatusTail DEF IInv, TypeOK, ReleaseGuardian
    <2>5. faults' \in 0 .. MaxFaults BY DEF IInv, TypeOK, ReleaseGuardian
    <2>6. UNCHANGED <<watchdog, guard, command, authority, late>> BY DEF ReleaseGuardian
    <2> QED BY <2>1, <2>2, <2>3, <2>4, <2>5, <2>6 DEF IInv, TypeOK, Workers
  <1>2. Known' /\ Stopped'
    <2>1. CASE authority /\ ~late /\ guardian # "dead"
      <3>1. worker.pc = "launch" /\ worker'.pc = "identity" /\ worker'.knows = worker.knows
        BY <2>1 DEF IInv, TypeOK, ReleaseGuardian
      <3>2. UNCHANGED <<record, child, childGate, status>> BY <2>1 DEF ReleaseGuardian
      <3>3. Known' BY <3>1, <3>2 DEF IInv, Known
      <3>4. Stopped' BY <3>1, <3>2 DEF IInv, Stopped
      <3> QED BY <3>3, <3>4
    <2>2. CASE ~(authority /\ ~late /\ guardian # "dead")
      <3>1. Fence("fenced") /\ worker.pc \in WorkerPc /\ UNCHANGED <<record, child>>
        BY <2>2 DEF ReleaseGuardian
      <3> QED BY <3>1, FenceSafe
    <2> QED BY <2>1, <2>2
  <1>4. Forks' BY DEF IInv, TypeOK, Forks, ReleaseGuardian, Fence, Shut
  <1>5. Verdicts'
    <2>1. worker'.outcome \in {"fenced", worker.outcome}
      <3>1. CASE worker' = [worker EXCEPT !.pc = "identity"] BY <3>1 DEF IInv, TypeOK
      <3>2. CASE Fence("fenced") BY <3>2 DEF IInv, TypeOK, Fence
      <3> QED BY <3>1, <3>2 DEF ReleaseGuardian
    <2>2. UNCHANGED <<record, guardian, verdict, child, fate, status>> /\ worker.pc = "launch"
      BY DEF ReleaseGuardian, Fence
    <2> QED BY <2>1, <2>2 DEF IInv, Verdicts
  <1> QED BY <1>1, <1>2, <1>4, <1>5 DEF IInv

\* _read_guardian_child_identity: the frame names a command that was forked.
LEMMA ReadIdentityStep == ASSUME IInv, ReadIdentity PROVE IInv'
  <1>1. TypeOK'
    <2>1. worker' \in Workers
      <3>1. CASE Frame("child") /\ child # "gone"
        <4>1. worker' = [worker EXCEPT !.pc = "enlist", !.knows = TRUE]
          BY <3>1 DEF ReadIdentity
        <4> QED BY <4>1 DEF IInv, TypeOK, Workers
      <3>2. CASE ~(Frame("child") /\ child # "gone")
        <4>1. Fence("fenced") BY <3>2 DEF ReadIdentity
        <4> QED BY <4>1, FenceTypes DEF IInv
      <3> QED BY <3>1, <3>2
    <2>2. {launchGate', childGate'} \subseteq Gate /\ {control', watch'} \subseteq Beat
      BY FenceTypes DEF IInv, TypeOK, ReadIdentity, Frame
    <2>3. record' \in [state: {"running", "completed", "failed"},
                       known: {"none", "guardian", "child"}]
      BY DEF IInv, TypeOK, ReadIdentity, Frame
    <2>4. status' \in Seq({"child", "exited", "fenced"}) /\ Len(status') <= 2
      BY FenceTypes, StatusTail DEF IInv, TypeOK, ReadIdentity, Frame
    <2>5. faults' \in 0 .. MaxFaults BY DEF IInv, TypeOK, ReadIdentity, Frame
    <2>6. UNCHANGED <<watchdog, guard, command, authority, late>> BY DEF ReadIdentity, Frame
    <2> QED BY <2>1, <2>2, <2>3, <2>4, <2>5, <2>6 DEF IInv, TypeOK, Workers
  <1>2. Known' /\ Stopped'
    <2>1. CASE Frame("child") /\ child # "gone"
      <3>1. 1 \in DOMAIN status /\ status[1] = "child" /\ worker.pc = "identity"
        BY <2>1 DEF IInv, TypeOK, ReadIdentity, Frame
      <3>2. worker'.pc = "enlist" /\ worker'.knows = TRUE
        BY <2>1 DEF IInv, TypeOK, ReadIdentity
      <3>3. UNCHANGED <<child, record, childGate>> BY <2>1 DEF ReadIdentity
      <3>4. child # "none" BY <3>1 DEF IInv, Known
      <3>5. Known' BY <3>1, <3>2, <3>3, <3>4 DEF IInv, Known
      <3>6. Stopped' BY <3>1, <3>2, <3>3 DEF IInv, Stopped
      <3> QED BY <3>5, <3>6
    <2>2. CASE ~(Frame("child") /\ child # "gone")
      <3>1. Fence("fenced") /\ worker.pc \in WorkerPc /\ UNCHANGED <<record, child>>
        BY <2>2 DEF ReadIdentity
      <3> QED BY <3>1, FenceSafe
    <2> QED BY <2>1, <2>2
  <1>4. Forks'
    <2>1. CASE Frame("child") /\ child # "gone"
      <3>1. status' = Tail(status) /\ status # <<>>
            /\ UNCHANGED <<guardian, child, verdict, fate, record>>
        BY <2>1 DEF ReadIdentity, Frame
      <3>2. worker' = [worker EXCEPT !.pc = "enlist", !.knows = TRUE]
            /\ worker.pc = "identity"
        BY <2>1 DEF ReadIdentity
      <3> QED BY <3>1, <3>2, StatusTail DEF IInv, TypeOK, Forks
    <2>2. CASE ~(Frame("child") /\ child # "gone")
      BY <2>2 DEF IInv, TypeOK, Forks, ReadIdentity, Fence, Shut
    <2> QED BY <2>1, <2>2
  <1>5. Verdicts'
    <2>1. CASE Frame("child") /\ child # "gone"
      <3>1. status' = Tail(status) /\ status # <<>>
            /\ UNCHANGED <<guardian, child, verdict, fate, record>>
        BY <2>1 DEF ReadIdentity, Frame
      <3>2. worker' = [worker EXCEPT !.pc = "enlist", !.knows = TRUE]
            /\ worker.pc = "identity"
        BY <2>1 DEF ReadIdentity
      <3>3. \A i \in DOMAIN status' : status'[i] = "exited" => Exited
        BY <3>1, StatusTail DEF IInv, TypeOK, Verdicts
      <3> QED BY <3>1, <3>2, <3>3 DEF IInv, TypeOK, Verdicts
    <2>2. CASE ~(Frame("child") /\ child # "gone")
      BY <2>2 DEF IInv, TypeOK, Verdicts, ReadIdentity, Fence, Shut
    <2> QED BY <2>1, <2>2
  <1> QED BY <1>1, <1>2, <1>4, <1>5 DEF IInv

\* _register_guardian_child: the record names the command before its gate opens.
LEMMA RegisterChildStep == ASSUME IInv, RegisterChild PROVE IInv'
  <1>1. TypeOK'
    <2>1. worker' \in Workers BY FenceTypes DEF IInv, TypeOK, Workers, RegisterChild
    <2>2. {launchGate', childGate'} \subseteq Gate /\ {control', watch'} \subseteq Beat
      BY FenceTypes DEF IInv, TypeOK, RegisterChild
    <2>3. record' \in [state: {"running", "completed", "failed"},
                       known: {"none", "guardian", "child"}]
      BY DEF IInv, TypeOK, RegisterChild
    <2>4. status' \in Seq({"child", "exited", "fenced"}) /\ Len(status') <= 2
      BY FenceTypes, StatusTail DEF IInv, TypeOK, RegisterChild
    <2>5. faults' \in 0 .. MaxFaults BY DEF IInv, TypeOK, RegisterChild
    <2>6. UNCHANGED <<watchdog, guard, command, authority, late>> BY DEF RegisterChild
    <2> QED BY <2>1, <2>2, <2>3, <2>4, <2>5, <2>6 DEF IInv, TypeOK, Workers
  <1>2. Known' /\ Stopped'
    <2>1. CASE ~late
      <3>1. worker.pc = "enlist" /\ worker'.pc = "gate" /\ worker'.knows = worker.knows
        BY <2>1 DEF IInv, TypeOK, RegisterChild
      <3>2. record'.known = "child" /\ record'.state = record.state
        BY <2>1 DEF IInv, TypeOK, RegisterChild
      <3>3. UNCHANGED <<child, childGate, status>> BY <2>1 DEF RegisterChild
      <3>4. Known' BY <3>1, <3>2, <3>3 DEF IInv, Known
      <3>5. Stopped' BY <3>1, <3>2, <3>3 DEF IInv, Stopped
      <3> QED BY <3>4, <3>5
    <2>2. CASE late
      <3>1. Fence("fenced") /\ worker.pc \in WorkerPc /\ UNCHANGED <<record, child>>
        BY <2>2 DEF RegisterChild
      <3> QED BY <3>1, FenceSafe
    <2> QED BY <2>1, <2>2
  <1>4. Forks' BY DEF IInv, TypeOK, Forks, RegisterChild, Fence, Shut
  <1>5. Verdicts'
    <2>1. worker'.outcome \in {"fenced", worker.outcome}
      <3>1. CASE late BY <3>1 DEF IInv, TypeOK, RegisterChild, Fence
      <3>2. CASE ~late BY <3>2 DEF IInv, TypeOK, RegisterChild
      <3> QED BY <3>1, <3>2
    <2>2. record'.state = record.state /\ worker.pc = "enlist"
      BY DEF IInv, TypeOK, RegisterChild
    <2>3. UNCHANGED <<guardian, verdict, child, fate, status>> BY DEF RegisterChild, Fence
    <2> QED BY <2>1, <2>2, <2>3 DEF IInv, Verdicts
  <1> QED BY <1>1, <1>2, <1>4, <1>5 DEF IInv

\* The gate is opened for a command that the record and the worker know.
LEMMA ReleaseChildStep == ASSUME IInv, ReleaseChild PROVE IInv'
  <1>1. TypeOK'
    <2>1. worker' \in Workers BY FenceTypes DEF IInv, TypeOK, Workers, ReleaseChild
    <2>2. {launchGate', childGate'} \subseteq Gate /\ {control', watch'} \subseteq Beat
      BY FenceTypes DEF IInv, TypeOK, ReleaseChild
    <2>3. record' \in [state: {"running", "completed", "failed"},
                       known: {"none", "guardian", "child"}]
      BY DEF IInv, TypeOK, ReleaseChild
    <2>4. status' \in Seq({"child", "exited", "fenced"}) /\ Len(status') <= 2
      BY FenceTypes, StatusTail DEF IInv, TypeOK, ReleaseChild
    <2>5. faults' \in 0 .. MaxFaults BY DEF IInv, TypeOK, ReleaseChild
    <2>6. UNCHANGED <<watchdog, guard, command, authority, late>> BY DEF ReleaseChild
    <2> QED BY <2>1, <2>2, <2>3, <2>4, <2>5, <2>6 DEF IInv, TypeOK, Workers
  <1>2. Known' /\ Stopped'
    <2>1. CASE authority /\ ~Lost(watch) /\ ~late /\ Alive
      <3>1. worker.pc = "gate" /\ worker'.pc = "watch" /\ worker'.knows = worker.knows
        BY <2>1 DEF IInv, TypeOK, ReleaseChild
      <3>2. UNCHANGED <<record, child, status>> BY <2>1 DEF ReleaseChild
      <3>3. worker.knows /\ record.known = "child" BY <3>1 DEF IInv, Known
      <3>4. record.state = "running" BY <3>1 DEF IInv, TypeOK, Stopped
      <3>5. childGate' = "go" BY <2>1 DEF ReleaseChild
      <3>6. Known' BY <3>1, <3>2, <3>3 DEF IInv, Known
      <3>7. Stopped' BY <3>1, <3>2, <3>4, <3>5 DEF Stopped
      <3> QED BY <3>6, <3>7
    <2>2. CASE ~(authority /\ ~Lost(watch) /\ ~late /\ Alive)
      <3>1. Fence("fenced") /\ worker.pc \in WorkerPc /\ UNCHANGED <<record, child>>
        BY <2>2 DEF ReleaseChild
      <3> QED BY <3>1, FenceSafe
    <2> QED BY <2>1, <2>2
  <1>4. Forks' BY DEF IInv, TypeOK, Forks, ReleaseChild, Fence, Shut, Alive
  <1>5. Verdicts' BY DEF IInv, TypeOK, Forks, Verdicts, ReleaseChild, Fence, Shut, Alive
  <1> QED BY <1>1, <1>2, <1>4, <1>5 DEF IInv

\* The loop fences or waits; it reports nothing.
LEMMA WatchCommandStep == ASSUME IInv, WatchCommand PROVE IInv'
  <1>1. TypeOK'
    <2>1. worker' \in Workers BY FenceTypes DEF IInv, TypeOK, Workers, WatchCommand
    <2>2. {launchGate', childGate'} \subseteq Gate /\ {control', watch'} \subseteq Beat
      BY FenceTypes DEF IInv, TypeOK, WatchCommand
    <2>3. record' \in [state: {"running", "completed", "failed"},
                       known: {"none", "guardian", "child"}]
      BY DEF IInv, TypeOK, WatchCommand
    <2>4. status' \in Seq({"child", "exited", "fenced"}) /\ Len(status') <= 2
      BY FenceTypes, StatusTail DEF IInv, TypeOK, WatchCommand
    <2>5. faults' \in 0 .. MaxFaults BY DEF IInv, TypeOK, WatchCommand
    <2>6. UNCHANGED <<watchdog, guard, command, authority, late>> BY DEF WatchCommand
    <2> QED BY <2>1, <2>2, <2>3, <2>4, <2>5, <2>6 DEF IInv, TypeOK, Workers
  <1>2. Known' /\ Stopped'
    <2>1. CASE Fence("fenced") BY <2>1, FenceSafe DEF WatchCommand
    <2>2. CASE ~Fence("fenced")
      <3>1. worker.pc = "watch" /\ worker'.pc \in {"watch", "terminal"}
            /\ worker'.knows = worker.knows
        BY <2>2 DEF IInv, TypeOK, WatchCommand
      <3>2. UNCHANGED <<record, child, childGate, status>> BY <2>2 DEF WatchCommand
      <3>3. Known' BY <3>1, <3>2 DEF IInv, Known
      <3>4. Stopped' BY <3>1, <3>2 DEF IInv, Stopped
      <3> QED BY <3>3, <3>4
    <2> QED BY <2>1, <2>2
  <1>4. Forks' BY DEF IInv, TypeOK, Forks, WatchCommand, Fence, Shut
  <1>5. Verdicts' BY DEF IInv, TypeOK, Forks, Verdicts, WatchCommand, Fence, Shut
  <1> QED BY <1>1, <1>2, <1>4, <1>5 DEF IInv

\* _read_guardian_terminal: "exited" was written for a command that is gone.
LEMMA ReadTerminalStep == ASSUME IInv, ReadTerminal PROVE IInv'
  <1>1. TypeOK'
    <2>1. worker' \in Workers BY FenceTypes DEF IInv, TypeOK, Workers, ReadTerminal, Frame
    <2>2. {launchGate', childGate'} \subseteq Gate /\ {control', watch'} \subseteq Beat
      BY FenceTypes DEF IInv, TypeOK, ReadTerminal, Frame
    <2>3. record' \in [state: {"running", "completed", "failed"},
                       known: {"none", "guardian", "child"}]
      BY DEF IInv, TypeOK, ReadTerminal, Frame
    <2>4. status' \in Seq({"child", "exited", "fenced"}) /\ Len(status') <= 2
      BY FenceTypes, StatusTail DEF IInv, TypeOK, ReadTerminal, Frame
    <2>5. faults' \in 0 .. MaxFaults BY DEF IInv, TypeOK, ReadTerminal, Frame
    <2>6. UNCHANGED <<watchdog, guard, command, authority, late>> BY DEF ReadTerminal, Frame
    <2> QED BY <2>1, <2>2, <2>3, <2>4, <2>5, <2>6 DEF IInv, TypeOK, Workers
  <1>2. Known' /\ Stopped' BY FenceSafe DEF ReadTerminal
  <1>4. Forks' BY DEF IInv, TypeOK, Forks, ReadTerminal, Fence, Shut, Frame
  <1>5. Verdicts' BY DEF IInv, TypeOK, Forks, Verdicts, ReadTerminal, Fence, Shut, Frame
  <1> QED BY <1>1, <1>2, <1>4, <1>5 DEF IInv

\* An exception takes the path of a fence.
LEMMA WorkerRaisesStep == ASSUME IInv, WorkerRaises PROVE IInv'
  <1>1. TypeOK'
    <2>1. worker' \in Workers BY FenceTypes DEF IInv, TypeOK, Workers, WorkerRaises
    <2>2. {launchGate', childGate'} \subseteq Gate /\ {control', watch'} \subseteq Beat
      BY FenceTypes DEF IInv, TypeOK, WorkerRaises
    <2>3. record' \in [state: {"running", "completed", "failed"},
                       known: {"none", "guardian", "child"}]
      BY DEF IInv, TypeOK, WorkerRaises
    <2>4. status' \in Seq({"child", "exited", "fenced"}) /\ Len(status') <= 2
      BY FenceTypes, StatusTail DEF IInv, TypeOK, WorkerRaises
    <2>5. faults' \in 0 .. MaxFaults BY DEF IInv, TypeOK, WorkerRaises
    <2>6. UNCHANGED <<watchdog, guard, command, authority, late>> BY DEF WorkerRaises
    <2> QED BY <2>1, <2>2, <2>3, <2>4, <2>5, <2>6 DEF IInv, TypeOK, Workers
  <1>2. Known' /\ Stopped' BY FenceSafe DEF WorkerRaises
  <1>4. Forks' BY DEF IInv, TypeOK, Forks, WorkerRaises, Fence, Shut
  <1>5. Verdicts' BY DEF IInv, TypeOK, Forks, Verdicts, WorkerRaises, Fence, Shut
  <1> QED BY <1>1, <1>2, <1>4, <1>5 DEF IInv

\* SIGTERM reaches the guardian only.
LEMMA TermGuardianStep == ASSUME IInv, TermGuardian PROVE IInv'
  <1>1. TypeOK' BY DEF IInv, TypeOK, Forks, TermGuardian
  <1>2. Known' BY DEF IInv, TypeOK, Known, TermGuardian
  <1>3. Stopped' BY DEF IInv, TypeOK, Known, Stopped, TermGuardian
  <1>4. Forks' BY DEF IInv, TypeOK, Forks, TermGuardian
  <1>5. Verdicts' BY DEF IInv, TypeOK, Forks, Verdicts, TermGuardian
  <1> QED BY <1>1, <1>2, <1>3, <1>4, <1>5 DEF IInv

\* The watchdog ends, or the cleanup is unsure.
LEMMA StopWatchdogStep == ASSUME IInv, StopWatchdog PROVE IInv'
  <1>1. TypeOK'
    <2>1. worker' \in Workers
      <3>1. CASE worker' = [worker EXCEPT !.pc = "write"] BY <3>1 DEF IInv, TypeOK, Workers
      <3>2. CASE worker' = [worker EXCEPT !.pc = "write", !.unsure = TRUE]
        BY <3>2 DEF IInv, TypeOK, Workers
      <3> QED BY <3>1, <3>2 DEF StopWatchdog
    <2>2. faults' \in 0 .. MaxFaults BY DEF IInv, TypeOK, StopWatchdog
    <2>3. watchdog' \in {"off", "on", "ended"} BY DEF IInv, TypeOK, StopWatchdog
    <2>4. UNCHANGED <<record, guard, command, pipes, authority, late>> BY DEF StopWatchdog
    <2> QED BY <2>1, <2>2, <2>3, <2>4 DEF IInv, TypeOK, Workers
  <1>2. Known' /\ Stopped'
    <2>1. worker.pc = "unwatch" /\ worker'.pc = "write" /\ worker'.knows = worker.knows
      BY DEF IInv, TypeOK, StopWatchdog
    <2>2. UNCHANGED <<record, child, childGate, status>> BY DEF StopWatchdog
    <2>3. Known' BY <2>1, <2>2 DEF IInv, Known
    <2>4. Stopped' BY <2>1, <2>2 DEF IInv, Stopped
    <2> QED BY <2>3, <2>4
  <1>4. Forks' BY DEF IInv, TypeOK, Forks, StopWatchdog
  <1>5. Verdicts'
    <2>1. worker'.pc = "write" /\ worker'.outcome = worker.outcome
      BY DEF IInv, TypeOK, StopWatchdog
    <2>2. UNCHANGED <<record, guardian, verdict, child, fate, status>> BY DEF StopWatchdog
    <2> QED BY <2>1, <2>2 DEF IInv, Verdicts
  <1> QED BY <1>1, <1>2, <1>4, <1>5 DEF IInv

\* The record becomes terminal behind the kill, completed only for an exit.
LEMMA WriteOutcomeStep == ASSUME IInv, WriteOutcome PROVE IInv'
  <1>1. TypeOK' BY DEF IInv, TypeOK, Forks, WriteOutcome
  <1>2. Known' BY DEF IInv, TypeOK, Known, WriteOutcome
  <1>3. Stopped' BY DEF IInv, TypeOK, Known, Stopped, WriteOutcome
  <1>4. Forks' BY DEF IInv, TypeOK, Forks, WriteOutcome
  <1>5. Verdicts' BY DEF IInv, TypeOK, Forks, Verdicts, WriteOutcome
  <1> QED BY <1>1, <1>2, <1>3, <1>4, <1>5 DEF IInv

\* A record that names no command belongs to a gate that never opened.
LEMMA RecoverStep == ASSUME IInv, Recover PROVE IInv'
  <1>1. TypeOK' BY DEF IInv, TypeOK, Forks, Recover
  <1>2. Known' BY DEF IInv, TypeOK, Known, Recover
  <1>3. Stopped' BY DEF IInv, TypeOK, Known, Stopped, Recover
  <1>4. Forks' BY DEF IInv, TypeOK, Forks, Recover
  <1>5. Verdicts' BY DEF IInv, TypeOK, Forks, Verdicts, Recover
  <1> QED BY <1>1, <1>2, <1>3, <1>4, <1>5 DEF IInv

\* The recovered record fails behind the kill.
LEMMA RecoverWriteStep == ASSUME IInv, RecoverWrite PROVE IInv'
  <1>1. TypeOK' BY DEF IInv, TypeOK, Forks, RecoverWrite
  <1>2. Known' BY DEF IInv, TypeOK, Known, RecoverWrite
  <1>3. Stopped' BY DEF IInv, TypeOK, Known, Stopped, RecoverWrite
  <1>4. Forks' BY DEF IInv, TypeOK, Forks, RecoverWrite
  <1>5. Verdicts' BY DEF IInv, TypeOK, Forks, Verdicts, RecoverWrite
  <1> QED BY <1>1, <1>2, <1>3, <1>4, <1>5 DEF IInv

\* The guardian passes its gate or ends.
LEMMA GuardianStartsStep == ASSUME IInv, GuardianStarts PROVE IInv'
  <1>1. TypeOK' BY DEF IInv, TypeOK, Forks, GuardianStarts
  <1>2. Known' BY DEF IInv, TypeOK, Known, GuardianStarts
  <1>3. Stopped' BY DEF IInv, TypeOK, Known, Stopped, GuardianStarts
  <1>4. Forks' BY DEF IInv, TypeOK, Forks, GuardianStarts
  <1>5. Verdicts' BY DEF IInv, TypeOK, Forks, Verdicts, GuardianStarts
  <1> QED BY <1>1, <1>2, <1>3, <1>4, <1>5 DEF IInv

\* The fork: the record names no command before it.
LEMMA GuardianForksStep == ASSUME IInv, GuardianForks PROVE IInv'
  <1>1. TypeOK' BY DEF IInv, TypeOK, Forks, GuardianForks
  <1>2. Known' BY DEF IInv, TypeOK, Known, GuardianForks
  <1>3. Stopped'
    <2>1. guardian = "armed" /\ child = "none" BY DEF IInv, Forks, GuardianForks
    <2>2. record.known # "child" /\ UNCHANGED <<worker, record, childGate>>
      BY <2>1 DEF IInv, TypeOK, Known, GuardianForks
    <2>3. childGate # "go" /\ child' \in {"none", "new"}
      BY <2>1, <2>2 DEF IInv, Known, GuardianForks
    <2> QED BY <2>2, <2>3 DEF IInv, Stopped
  <1>4. Forks' BY DEF IInv, TypeOK, Forks, GuardianForks
  <1>5. Verdicts' BY DEF IInv, TypeOK, Forks, Verdicts, GuardianForks
  <1> QED BY <1>1, <1>2, <1>3, <1>4, <1>5 DEF IInv

\* The first frame names the command that was forked.
LEMMA GuardianReportsStep == ASSUME IInv, GuardianReports PROVE IInv'
  <1>1. TypeOK'
    <2>1. status = <<>> BY DEF IInv, Forks, GuardianReports
    <2>2. status' \in Seq({"child", "exited", "fenced"}) /\ Len(status') <= 1
      <3>1. status \in Seq({"child", "exited", "fenced"}) /\ Len(status) = 0
        BY <2>1 DEF IInv, TypeOK
      <3>2. CASE status' = Append(status, "child") BY <3>1, <3>2, FirstFrame
      <3>3. CASE status' = status BY <3>1, <3>3
      <3> QED BY <3>2, <3>3 DEF GuardianReports
    <2>3. guardian' \in {"watching", "close"} /\ verdict' \in {verdict, "fenced"}
      BY DEF GuardianReports
    <2>4. UNCHANGED <<broker, stop, orphan, command, launchGate, childGate, control,
                      watch, world>>
      BY DEF GuardianReports
    <2> QED BY <2>2, <2>3, <2>4 DEF IInv, TypeOK
  <1>2. Known' BY DEF IInv, TypeOK, Known, GuardianReports, StatusOpen
  <1>3. Stopped' BY DEF IInv, TypeOK, Known, Stopped, GuardianReports, StatusOpen
  <1>4. Forks'
    <2>1. status = <<>> BY DEF IInv, Forks, GuardianReports
    <2>2. status' \in Seq({"child", "exited", "fenced"}) /\ Len(status') <= 1
      <3>1. status \in Seq({"child", "exited", "fenced"}) /\ Len(status) = 0
        BY <2>1 DEF IInv, TypeOK
      <3>2. CASE status' = Append(status, "child") BY <3>1, <3>2, FirstFrame
      <3>3. CASE status' = status BY <3>1, <3>3
      <3> QED BY <3>2, <3>3 DEF GuardianReports
    <2>3. guardian' = "watching" \/ (guardian' = "close" /\ verdict' = "fenced")
      BY DEF GuardianReports
    <2>4. guardian = "forked" /\ UNCHANGED worker BY DEF GuardianReports
    <2> QED BY <2>2, <2>3, <2>4 DEF IInv, Forks
  <1>5. Verdicts' BY DEF IInv, TypeOK, Forks, Verdicts, GuardianReports, StatusOpen
  <1> QED BY <1>1, <1>2, <1>3, <1>4, <1>5 DEF IInv

\* The verdict "exited" is for a command that nobody killed.
LEMMA GuardianWatchesStep == ASSUME IInv, GuardianWatches PROVE IInv'
  <1>1. TypeOK' BY DEF IInv, TypeOK, Forks, GuardianWatches
  <1>2. Known' BY DEF IInv, TypeOK, Known, GuardianWatches
  <1>3. Stopped' BY DEF IInv, TypeOK, Known, Stopped, GuardianWatches
  <1>4. Forks' BY DEF IInv, TypeOK, Forks, GuardianWatches
  <1>5. Verdicts'
    <2>1. CASE child = "zombie"
      BY <2>1 DEF IInv, TypeOK, Verdicts, GuardianWatches
    <2>2. CASE child # "zombie"
      BY <2>2 DEF IInv, TypeOK, Verdicts, GuardianWatches
    <2> QED BY <2>1, <2>2
  <1> QED BY <1>1, <1>2, <1>3, <1>4, <1>5 DEF IInv

\* The control pipe is closed.
LEMMA GuardianClosesStep == ASSUME IInv, GuardianCloses PROVE IInv'
  <1>1. TypeOK' BY DEF IInv, TypeOK, Forks, GuardianCloses
  <1>2. Known' BY DEF IInv, TypeOK, Known, GuardianCloses
  <1>3. Stopped' BY DEF IInv, TypeOK, Known, Stopped, GuardianCloses
  <1>4. Forks' BY DEF IInv, TypeOK, Forks, GuardianCloses
  <1>5. Verdicts' BY DEF IInv, TypeOK, Forks, Verdicts, GuardianCloses
  <1> QED BY <1>1, <1>2, <1>3, <1>4, <1>5 DEF IInv

\* The command is killed unless it is gone, in which case its end stands.
LEMMA GuardianReapsStep == ASSUME IInv, GuardianReaps PROVE IInv'
  <1>1. TypeOK' BY DEF IInv, TypeOK, Forks, GuardianReaps, Alive
  <1>2. Known' BY DEF IInv, TypeOK, Known, GuardianReaps, Alive
  <1>3. Stopped' BY DEF IInv, TypeOK, Known, Stopped, GuardianReaps, Alive
  <1>4. Forks' BY DEF IInv, TypeOK, Forks, GuardianReaps, Alive
  <1>5. Verdicts' BY DEF IInv, TypeOK, Forks, Verdicts, GuardianReaps, Alive
  <1> QED BY <1>1, <1>2, <1>3, <1>4, <1>5 DEF IInv

\* The verdict is written to the pipe as it was decided.
LEMMA GuardianEndsStep == ASSUME IInv, GuardianEnds PROVE IInv'
  <1>1. TypeOK' BY DEF IInv, TypeOK, Forks, GuardianEnds, StatusOpen
  <1>2. Known' BY DEF IInv, TypeOK, Known, GuardianEnds, StatusOpen
  <1>3. Stopped' BY DEF IInv, TypeOK, Known, Stopped, GuardianEnds, StatusOpen
  <1>4. Forks' BY DEF IInv, TypeOK, Forks, GuardianEnds, StatusOpen
  <1>5. Verdicts' BY DEF IInv, TypeOK, Forks, Verdicts, GuardianEnds, StatusOpen
  <1> QED BY <1>1, <1>2, <1>3, <1>4, <1>5 DEF IInv

\* The command waits at its gate.
LEMMA ChildReadyStep == ASSUME IInv, ChildReady PROVE IInv'
  <1>1. TypeOK' BY DEF IInv, TypeOK, Forks, ChildReady
  <1>2. Known' BY DEF IInv, TypeOK, Known, ChildReady
  <1>3. Stopped' BY DEF IInv, TypeOK, Known, Stopped, ChildReady
  <1>4. Forks' BY DEF IInv, TypeOK, Forks, ChildReady
  <1>5. Verdicts' BY DEF IInv, TypeOK, Forks, Verdicts, ChildReady
  <1> QED BY <1>1, <1>2, <1>3, <1>4, <1>5 DEF IInv

\* Only a released command runs.
LEMMA ChildExecsStep == ASSUME IInv, ChildExecs PROVE IInv'
  <1>1. TypeOK' BY DEF IInv, TypeOK, Forks, ChildExecs
  <1>2. Known' BY DEF IInv, TypeOK, Known, ChildExecs
  <1>3. Stopped' BY DEF IInv, TypeOK, Known, Stopped, ChildExecs
  <1>4. Forks' BY DEF IInv, TypeOK, Forks, ChildExecs
  <1>5. Verdicts' BY DEF IInv, TypeOK, Forks, Verdicts, ChildExecs
  <1> QED BY <1>1, <1>2, <1>3, <1>4, <1>5 DEF IInv

\* The command ends by itself.
LEMMA ChildExitsStep == ASSUME IInv, ChildExits PROVE IInv'
  <1>1. TypeOK' BY DEF IInv, TypeOK, Forks, ChildExits
  <1>2. Known' BY DEF IInv, TypeOK, Known, ChildExits
  <1>3. Stopped' BY DEF IInv, TypeOK, Known, Stopped, ChildExits
  <1>4. Forks' BY DEF IInv, TypeOK, Forks, ChildExits
  <1>5. Verdicts' BY DEF IInv, TypeOK, Forks, Verdicts, ChildExits
  <1> QED BY <1>1, <1>2, <1>3, <1>4, <1>5 DEF IInv

\* The zombie of a dead guardian is waited for.
LEMMA InitReapsStep == ASSUME IInv, InitReaps PROVE IInv'
  <1>1. TypeOK' BY DEF IInv, TypeOK, Forks, InitReaps
  <1>2. Known' BY DEF IInv, TypeOK, Known, InitReaps
  <1>3. Stopped' BY DEF IInv, TypeOK, Known, Stopped, InitReaps
  <1>4. Forks' BY DEF IInv, TypeOK, Forks, InitReaps
  <1>5. Verdicts' BY DEF IInv, TypeOK, Forks, Verdicts, InitReaps
  <1> QED BY <1>1, <1>2, <1>3, <1>4, <1>5 DEF IInv

\* The broker's end shuts the gates that it had not opened.
LEMMA BrokerDiesStep == ASSUME IInv, BrokerDies PROVE IInv'
  <1>1. TypeOK' BY DEF IInv, TypeOK, Forks, BrokerDies, Fault, Shut
  <1>2. Known' BY DEF IInv, TypeOK, Known, BrokerDies, Fault, Shut
  <1>3. Stopped' BY DEF IInv, TypeOK, Known, Stopped, BrokerDies, Fault, Shut
  <1>4. Forks' BY DEF IInv, TypeOK, Forks, BrokerDies, Fault, Shut
  <1>5. Verdicts' BY DEF IInv, TypeOK, Forks, Verdicts, BrokerDies, Fault, Shut
  <1> QED BY <1>1, <1>2, <1>3, <1>4, <1>5 DEF IInv

\* A new broker recovers a running record.
LEMMA BrokerRestartsStep == ASSUME IInv, BrokerRestarts PROVE IInv'
  <1>1. TypeOK' BY DEF IInv, TypeOK, Forks, BrokerRestarts
  <1>2. Known' BY DEF IInv, TypeOK, Known, BrokerRestarts
  <1>3. Stopped' BY DEF IInv, TypeOK, Known, Stopped, BrokerRestarts
  <1>4. Forks' BY DEF IInv, TypeOK, Forks, BrokerRestarts
  <1>5. Verdicts' BY DEF IInv, TypeOK, Forks, Verdicts, BrokerRestarts
  <1> QED BY <1>1, <1>2, <1>3, <1>4, <1>5 DEF IInv

\* A killed guardian leaves its command as it is.
LEMMA GuardianDiesStep == ASSUME IInv, GuardianDies PROVE IInv'
  <1>1. TypeOK' BY DEF IInv, TypeOK, Forks, GuardianDies, Fault
  <1>2. Known' BY DEF IInv, TypeOK, Known, GuardianDies, Fault
  <1>3. Stopped' BY DEF IInv, TypeOK, Known, Stopped, GuardianDies, Fault
  <1>4. Forks' BY DEF IInv, TypeOK, Forks, GuardianDies, Fault
  <1>5. Verdicts' BY DEF IInv, TypeOK, Forks, Verdicts, GuardianDies, Fault
  <1> QED BY <1>1, <1>2, <1>3, <1>4, <1>5 DEF IInv

\* The authority is no part of what is claimed.
LEMMA AuthorityLostStep == ASSUME IInv, AuthorityLost PROVE IInv'
  <1>1. TypeOK'
    <2>1. faults' \in 0 .. MaxFaults BY DEF IInv, TypeOK, AuthorityLost, Fault
    <2>2. authority' = FALSE /\ UNCHANGED <<broker, guard, command, pipes, late>>
      BY DEF AuthorityLost
    <2>3. {stop', orphan', authority', late'} \subseteq BOOLEAN BY <2>2 DEF IInv, TypeOK
    <2> QED BY <2>1, <2>2, <2>3 DEF IInv, TypeOK
  <1>2. Known' BY DEF IInv, TypeOK, Known, AuthorityLost, Fault
  <1>3. Stopped' BY DEF IInv, TypeOK, Known, Stopped, AuthorityLost, Fault
  <1>4. Forks' BY DEF IInv, TypeOK, Forks, AuthorityLost, Fault
  <1>5. Verdicts' BY DEF IInv, TypeOK, Forks, Verdicts, AuthorityLost, Fault
  <1> QED BY <1>1, <1>2, <1>3, <1>4, <1>5 DEF IInv

\* Nor is its return.
LEMMA AuthorityBackStep == ASSUME IInv, AuthorityBack PROVE IInv'
  <1>1. TypeOK' BY DEF IInv, TypeOK, Forks, AuthorityBack
  <1>2. Known' BY DEF IInv, TypeOK, Known, AuthorityBack
  <1>3. Stopped' BY DEF IInv, TypeOK, Known, Stopped, AuthorityBack
  <1>4. Forks' BY DEF IInv, TypeOK, Forks, AuthorityBack
  <1>5. Verdicts' BY DEF IInv, TypeOK, Forks, Verdicts, AuthorityBack
  <1> QED BY <1>1, <1>2, <1>3, <1>4, <1>5 DEF IInv

\* Nor is the clock.
LEMMA DeadlinePassesStep == ASSUME IInv, DeadlinePasses PROVE IInv'
  <1>1. TypeOK' BY DEF IInv, TypeOK, Forks, DeadlinePasses
  <1>2. Known' BY DEF IInv, TypeOK, Known, DeadlinePasses
  <1>3. Stopped' BY DEF IInv, TypeOK, Known, Stopped, DeadlinePasses
  <1>4. Forks' BY DEF IInv, TypeOK, Forks, DeadlinePasses
  <1>5. Verdicts' BY DEF IInv, TypeOK, Forks, Verdicts, DeadlinePasses
  <1> QED BY <1>1, <1>2, <1>3, <1>4, <1>5 DEF IInv

\* SIGKILL by the worker: from here on no released command is alive.
LEMMA WorkerKillsStep ==
    ASSUME IInv, TerminateChild("killChild", "proveChild") PROVE IInv'
  <1>1. TypeOK' BY DEF IInv, TypeOK, Forks, TerminateChild, Kill, Alive
  <1>2. Known' BY DEF IInv, TypeOK, Known, TerminateChild, Kill, Alive
  <1>3. Stopped' BY DEF IInv, TypeOK, Known, Stopped, TerminateChild, Kill, Alive
  <1>4. Forks' BY DEF IInv, TypeOK, Forks, TerminateChild, Kill, Alive
  <1>5. Verdicts' BY DEF IInv, TypeOK, Forks, Verdicts, TerminateChild, Kill, Alive
  <1> QED BY <1>1, <1>2, <1>3, <1>4, <1>5 DEF IInv

\* The second SIGKILL of the worker.
LEMMA WorkerKillsAgainStep ==
    ASSUME IInv, TerminateChild("retry", "proveRetry") PROVE IInv'
  <1>1. TypeOK' BY DEF IInv, TypeOK, Forks, TerminateChild, Kill, Alive
  <1>2. Known' BY DEF IInv, TypeOK, Known, TerminateChild, Kill, Alive
  <1>3. Stopped' BY DEF IInv, TypeOK, Known, Stopped, TerminateChild, Kill, Alive
  <1>4. Forks' BY DEF IInv, TypeOK, Forks, TerminateChild, Kill, Alive
  <1>5. Verdicts' BY DEF IInv, TypeOK, Forks, Verdicts, TerminateChild, Kill, Alive
  <1> QED BY <1>1, <1>2, <1>3, <1>4, <1>5 DEF IInv

\* SIGKILL by the recovery of a record that names the command.
LEMMA RecoveryKillsStep ==
    ASSUME IInv, TerminateChild("rKillChild", "rProveChild") PROVE IInv'
  <1>1. TypeOK' BY DEF IInv, TypeOK, Forks, TerminateChild, Kill, Alive
  <1>2. Known' BY DEF IInv, TypeOK, Known, TerminateChild, Kill, Alive
  <1>3. Stopped' BY DEF IInv, TypeOK, Known, Stopped, TerminateChild, Kill, Alive
  <1>4. Forks' BY DEF IInv, TypeOK, Forks, TerminateChild, Kill, Alive
  <1>5. Verdicts' BY DEF IInv, TypeOK, Forks, Verdicts, TerminateChild, Kill, Alive
  <1> QED BY <1>1, <1>2, <1>3, <1>4, <1>5 DEF IInv

\* The second SIGKILL of the recovery.
LEMMA RecoveryKillsAgainStep ==
    ASSUME IInv, TerminateChild("rRetry", "rProveRetry") PROVE IInv'
  <1>1. TypeOK' BY DEF IInv, TypeOK, Forks, TerminateChild, Kill, Alive
  <1>2. Known' BY DEF IInv, TypeOK, Known, TerminateChild, Kill, Alive
  <1>3. Stopped' BY DEF IInv, TypeOK, Known, Stopped, TerminateChild, Kill, Alive
  <1>4. Forks' BY DEF IInv, TypeOK, Forks, TerminateChild, Kill, Alive
  <1>5. Verdicts' BY DEF IInv, TypeOK, Forks, Verdicts, TerminateChild, Kill, Alive
  <1> QED BY <1>1, <1>2, <1>3, <1>4, <1>5 DEF IInv

\* The worker looks whether the command is gone.
LEMMA WorkerProvesStep == ASSUME IInv, ProveChild("proveChild", "term") PROVE IInv'
  <1>1. TypeOK'
    <2>1. worker' \in Workers
      <3>1. CASE child = "gone" BY <3>1 DEF IInv, TypeOK, Workers, ProveChild
      <3>2. CASE child # "gone" BY <3>2 DEF IInv, TypeOK, Workers, ProveChild
      <3> QED BY <3>1, <3>2
    <2>2. UNCHANGED <<record, watchdog, guard, command, pipes, world>> BY DEF ProveChild
    <2> QED BY <2>1, <2>2 DEF IInv, TypeOK, Workers
  <1>2. Known' BY DEF IInv, TypeOK, Known, ProveChild
  <1>3. Stopped' BY DEF IInv, TypeOK, Known, Stopped, ProveChild
  <1>4. Forks' BY DEF IInv, TypeOK, Forks, ProveChild
  <1>5. Verdicts' BY DEF IInv, TypeOK, Forks, Verdicts, ProveChild
  <1> QED BY <1>1, <1>2, <1>3, <1>4, <1>5 DEF IInv

\* The recovery looks whether the command is gone.
LEMMA RecoveryProvesStep == ASSUME IInv, ProveChild("rProveChild", "rKill") PROVE IInv'
  <1>1. TypeOK'
    <2>1. worker' \in Workers
      <3>1. CASE child = "gone" BY <3>1 DEF IInv, TypeOK, Workers, ProveChild
      <3>2. CASE child # "gone" BY <3>2 DEF IInv, TypeOK, Workers, ProveChild
      <3> QED BY <3>1, <3>2
    <2>2. UNCHANGED <<record, watchdog, guard, command, pipes, world>> BY DEF ProveChild
    <2> QED BY <2>1, <2>2 DEF IInv, TypeOK, Workers
  <1>2. Known' BY DEF IInv, TypeOK, Known, ProveChild
  <1>3. Stopped' BY DEF IInv, TypeOK, Known, Stopped, ProveChild
  <1>4. Forks' BY DEF IInv, TypeOK, Forks, ProveChild
  <1>5. Verdicts' BY DEF IInv, TypeOK, Forks, Verdicts, ProveChild
  <1> QED BY <1>1, <1>2, <1>3, <1>4, <1>5 DEF IInv

\* The worker's second look.
LEMMA WorkerProvesAgainStep ==
    ASSUME IInv, ProveAgain("proveRetry", "unwatch") PROVE IInv'
  <1>1. TypeOK'
    <2>1. worker' \in Workers
      <3>1. CASE child = "gone" BY <3>1 DEF IInv, TypeOK, Workers, ProveAgain
      <3>2. CASE child # "gone" BY <3>2 DEF IInv, TypeOK, Workers, ProveAgain
      <3> QED BY <3>1, <3>2
    <2>2. UNCHANGED <<record, watchdog, guard, command, pipes, world>> BY DEF ProveAgain
    <2> QED BY <2>1, <2>2 DEF IInv, TypeOK, Workers
  <1>2. Known' BY DEF IInv, TypeOK, Known, ProveAgain
  <1>3. Stopped' BY DEF IInv, TypeOK, Known, Stopped, ProveAgain
  <1>4. Forks' BY DEF IInv, TypeOK, Forks, ProveAgain
  <1>5. Verdicts' BY DEF IInv, TypeOK, Forks, Verdicts, ProveAgain
  <1> QED BY <1>1, <1>2, <1>3, <1>4, <1>5 DEF IInv

\* The recovery's second look.
LEMMA RecoveryProvesAgainStep ==
    ASSUME IInv, ProveAgain("rProveRetry", "rWrite") PROVE IInv'
  <1>1. TypeOK'
    <2>1. worker' \in Workers
      <3>1. CASE child = "gone" BY <3>1 DEF IInv, TypeOK, Workers, ProveAgain
      <3>2. CASE child # "gone" BY <3>2 DEF IInv, TypeOK, Workers, ProveAgain
      <3> QED BY <3>1, <3>2
    <2>2. UNCHANGED <<record, watchdog, guard, command, pipes, world>> BY DEF ProveAgain
    <2> QED BY <2>1, <2>2 DEF IInv, TypeOK, Workers
  <1>2. Known' BY DEF IInv, TypeOK, Known, ProveAgain
  <1>3. Stopped' BY DEF IInv, TypeOK, Known, Stopped, ProveAgain
  <1>4. Forks' BY DEF IInv, TypeOK, Forks, ProveAgain
  <1>5. Verdicts' BY DEF IInv, TypeOK, Forks, Verdicts, ProveAgain
  <1> QED BY <1>1, <1>2, <1>3, <1>4, <1>5 DEF IInv

\* The worker's SIGKILL of the guardian.
LEMMA WorkerEndsGuardianStep ==
    ASSUME IInv, KillGuardian("kill", "retry", "unwatch") PROVE IInv'
  <1>1. TypeOK' BY DEF IInv, TypeOK, Forks, KillGuardian
  <1>2. Known' BY DEF IInv, TypeOK, Known, KillGuardian
  <1>3. Stopped' BY DEF IInv, TypeOK, Known, Stopped, KillGuardian
  <1>4. Forks' BY DEF IInv, TypeOK, Forks, KillGuardian
  <1>5. Verdicts' BY DEF IInv, TypeOK, Forks, Verdicts, KillGuardian
  <1> QED BY <1>1, <1>2, <1>3, <1>4, <1>5 DEF IInv

\* The recovery's SIGKILL of the guardian.
LEMMA RecoveryEndsGuardianStep ==
    ASSUME IInv, KillGuardian("rKill", "rRetry", "rWrite") PROVE IInv'
  <1>1. TypeOK' BY DEF IInv, TypeOK, Forks, KillGuardian
  <1>2. Known' BY DEF IInv, TypeOK, Known, KillGuardian
  <1>3. Stopped' BY DEF IInv, TypeOK, Known, Stopped, KillGuardian
  <1>4. Forks' BY DEF IInv, TypeOK, Forks, KillGuardian
  <1>5. Verdicts' BY DEF IInv, TypeOK, Forks, Verdicts, KillGuardian
  <1> QED BY <1>1, <1>2, <1>3, <1>4, <1>5 DEF IInv

-----------------------------------------------------------------------------
(* The theorems. *)

\* The command is not yet started.
LEMMA InitInv == ASSUME Init PROVE IInv
  <1>1. TypeOK
    <2>1. worker \in Workers BY DEF Init, Workers
    <2>2. status \in Seq({"child", "exited", "fenced"}) /\ Len(status) <= 2 BY DEF Init
    <2>3. faults \in 0 .. MaxFaults BY DEF Init
    <2>4. {stop, orphan, authority, late} \subseteq BOOLEAN BY DEF Init
    <2> QED BY <2>1, <2>2, <2>3, <2>4 DEF Init, TypeOK, Workers
  <1>2. Known BY DEF Init, Known
  <1>3. Stopped BY DEF Init, Stopped
  <1>4. Forks BY DEF Init, Forks
  <1>5. Verdicts BY DEF Init, Verdicts
  <1> QED BY <1>1, <1>2, <1>3, <1>4, <1>5 DEF IInv

\* A step of another component of the broker changes nothing here.
LEMMA StutterStep == ASSUME IInv, UNCHANGED vars PROVE IInv'
  BY DEF IInv, TypeOK, Known, Stopped, Forks, Verdicts, vars

\* Every step of worker, recovery, guardian, command and environment preserves
\* the invariant.
LEMMA StepInv == ASSUME IInv, [Next]_vars PROVE IInv'
  <1>1. CASE Worker
    BY <1>1,
       SpawnStep, RegisterGuardianStep, AwaitBeatStep, ReleaseGuardianStep,
       ReadIdentityStep, RegisterChildStep, ReleaseChildStep, WatchCommandStep,
       ReadTerminalStep, TermGuardianStep, StopWatchdogStep, WriteOutcomeStep,
       WorkerKillsStep, WorkerKillsAgainStep, WorkerProvesStep,
       WorkerProvesAgainStep, WorkerEndsGuardianStep
    DEF Worker
  <1>2. CASE Recovery
    BY <1>2,
       RecoverStep, RecoverWriteStep, BrokerRestartsStep, RecoveryKillsStep,
       RecoveryKillsAgainStep, RecoveryProvesStep, RecoveryProvesAgainStep,
       RecoveryEndsGuardianStep
    DEF Recovery
  <1>3. CASE Guardian
    BY <1>3,
       GuardianStartsStep, GuardianForksStep, GuardianReportsStep, GuardianWatchesStep,
       GuardianClosesStep, GuardianReapsStep, GuardianEndsStep
    DEF Guardian
  <1>4. CASE WatchdogTick \/ ChildReady \/ ChildExecs \/ ChildExits \/ InitReaps
             \/ WorkerRaises \/ BrokerDies \/ GuardianDies
             \/ AuthorityLost \/ AuthorityBack \/ DeadlinePasses
    BY <1>4,
       WatchdogTickStep, ChildReadyStep, ChildExecsStep, ChildExitsStep, InitReapsStep,
       WorkerRaisesStep, BrokerDiesStep, GuardianDiesStep, AuthorityLostStep,
       AuthorityBackStep, DeadlinePassesStep
  <1>5. CASE UNCHANGED vars BY <1>5, StutterStep
  <1> QED BY <1>1, <1>2, <1>3, <1>4, <1>5 DEF Next

\* Every variable keeps its type; the guardian's pipe never holds more than two
\* frames, so that none of its writes blocks.
THEOREM GuardianTypeCorrect == Spec => []TypeOK
  <1>1. Init => IInv BY InitInv
  <1>2. IInv /\ [Next]_vars => IInv' BY StepInv
  <1>3. IInv => TypeOK BY DEF IInv
  <1> QED BY <1>1, <1>2, <1>3, PTL DEF Spec

\* _worker and _recover_nonchannel_effects: behind a terminal record no process of
\* the command runs, after any number of crashes, killed guardians and exceptions.
THEOREM TerminalCommandsStopped == Spec => []TerminalMeansStopped
  <1>1. Init => IInv BY InitInv
  <1>2. IInv /\ [Next]_vars => IInv' BY StepInv
  <1>3. IInv => TerminalMeansStopped BY DEF IInv, Stopped, TerminalMeansStopped
  <1> QED BY <1>1, <1>2, <1>3, PTL DEF Spec

\* _register_guardian_child: a running command is always named by its record.
THEOREM RunningCommandsRecorded == Spec => []RunningIsRecorded
  <1>1. Init => IInv BY InitInv
  <1>2. IInv /\ [Next]_vars => IInv' BY StepInv
  <1>3. IInv => RunningIsRecorded BY DEF IInv, Known, Stopped, RunningIsRecorded
  <1> QED BY <1>1, <1>2, <1>3, PTL DEF Spec

\* _execute_sandboxed_command: a completed record belongs to a command that ended
\* by itself and was waited for.
THEOREM ResultsAreReal == Spec => []CompletedMeansExited
  <1>1. Init => IInv BY InitInv
  <1>2. IInv /\ [Next]_vars => IInv' BY StepInv
  <1>3. IInv => CompletedMeansExited BY DEF IInv, Verdicts, CompletedMeansExited
  <1> QED BY <1>1, <1>2, <1>3, PTL DEF Spec

=============================================================================
