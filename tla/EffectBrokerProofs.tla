------------------------- MODULE EffectBrokerProofs -------------------------
(***************************************************************************)
(* Proofs about EffectBroker for every set of effects, clients, paths,     *)
(* values and requests and every fault budget.                             *)
(***************************************************************************)
EXTENDS EffectBroker, SequenceTheorems, TLAPS

ThreadRecord == [pc: Pc, eff: Effect \union {None}, req: Request \union {None},
                 seen: Content \union {None}, raced: BOOLEAN]

\* A thread inside a handler knows its effect and its request.
BusyShape(th) == th.pc # "idle" => th.eff \in Effect /\ th.req \in Request

-----------------------------------------------------------------------------
(* What the small helpers preserve.                                        *)

\* Moving a busy thread to another step keeps the threads well formed.
LEMMA GotoType ==
    ASSUME TypeOK, NEW t \in Thread, NEW p \in Pc, thread[t].pc # "idle",
           Goto(t, p)
    PROVE  /\ thread' \in [Thread -> ThreadRecord]
           /\ \A u \in Thread : BusyShape(thread'[u])
  BY DEF TypeOK, Goto, ThreadRecord, BusyShape

\* Leaving a handler keeps the threads well formed and frees the lock.
LEMMA LeaveType ==
    ASSUME TypeOK, NEW t \in Thread, Leave(t)
    PROVE  /\ thread' \in [Thread -> ThreadRecord]
           /\ \A u \in Thread : BusyShape(thread'[u])
           /\ mutex' \in Thread \union {None}
  BY DEF TypeOK, Leave, ThreadRecord, BusyShape, Idle, Pc

\* Giving up does that and leaves the daemon in one of its states.
LEMMA GiveUpType ==
    ASSUME TypeOK, NEW t \in Thread, GiveUp(t)
    PROVE  /\ thread' \in [Thread -> ThreadRecord]
           /\ \A u \in Thread : BusyShape(thread'[u])
           /\ mutex' \in Thread \union {None}
           /\ daemon' \in {"down", "recovering", "ready"}
  <1>1. Leave(t) BY DEF GiveUp
  <1>2. daemon' \in {"down", "recovering", "ready"} BY DEF GiveUp, TypeOK
  <1> QED BY <1>1, <1>2, LeaveType

\* Writing a well formed record keeps the journal well formed.
LEMMA WriteType ==
    ASSUME TypeOK, NEW t \in Thread, thread[t].pc # "idle", NEW rec \in Record,
           RecordShape(rec), Write(t, rec)
    PROVE  /\ journal' \in [Effect -> Record]
           /\ \A e \in Effect : RecordShape(journal'[e])
  <1>1. EffOf(t) \in Effect BY DEF TypeOK, EffOf
  <1>2. journal' = [journal EXCEPT ![EffOf(t)] = rec] BY DEF Write
  <1>3. journal' \in [Effect -> Record] BY <1>1, <1>2 DEF TypeOK
  <1>4. ASSUME NEW e \in Effect PROVE RecordShape(journal'[e])
    <2>1. CASE e = EffOf(t)
      <3>1. journal'[e] = rec BY <1>2, <2>1 DEF TypeOK
      <3> QED BY <3>1
    <2>2. CASE e # EffOf(t)
      <3>1. journal'[e] = journal[e] BY <1>2, <2>2 DEF TypeOK
      <3> QED BY <3>1 DEF TypeOK
    <2> QED BY <2>1, <2>2
  <1> QED BY <1>3, <1>4

-----------------------------------------------------------------------------
(* The inductive invariant of the mutation lock.                           *)

\* Only the lock holder is inside a handler; clients run while the daemon
\* serves and the recovery while it recovers.
LockInv ==
    /\ \A t \in Thread : thread[t].pc # "idle" => mutex = t
    /\ \A c \in Client : thread[c].pc # "idle" => daemon = "ready"
    /\ thread[Recovery].pc # "idle" => daemon = "recovering"

\* The handler's own effect is the only one that can be unresolved.
GateInv ==
    /\ AtMostOneUnresolved
    /\ \A t \in Thread : thread[t].pc # "idle" => Unresolved \subseteq {EffOf(t)}

\* What the journal says of the effect a thread is working on, by its step.
StepAgrees(th, rec) ==
    /\ th.pc = "running" =>
          /\ rec.state = "running" /\ rec.req = th.req
          /\ th.req.tool = "workspace_command"
          /\ th.req.path # None => th.seen \in Content
    /\ th.pc = "publishing" => rec.state = "publishing" /\ rec.req = th.req
    /\ th.pc \in {"prepared", "checked", "applied"} =>
          rec.state \in {"prepared", "publishing"} /\ rec.req = th.req
    /\ th.pc \in {"ref", "indexchecked"} =>
          /\ rec.state = "prepared" /\ rec.req = th.req
          /\ th.req.tool = "workspace_commit"

PcInv ==
    /\ \A t \in Thread : StepAgrees(thread[t], RecOf(t))
    /\ At(Recovery, "gated") => RecOf(Recovery).req = ReqOf(Recovery)

Inv == TypeOK /\ LockInv /\ GateInv /\ PcInv

AllIdle == \A u \in Thread : thread[u].pc = "idle"

\* While one thread is inside a handler every other thread is idle.
LEMMA OthersIdle ==
    ASSUME LockInv, NEW t \in Thread, thread[t].pc # "idle",
           NEW u \in Thread, u # t
    PROVE  thread[u].pc = "idle"
  BY DEF LockInv

\* When the acting thread leaves its handler no thread is left inside one.
LEMMA LeaveAllIdle ==
    ASSUME TypeOK, LockInv, NEW t \in Thread, thread[t].pc # "idle", Leave(t)
    PROVE  AllIdle'
  <1>1. ASSUME NEW u \in Thread PROVE thread'[u].pc = "idle"
    <2>1. CASE u = t BY <2>1 DEF Leave, TypeOK, Idle
    <2>2. CASE u # t
      <3>1. thread[u].pc = "idle" BY <2>2, OthersIdle
      <3>2. thread'[u] = thread[u] BY <2>2 DEF Leave, TypeOK
      <3> QED BY <3>1, <3>2
    <2> QED BY <2>1, <2>2
  <1> QED BY <1>1 DEF AllIdle

\* With every thread idle, only the journal's part of the invariant is left.
LEMMA IdleInv ==
    ASSUME TypeOK', AllIdle', AtMostOneUnresolved'
    PROVE  Inv'
  <1>1. LockInv' BY DEF AllIdle, LockInv, Thread
  <1>2. GateInv' BY DEF AllIdle, GateInv
  <1>3. PcInv'
    <2>1. \A t \in Thread : StepAgrees(thread[t], RecOf(t))'
      BY DEF AllIdle, StepAgrees
    <2>2. ~At(Recovery, "gated")' BY DEF AllIdle, At, Thread
    <2> QED BY <2>1, <2>2 DEF PcInv
  <1> QED BY <1>1, <1>2, <1>3 DEF Inv

\* A write to the acting thread's own record leaves no other one unresolved.
LEMMA WriteGate ==
    ASSUME TypeOK, GateInv, NEW t \in Thread, thread[t].pc # "idle",
           NEW rec, Write(t, rec)
    PROVE  Unresolved' \subseteq {EffOf(t)} /\ AtMostOneUnresolved'
  <1>1. \A e \in Effect : e # EffOf(t) => journal'[e] = journal[e]
    BY DEF Write, TypeOK
  <1>2. Unresolved' \subseteq {EffOf(t)}
    BY <1>1 DEF GateInv, Unresolved
  <1> QED BY <1>2 DEF AtMostOneUnresolved

\* A handler that ends with a write and leaves preserves the invariant.
LEMMA WriteAndLeave ==
    ASSUME Inv, NEW t \in Thread, thread[t].pc # "idle", NEW rec \in Record,
           RecordShape(rec), Write(t, rec), Leave(t),
           UNCHANGED <<jobs, daemon, fs, branch, index, auth, late, applied,
                       faults>>
    PROVE  Inv'
  <1> USE DEF Inv
  <1>1. AllIdle' BY LeaveAllIdle
  <1>2. AtMostOneUnresolved' BY WriteGate
  <1>3. TypeOK'
    <2>1. /\ thread' \in [Thread -> ThreadRecord]
          /\ \A u \in Thread : BusyShape(thread'[u])
          /\ mutex' \in Thread \union {None}
      BY LeaveType
    <2>2. /\ journal' \in [Effect -> Record]
          /\ \A e \in Effect : RecordShape(journal'[e])
      BY WriteType
    <2> QED BY <2>1, <2>2 DEF TypeOK, ThreadRecord, BusyShape
  <1> QED BY <1>1, <1>2, <1>3, IdleInv

\* A handler that gives up without touching the disk preserves the invariant.
LEMMA GiveUpKeeps ==
    ASSUME Inv, NEW t \in Thread, thread[t].pc # "idle", GiveUp(t),
           faults' \in [crash: Nat, lapse: Nat, raise: Nat, extern: Nat],
           UNCHANGED <<journal, jobs, fs, branch, index, auth, late, applied>>
    PROVE  Inv'
  <1> USE DEF Inv
  <1>1. Leave(t) BY DEF GiveUp
  <1>2. AllIdle' BY <1>1, LeaveAllIdle
  <1>3. AtMostOneUnresolved'
    BY DEF GateInv, AtMostOneUnresolved, Unresolved
  <1>4. TypeOK'
    <2>1. /\ thread' \in [Thread -> ThreadRecord]
          /\ \A u \in Thread : BusyShape(thread'[u])
          /\ mutex' \in Thread \union {None}
          /\ daemon' \in {"down", "recovering", "ready"}
      BY GiveUpType
    <2> QED BY <2>1 DEF TypeOK, ThreadRecord, BusyShape
  <1> QED BY <1>2, <1>3, <1>4, IdleInv

\* A thread that goes on inside its handler preserves the invariant when the
\* new step agrees with its record and no other record becomes unresolved.
LEMMA MoveKeeps ==
    ASSUME Inv, TypeOK', NEW t \in Thread, thread[t].pc # "idle",
           \A u \in Thread : u # t => thread'[u] = thread[u],
           thread'[t].pc # "gated", thread'[t].eff = thread[t].eff,
           StepAgrees(thread'[t], RecOf(t)'),
           Unresolved' \subseteq {EffOf(t)}, UNCHANGED <<mutex, daemon>>
    PROVE  Inv'
  <1> USE DEF Inv
  <1>1. \A u \in Thread : u # t => thread'[u].pc = "idle"
    BY OthersIdle
  <1>2. LockInv' BY <1>1 DEF LockInv, Thread
  <1>3. GateInv'
    <2>1. AtMostOneUnresolved' BY DEF AtMostOneUnresolved
    <2>2. ASSUME NEW u \in Thread, thread'[u].pc # "idle"
          PROVE  Unresolved' \subseteq {thread'[u].eff}
      <3>1. u = t BY <1>1, <2>2
      <3> QED BY <3>1 DEF EffOf
    <2> QED BY <2>1, <2>2 DEF GateInv, EffOf
  <1>4. PcInv'
    <2>1. ASSUME NEW u \in Thread PROVE StepAgrees(thread[u], RecOf(u))'
      <3>1. CASE u = t BY <3>1
      <3>2. CASE u # t BY <3>2, <1>1 DEF StepAgrees
      <3> QED BY <3>1, <3>2
    <2>2. ~At(Recovery, "gated")'
      BY <1>1 DEF At, Thread
    <2> QED BY <2>1, <2>2 DEF PcInv
  <1> QED BY <1>2, <1>3, <1>4

-----------------------------------------------------------------------------
(* Every action preserves the invariant.                                   *)

\* The invariant holds of a new state directory.
LEMMA InitInv == Init => Inv
  <1> SUFFICES ASSUME Init PROVE Inv OBVIOUS
  <1>1. TypeOK
    <2>1. [p \in Path |-> Absent] \in Tree BY DEF Tree, Content
    <2>2. branch \in Branch \ {<<>>} BY <2>1 DEF Init, Branch, Commit
    <2>3. NoRecord \in Record /\ RecordShape(NoRecord)
      BY DEF NoRecord, Record, RecordShape, JournalState
    <2>4. Idle \in ThreadRecord /\ BusyShape(Idle)
      BY DEF Idle, ThreadRecord, Pc, BusyShape
    <2>5. /\ thread \in [Thread -> ThreadRecord]
          /\ \A u \in Thread : BusyShape(thread[u])
      BY <2>4 DEF Init
    <2>6. /\ journal \in [Effect -> Record]
          /\ \A e \in Effect : RecordShape(journal[e])
      BY <2>3 DEF Init
    <2> QED BY <2>1, <2>2, <2>5, <2>6 DEF TypeOK, Init, ThreadRecord, BusyShape
  <1>2. AllIdle BY DEF Init, AllIdle, Idle
  <1>3. Unresolved = {} BY DEF Init, Unresolved, NoRecord, UnresolvedState
  <1>4. LockInv BY <1>2 DEF AllIdle, LockInv, Thread
  <1>5. GateInv BY <1>2, <1>3 DEF AllIdle, GateInv, AtMostOneUnresolved
  <1>6. PcInv
    <2>1. \A t \in Thread : StepAgrees(thread[t], RecOf(t))
      BY <1>2 DEF AllIdle, StepAgrees
    <2>2. ~At(Recovery, "gated") BY <1>2 DEF AllIdle, At, Thread
    <2> QED BY <2>1, <2>2 DEF PcInv
  <1> QED BY <1>1, <1>4, <1>5, <1>6 DEF Inv

\* A step that only moves the program counter of its thread.
LEMMA GotoKeeps ==
    ASSUME Inv, NEW t \in Thread, thread[t].pc # "idle", NEW p \in Pc,
           p \notin {"gated", "idle"}, Goto(t, p),
           StepAgrees([thread[t] EXCEPT !.pc = p], RecOf(t)),
           fs' \in Tree, branch' \in Branch \ {<<>>}, index' \in Tree,
           late' \in Nat, applied' \in [Effect -> Nat],
           UNCHANGED <<journal, jobs, mutex, daemon, auth, faults>>
    PROVE  Inv'
  <1> USE DEF Inv
  <1>1. /\ thread' \in [Thread -> ThreadRecord]
        /\ \A u \in Thread : BusyShape(thread'[u])
    BY GotoType
  <1>2. TypeOK' BY <1>1 DEF TypeOK, ThreadRecord, BusyShape
  <1>3. /\ \A u \in Thread : u # t => thread'[u] = thread[u]
        /\ thread'[t] = [thread[t] EXCEPT !.pc = p]
    BY DEF Goto, TypeOK
  <1>4. thread'[t].eff = thread[t].eff /\ thread'[t].pc = p
    BY <1>3 DEF TypeOK
  <1>5. RecOf(t)' = RecOf(t) BY <1>4 DEF RecOf, EffOf
  <1>6. StepAgrees(thread'[t], RecOf(t)') BY <1>3, <1>5
  <1>7. Unresolved' \subseteq {EffOf(t)} BY DEF GateInv, Unresolved
  <1> QED BY <1>2, <1>3, <1>4, <1>6, <1>7, MoveKeeps

\* A step that writes its record and goes on.
LEMMA WriteAndGo ==
    ASSUME Inv, NEW t \in Thread, thread[t].pc # "idle",
           NEW rec \in Record, RecordShape(rec), Write(t, rec),
           NEW th \in ThreadRecord, th.pc \notin {"gated", "idle"},
           th.eff = thread[t].eff, th.req = thread[t].req,
           thread' = [thread EXCEPT ![t] = th], StepAgrees(th, rec),
           jobs' \subseteq Effect,
           UNCHANGED <<mutex, daemon, fs, branch, index, auth, late, applied,
                       faults>>
    PROVE  Inv'
  <1> USE DEF Inv
  <1>1. /\ thread' \in [Thread -> ThreadRecord]
        /\ \A u \in Thread : BusyShape(thread'[u])
    BY DEF TypeOK, ThreadRecord, BusyShape
  <1>2. /\ journal' \in [Effect -> Record]
        /\ \A e \in Effect : RecordShape(journal'[e])
    BY WriteType
  <1>3. TypeOK' BY <1>1, <1>2 DEF TypeOK, ThreadRecord, BusyShape
  <1>4. /\ \A u \in Thread : u # t => thread'[u] = thread[u]
        /\ thread'[t] = th
    BY DEF TypeOK
  <1>5. RecOf(t)' = rec
    <2>1. EffOf(t) \in Effect BY DEF TypeOK, EffOf
    <2> QED BY <2>1, <1>4 DEF RecOf, EffOf, Write, TypeOK
  <1>6. StepAgrees(thread'[t], RecOf(t)') BY <1>4, <1>5
  <1>7. Unresolved' \subseteq {EffOf(t)} BY WriteGate
  <1> QED BY <1>3, <1>4, <1>6, <1>7, MoveKeeps

\* Moving the program counter gives the thread record WriteAndGo speaks of.
LEMMA GotoRecord ==
    ASSUME TypeOK, NEW t \in Thread, NEW p \in Pc, Goto(t, p)
    PROVE  /\ [thread[t] EXCEPT !.pc = p] \in ThreadRecord
           /\ [thread[t] EXCEPT !.pc = p].pc = p
           /\ [thread[t] EXCEPT !.pc = p].eff = thread[t].eff
           /\ [thread[t] EXCEPT !.pc = p].req = thread[t].req
           /\ thread' = [thread EXCEPT ![t] = [thread[t] EXCEPT !.pc = p]]
  <1>1. thread[t] \in ThreadRecord BY DEF TypeOK, ThreadRecord
  <1> QED BY <1>1 DEF ThreadRecord, Goto

\* What a thread in a handler may assume of its request and of its record.
LEMMA RequestFacts ==
    ASSUME TypeOK, NEW t \in Thread, thread[t].pc # "idle"
    PROVE  /\ EffOf(t) \in Effect /\ ReqOf(t) \in Request
           /\ RecOf(t) \in Record /\ RecordShape(RecOf(t))
           /\ ReqOf(t).tool \in Tool
           /\ ReqOf(t).tool # "workspace_command" => ReqOf(t).path \in Path
           /\ ReqOf(t).path \in Path \union {None}
           /\ ReqOf(t).path \in Path => fs[ReqOf(t).path] \in Content
           /\ ReqOf(t).tool \in {"workspace_write", "workspace_edit"} =>
                 ReqOf(t).value \in Value
           /\ ReqOf(t).tool = "workspace_command" /\ ReqOf(t).path # None =>
                 ReqOf(t).value \in Value
  <1>1. EffOf(t) \in Effect /\ ReqOf(t) \in Request
    BY DEF TypeOK, EffOf, ReqOf
  <1>2. RecOf(t) \in Record /\ RecordShape(RecOf(t))
    BY <1>1 DEF TypeOK, RecOf
  <1>3. /\ ReqOf(t).tool \in Tool
        /\ ReqOf(t).path \in Path \union {None}
    BY <1>1, RequestAssumption
  <1>4. ReqOf(t).path \in Path => fs[ReqOf(t).path] \in Content
    BY DEF TypeOK, Tree
  <1> QED BY <1>1, <1>2, <1>3, <1>4, RequestShape

\* The tree a branch ends in.
LEMMA TipIsTree ==
    ASSUME NEW b \in Branch \ {<<>>}
    PROVE  TreeOf(b) \in Tree
  <1>1. Len(b) \in 1..Len(b) BY DEF Branch
  <1>2. b[Len(b)] \in Commit BY <1>1 DEF Branch
  <1> QED BY <1>2 DEF TreeOf, Commit

\* Closing a record keeps it well formed.
LEMMA CloseRecord ==
    ASSUME NEW rec \in Record, RecordShape(rec), rec.state # "none",
           NEW s \in {"completed", "failed"}
    PROVE  /\ [rec EXCEPT !.state = s] \in Record
           /\ RecordShape([rec EXCEPT !.state = s])
           /\ [rec EXCEPT !.state = s].state = s
           /\ [rec EXCEPT !.state = s].req = rec.req
           /\ [rec EXCEPT !.state = s].pre = rec.pre
           /\ [rec EXCEPT !.state = s].want = rec.want
  BY DEF Record, RecordShape, JournalState

-----------------------------------------------------------------------------
(* The steps of one thread.                                                *)

\* Every step that journals a fresh record and goes on keeps the invariant.
LEMMA PrepareKeeps ==
    ASSUME Inv, NEW t \in Thread,
           PrepareWrite(t) \/ PrepareMkdir(t) \/ PrepareCommit(t)
             \/ StartCommand(t) \/ CommandSeals(t)
    PROVE  Inv'
  <1> USE DEF Inv
  <1>0. thread[t].pc # "idle"
    BY DEF PrepareWrite, PrepareMkdir, PrepareCommit, StartCommand,
           CommandSeals, At
  <1>r. /\ EffOf(t) \in Effect /\ ReqOf(t) \in Request
        /\ ReqOf(t).tool # "workspace_command" => ReqOf(t).path \in Path
        /\ ReqOf(t).path \in Path \union {None}
        /\ ReqOf(t).path \in Path => fs[ReqOf(t).path] \in Content
        /\ ReqOf(t).tool \in {"workspace_write", "workspace_edit"} =>
              ReqOf(t).value \in Value
        /\ ReqOf(t).tool = "workspace_command" /\ ReqOf(t).path # None =>
              ReqOf(t).value \in Value
    BY <1>0, RequestFacts
  <1>1. CASE PrepareWrite(t)
    <2> DEFINE rec == [state |-> "prepared", req |-> ReqOf(t),
                       pre |-> fs[ReqOf(t).path], want |-> ReqOf(t).value]
               th == [thread[t] EXCEPT !.pc = "prepared"]
    <2>1. rec \in Record /\ RecordShape(rec)
      BY <1>1, <1>r DEF PrepareWrite, Record, JournalState, RecordShape, Content
    <2>2. Goto(t, "prepared") /\ "prepared" \in Pc
      BY <1>1 DEF PrepareWrite, Pc
    <2>3. /\ th \in ThreadRecord /\ th.pc = "prepared"
          /\ th.eff = thread[t].eff /\ th.req = thread[t].req
          /\ thread' = [thread EXCEPT ![t] = th]
      BY <2>2, GotoRecord
    <2>4. StepAgrees(th, rec) BY <2>3 DEF StepAgrees, ReqOf
    <2>5. Write(t, rec) /\ UNCHANGED <<jobs, mutex, daemon, fs, branch, index,
                                      auth, late, applied, faults>>
      BY <1>1 DEF PrepareWrite
    <2> HIDE DEF rec, th
    <2> QED BY <1>0, <2>1, <2>3, <2>4, <2>5, WriteAndGo DEF TypeOK
  <1>2. CASE PrepareMkdir(t)
    <2> DEFINE rec == [state |-> "prepared", req |-> ReqOf(t), pre |-> Absent,
                       want |-> Directory]
               th == [thread[t] EXCEPT !.pc = "prepared"]
    <2>1. rec \in Record /\ RecordShape(rec)
      BY <1>2, <1>r DEF PrepareMkdir, Record, JournalState, RecordShape, Content
    <2>2. Goto(t, "prepared") /\ "prepared" \in Pc
      BY <1>2 DEF PrepareMkdir, Pc
    <2>3. /\ th \in ThreadRecord /\ th.pc = "prepared"
          /\ th.eff = thread[t].eff /\ th.req = thread[t].req
          /\ thread' = [thread EXCEPT ![t] = th]
      BY <2>2, GotoRecord
    <2>4. StepAgrees(th, rec) BY <2>3 DEF StepAgrees, ReqOf
    <2>5. Write(t, rec) /\ UNCHANGED <<jobs, mutex, daemon, fs, branch, index,
                                      auth, late, applied, faults>>
      BY <1>2 DEF PrepareMkdir
    <2> HIDE DEF rec, th
    <2> QED BY <1>0, <2>1, <2>3, <2>4, <2>5, WriteAndGo DEF TypeOK
  <1>3. CASE PrepareCommit(t)
    <2> DEFINE p == ReqOf(t).path
               tree == [TreeOf(branch) EXCEPT ![p] = fs[p]]
               new == [by |-> EffOf(t), tree |-> tree]
               rec == [state |-> "prepared", req |-> ReqOf(t), pre |-> branch,
                       want |-> Append(branch, new)]
               th == [thread[t] EXCEPT !.pc = "prepared"]
    <2>0. ReqOf(t).tool = "workspace_commit" BY <1>3 DEF PrepareCommit
    <2>1. tree \in Tree
      <3>1. TreeOf(branch) \in Tree BY TipIsTree DEF TypeOK
      <3> QED BY <3>1, <2>0, <1>r DEF Tree
    <2>2. new \in Commit BY <2>1, <1>r DEF Commit
    <2>3. branch \in Seq(Commit) /\ branch # <<>> BY DEF TypeOK, Branch
    <2>4. Append(branch, new) \in Branch \ {<<>>}
      <3> HIDE DEF new
      <3>1. Append(branch, new) \in Seq(Commit) BY <2>2, <2>3
      <3>2. Len(Append(branch, new)) = Len(branch) + 1 BY <2>2, <2>3
      <3>3. Append(branch, new) # <<>> BY <3>1, <3>2, <2>3
      <3> QED BY <3>1, <3>3 DEF Branch
    <2>5. rec \in Record /\ RecordShape(rec)
      <3> HIDE DEF new
      <3> DEFINE a == Append(branch, new)
      <3>1. a \in Branch \ {<<>>} BY <2>4
      <3>2. branch \in Branch \ {<<>>} BY DEF TypeOK
      <3> HIDE DEF a
      <3>3. [state |-> "prepared", req |-> ReqOf(t), pre |-> branch,
             want |-> a] \in Record
        BY <3>1, <3>2, <1>r DEF Record, JournalState
      <3>4. RecordShape([state |-> "prepared", req |-> ReqOf(t),
                         pre |-> branch, want |-> a])
        BY <3>1, <3>2, <1>r, <2>0 DEF RecordShape
      <3> QED BY <3>3, <3>4 DEF a
    <2>6. Goto(t, "prepared") /\ "prepared" \in Pc
      BY <1>3 DEF PrepareCommit, Pc
    <2>7. /\ th \in ThreadRecord /\ th.pc = "prepared"
          /\ th.eff = thread[t].eff /\ th.req = thread[t].req
          /\ thread' = [thread EXCEPT ![t] = th]
      BY <2>6, GotoRecord
    <2>8. StepAgrees(th, rec) BY <2>7 DEF StepAgrees, ReqOf
    <2>9. Write(t, rec) /\ UNCHANGED <<jobs, mutex, daemon, fs, branch, index,
                                      auth, late, applied, faults>>
      BY <1>3 DEF PrepareCommit
    <2> HIDE DEF rec, th
    <2> QED BY <1>0, <2>5, <2>7, <2>8, <2>9, WriteAndGo DEF TypeOK
  <1>4. CASE StartCommand(t)
    <2> DEFINE rec == [state |-> "running", req |-> ReqOf(t), pre |-> None,
                       want |-> None]
               s == IF ReqOf(t).path = None THEN None ELSE fs[ReqOf(t).path]
               th == [thread[t] EXCEPT !.pc = "running", !.seen = s]
    <2>1. rec \in Record /\ RecordShape(rec)
      BY <1>4, <1>r DEF StartCommand, Record, JournalState, RecordShape
    <2>2. s \in Content \union {None} BY <1>r
    <2>3. /\ th \in ThreadRecord /\ th.pc = "running"
          /\ th.eff = thread[t].eff /\ th.req = thread[t].req
      <3> HIDE DEF s
      <3>1. thread[t] \in ThreadRecord BY DEF TypeOK, ThreadRecord
      <3> QED BY <3>1, <2>2 DEF ThreadRecord, Pc
    <2>4. thread' = [thread EXCEPT ![t] = th] BY <1>4 DEF StartCommand
    <2>5. StepAgrees(th, rec)
      <3>1. th.seen = s
        <4> HIDE DEF s
        <4> QED BY DEF TypeOK
      <3>2. ReqOf(t).path # None => s \in Content BY <1>r
      <3>3. ReqOf(t).tool = "workspace_command" BY <1>4 DEF StartCommand
      <3> QED BY <2>3, <3>1, <3>2, <3>3 DEF StepAgrees, ReqOf
    <2>6. /\ Write(t, rec) /\ jobs' = jobs \union {EffOf(t)}
          /\ UNCHANGED <<mutex, daemon, fs, branch, index, auth, late,
                         applied, faults>>
      BY <1>4 DEF StartCommand
    <2>7. jobs' \subseteq Effect BY <2>6, <1>r DEF TypeOK
    <2> HIDE DEF rec, th
    <2> QED BY <1>0, <2>1, <2>3, <2>4, <2>5, <2>6, <2>7, WriteAndGo
  <1>5. CASE CommandSeals(t)
    <2> DEFINE rec == [state |-> "publishing", req |-> ReqOf(t),
                       pre |-> thread[t].seen, want |-> ReqOf(t).value]
               th == [thread[t] EXCEPT !.pc = "publishing"]
    <2>0. /\ thread[t].seen \in Content
          /\ ReqOf(t).tool = "workspace_command" /\ ReqOf(t).path # None
      BY <1>5 DEF CommandSeals, PcInv, StepAgrees, ReqOf, At
    <2>1. rec \in Record /\ RecordShape(rec)
      BY <1>5, <1>r, <2>0 DEF CommandSeals, Record, JournalState, RecordShape,
                              Content
    <2>2. Goto(t, "publishing") /\ "publishing" \in Pc
      BY <1>5 DEF CommandSeals, Pc
    <2>3. /\ th \in ThreadRecord /\ th.pc = "publishing"
          /\ th.eff = thread[t].eff /\ th.req = thread[t].req
          /\ thread' = [thread EXCEPT ![t] = th]
      BY <2>2, GotoRecord
    <2>4. StepAgrees(th, rec) BY <2>3 DEF StepAgrees, ReqOf
    <2>5. Write(t, rec) /\ UNCHANGED <<jobs, mutex, daemon, fs, branch, index,
                                      auth, late, applied, faults>>
      BY <1>5 DEF CommandSeals
    <2> HIDE DEF rec, th
    <2> QED BY <1>0, <2>1, <2>3, <2>4, <2>5, WriteAndGo DEF TypeOK
  <1> QED BY <1>1, <1>2, <1>3, <1>4, <1>5

\* Every step that closes its record and leaves keeps the invariant.
LEMMA CloseKeeps ==
    ASSUME Inv, NEW t \in Thread, thread[t].pc # "idle",
           RecOf(t).state # "none", NEW s \in {"completed", "failed"},
           Write(t, [RecOf(t) EXCEPT !.state = s]), Leave(t),
           UNCHANGED <<jobs, daemon, fs, branch, index, auth, late, applied,
                       faults>>
    PROVE  Inv'
  <1> DEFINE rec == [RecOf(t) EXCEPT !.state = s]
  <1>1. RecOf(t) \in Record /\ RecordShape(RecOf(t))
    BY RequestFacts DEF Inv
  <1>2. rec \in Record /\ RecordShape(rec) BY <1>1, CloseRecord
  <1> HIDE DEF rec
  <1> QED BY <1>2, WriteAndLeave DEF rec

\* The desired and the journaled states a mutation installs are well formed.
LEMMA ApplyTypes ==
    ASSUME Inv, NEW t \in Thread, Apply(t)
    PROVE  fs' \in Tree /\ branch' \in Branch \ {<<>>}
  <1> USE DEF Inv
  <1>0. thread[t].pc = "checked" BY DEF Apply, At
  <1>1. /\ RecOf(t).state \in {"prepared", "publishing"}
        /\ RecOf(t).req = ReqOf(t)
    BY <1>0 DEF PcInv, StepAgrees, ReqOf
  <1>2. RecordShape(RecOf(t)) /\ RecOf(t) \in Record
        /\ ReqOf(t) \in Request
    BY <1>0, RequestFacts
  <1>3. CASE ReqOf(t).tool = "workspace_commit"
    <2>1. RecOf(t).state = "prepared" BY <1>1, <1>2, <1>3 DEF RecordShape
    <2>2. RecOf(t).want \in Branch \ {<<>>}
      BY <2>1, <1>1, <1>2, <1>3 DEF RecordShape
    <2> QED BY <1>3, <2>2 DEF Apply, TypeOK
  <1>4. CASE ReqOf(t).tool # "workspace_commit"
    <2>1. RecOf(t).want \in Content
      BY <1>1, <1>2, <1>4 DEF RecordShape, Content
    <2>2. fs' = [fs EXCEPT ![ReqOf(t).path] = RecOf(t).want] /\ branch' = branch
      BY <1>4 DEF Apply
    <2> QED BY <2>1, <2>2 DEF TypeOK, Tree
  <1> QED BY <1>3, <1>4

\* One step of a handler or of the recovery keeps the invariant.
LEMMA StepInv ==
    ASSUME Inv, NEW t \in Thread, Step(t)
    PROVE  Inv'
  <1> USE DEF Inv
  <1>0. thread[t].pc # "idle"
    BY DEF Step, Replay, PrepareWrite, PrepareMkdir, PrepareCommit, RefusePlan,
           ResumeApplied, ResumeUnapplied, ResumeConflict, Resuming,
           CheckAuthority, MkdirPresent, RefuseApply, Apply, CheckIndex,
           RefuseIndex, ResetIndex, Complete, StartCommand, CommandCompletes,
           CommandSeals, CommandFails, RecoverRunning, At
  <1>r. RecOf(t) \in Record /\ RecordShape(RecOf(t)) /\ ReqOf(t) \in Request
    BY <1>0, RequestFacts
  <1>a. StepAgrees(thread[t], RecOf(t)) BY DEF PcInv
  <1>t. /\ fs \in Tree /\ branch \in Branch \ {<<>>} /\ index \in Tree
        /\ late \in Nat /\ applied \in [Effect -> Nat]
        /\ faults \in [crash: Nat, lapse: Nat, raise: Nat, extern: Nat]
    BY DEF TypeOK
  <1>1. CASE PrepareWrite(t) \/ PrepareMkdir(t) \/ PrepareCommit(t)
               \/ StartCommand(t) \/ CommandSeals(t)
    BY <1>1, PrepareKeeps
  <1>2. CASE Replay(t) \/ RefusePlan(t)
    <2>1. /\ Leave(t)
          /\ UNCHANGED <<journal, jobs, daemon, fs, branch, index, auth, late,
                         applied, faults>>
      BY <1>2 DEF Replay, RefusePlan
    <2>2. AllIdle' BY <1>0, <2>1, LeaveAllIdle
    <2>3. AtMostOneUnresolved'
      BY <2>1 DEF GateInv, AtMostOneUnresolved, Unresolved
    <2>4. /\ thread' \in [Thread -> ThreadRecord]
          /\ \A u \in Thread : BusyShape(thread'[u])
          /\ mutex' \in Thread \union {None}
      BY <2>1, LeaveType
    <2>5. TypeOK' BY <2>1, <2>4 DEF TypeOK, ThreadRecord, BusyShape
    <2> QED BY <2>2, <2>3, <2>5, IdleInv
  <1>3. CASE ResumeConflict(t) \/ RefuseApply(t) \/ RefuseIndex(t)
    <2>1. /\ GiveUp(t)
          /\ UNCHANGED <<journal, jobs, fs, branch, index, auth, late, applied>>
          /\ faults' = faults
      BY <1>3 DEF ResumeConflict, RefuseApply, RefuseIndex
    <2> QED BY <1>0, <1>t, <2>1, GiveUpKeeps
  <1>4. CASE Complete(t) \/ CommandCompletes(t)
    <2>1. /\ Write(t, [RecOf(t) EXCEPT !.state = "completed"]) /\ Leave(t)
          /\ UNCHANGED <<jobs, daemon, fs, branch, index, auth, late, applied,
                         faults>>
      BY <1>4 DEF Complete, CommandCompletes
    <2>2. RecOf(t).state # "none"
      BY <1>4, <1>a DEF Complete, CommandCompletes, At, StepAgrees
    <2> QED BY <1>0, <2>1, <2>2, CloseKeeps
  <1>5. CASE CommandFails(t) \/ RecoverRunning(t)
    <2>1. /\ Write(t, [RecOf(t) EXCEPT !.state = "failed"]) /\ Leave(t)
          /\ UNCHANGED <<jobs, daemon, fs, branch, index, auth, late, applied,
                         faults>>
      BY <1>5 DEF CommandFails, RecoverRunning
    <2>2. RecOf(t).state # "none"
      BY <1>5, <1>a DEF CommandFails, RecoverRunning, At, StepAgrees
    <2> QED BY <1>0, <2>1, <2>2, CloseKeeps
  <1>6. CASE ResumeApplied(t)
    <2>0. /\ RecOf(t).state \in {"prepared", "publishing"}
          /\ RecOf(t).req = ReqOf(t)
      BY <1>6, <1>a DEF ResumeApplied, Resuming, At, StepAgrees, ReqOf
    <2>1. CASE ReqOf(t).tool = "workspace_commit"
      <3>1. RecOf(t).state = "prepared" BY <2>0, <2>1, <1>r DEF RecordShape
      <3>2. /\ [thread[t] EXCEPT !.pc = "ref"].pc = "ref"
            /\ [thread[t] EXCEPT !.pc = "ref"].req = thread[t].req
        BY DEF TypeOK
      <3>3. StepAgrees([thread[t] EXCEPT !.pc = "ref"], RecOf(t))
        BY <3>1, <3>2, <2>0, <2>1 DEF StepAgrees, ReqOf
      <3>4. /\ Goto(t, "ref") /\ "ref" \in Pc
            /\ UNCHANGED <<journal, jobs, mutex, daemon, fs, branch, index,
                           auth, late, applied, faults>>
        BY <1>6, <2>1 DEF ResumeApplied, Pc
      <3> QED BY <1>0, <1>t, <3>3, <3>4, GotoKeeps
    <2>2. CASE ReqOf(t).tool # "workspace_commit"
      <3>1. /\ Write(t, [RecOf(t) EXCEPT !.state = "completed"]) /\ Leave(t)
            /\ UNCHANGED <<jobs, daemon, fs, branch, index, auth, late,
                           applied, faults>>
        BY <1>6, <2>2 DEF ResumeApplied
      <3> QED BY <1>0, <2>0, <3>1, CloseKeeps
    <2> QED BY <2>1, <2>2
  <1>7. CASE ResumeUnapplied(t) \/ CheckAuthority(t) \/ MkdirPresent(t)
    <2>1. PICK p \in {"prepared", "checked", "applied"} :
             /\ Goto(t, p)
             /\ UNCHANGED <<journal, jobs, mutex, daemon, fs, branch, index,
                            auth, late, applied, faults>>
      BY <1>7 DEF ResumeUnapplied, CheckAuthority, MkdirPresent
    <2>2. /\ RecOf(t).state \in {"prepared", "publishing"}
          /\ RecOf(t).req = ReqOf(t)
      BY <1>7, <1>a DEF ResumeUnapplied, CheckAuthority, MkdirPresent,
                        Resuming, At, StepAgrees, ReqOf
    <2>3. /\ [thread[t] EXCEPT !.pc = p].pc = p
          /\ [thread[t] EXCEPT !.pc = p].req = thread[t].req
      BY DEF TypeOK
    <2>4. StepAgrees([thread[t] EXCEPT !.pc = p], RecOf(t))
      BY <2>2, <2>3 DEF StepAgrees, ReqOf
    <2>5. p \in Pc /\ p \notin {"gated", "idle"} BY DEF Pc
    <2> QED BY <1>0, <1>t, <2>1, <2>4, <2>5, GotoKeeps
  <1>8. CASE Apply(t)
    <2>1. fs' \in Tree /\ branch' \in Branch \ {<<>>} BY <1>8, ApplyTypes
    <2>2. PICK p \in {"ref", "applied"} :
             /\ Goto(t, p)
             /\ p = "ref" => ReqOf(t).tool = "workspace_commit"
             /\ UNCHANGED <<journal, jobs, mutex, daemon, index, auth, faults>>
      BY <1>8 DEF Apply
    <2>3. /\ RecOf(t).state \in {"prepared", "publishing"}
          /\ RecOf(t).req = ReqOf(t)
      BY <1>8, <1>a DEF Apply, At, StepAgrees, ReqOf
    <2>4. /\ [thread[t] EXCEPT !.pc = p].pc = p
          /\ [thread[t] EXCEPT !.pc = p].req = thread[t].req
      BY DEF TypeOK
    <2>5. p = "ref" => RecOf(t).state = "prepared"
      BY <2>2, <2>3, <1>r DEF RecordShape
    <2>6. StepAgrees([thread[t] EXCEPT !.pc = p], RecOf(t))
      BY <2>2, <2>3, <2>4, <2>5 DEF StepAgrees, ReqOf
    <2>7. late' \in Nat /\ applied' \in [Effect -> Nat]
      <3>1. EffOf(t) \in Effect BY <1>0, RequestFacts
      <3>2. /\ applied' = [applied EXCEPT ![EffOf(t)] = applied[EffOf(t)] + 1]
            /\ late' = IF auth THEN 0 ELSE late + 1
        BY <1>8 DEF Apply, Landed
      <3> QED BY <3>1, <3>2, <1>t
    <2>8. p \in Pc /\ p \notin {"gated", "idle"} BY DEF Pc
    <2> QED BY <1>0, <1>t, <2>1, <2>2, <2>6, <2>7, <2>8, GotoKeeps
  <1>9. CASE CheckIndex(t) \/ ResetIndex(t)
    <2>1. PICK p \in {"indexchecked", "applied"} :
             /\ Goto(t, p)
             /\ UNCHANGED <<journal, jobs, mutex, daemon, fs, branch, auth,
                            applied, faults>>
      BY <1>9 DEF CheckIndex, ResetIndex
    <2>2. /\ RecOf(t).state = "prepared" /\ RecOf(t).req = ReqOf(t)
          /\ ReqOf(t).tool = "workspace_commit"
      BY <1>9, <1>a DEF CheckIndex, ResetIndex, At, StepAgrees, ReqOf
    <2>3. RecOf(t).want \in Branch \ {<<>>}
      BY <2>2, <1>r DEF RecordShape
    <2>4. index' \in Tree /\ late' \in Nat
      <3>1. TreeOf(RecOf(t).want) \in Tree BY <2>3, TipIsTree
      <3> QED BY <3>1, <1>9, <1>t DEF CheckIndex, ResetIndex
    <2>5. /\ [thread[t] EXCEPT !.pc = p].pc = p
          /\ [thread[t] EXCEPT !.pc = p].req = thread[t].req
      BY DEF TypeOK
    <2>6. StepAgrees([thread[t] EXCEPT !.pc = p], RecOf(t))
      BY <2>2, <2>5 DEF StepAgrees, ReqOf
    <2>7. p \in Pc /\ p \notin {"gated", "idle"} BY DEF Pc
    <2> QED BY <1>0, <1>t, <2>1, <2>4, <2>6, <2>7, GotoKeeps
  <1> QED BY <1>1, <1>2, <1>3, <1>4, <1>5, <1>6, <1>7, <1>8, <1>9 DEF Step

-----------------------------------------------------------------------------
(* The other actions, and the theorems.                                    *)

\* A thread that takes the lock on an idle broker and gates on one effect.
LEMMA EnterKeeps ==
    ASSUME Inv, NEW t \in Thread, AllIdle, NEW e \in Effect, NEW r \in Request,
           Unresolved \subseteq {e}, mutex' = t,
           t = Recovery => daemon = "recovering" /\ r = journal[e].req,
           t # Recovery => daemon = "ready",
           thread' = [thread EXCEPT ![t] = [pc |-> "gated", eff |-> e,
                         req |-> r, seen |-> None, raced |-> FALSE]],
           UNCHANGED <<journal, jobs, daemon, fs, branch, index, auth, late,
                       applied, faults>>
    PROVE  Inv'
  <1> USE DEF Inv
  <1> DEFINE th == [pc |-> "gated", eff |-> e, req |-> r, seen |-> None,
                    raced |-> FALSE]
  <1>1. th \in ThreadRecord /\ BusyShape(th)
    BY DEF ThreadRecord, BusyShape, Pc
  <1>2. /\ thread'[t] = th
        /\ \A u \in Thread : u # t => thread'[u] = thread[u]
    BY DEF TypeOK
  <1>3. TypeOK'
    <2>1. /\ thread' \in [Thread -> ThreadRecord]
          /\ \A u \in Thread : BusyShape(thread'[u])
      BY <1>1 DEF TypeOK, ThreadRecord, BusyShape
    <2> QED BY <2>1 DEF TypeOK, ThreadRecord, BusyShape
  <1>4. \A u \in Thread : u # t => thread'[u].pc = "idle"
    BY <1>2 DEF AllIdle
  <1>5. LockInv' BY <1>4, SentinelAssumption DEF LockInv, Thread
  <1>6. GateInv'
    <2>1. Unresolved' = Unresolved BY DEF Unresolved
    <2>2. AtMostOneUnresolved' BY <2>1 DEF GateInv, AtMostOneUnresolved
    <2>3. ASSUME NEW u \in Thread, thread'[u].pc # "idle"
          PROVE  Unresolved' \subseteq {thread'[u].eff}
      <3>1. u = t BY <1>4, <2>3
      <3> QED BY <3>1, <1>2, <2>1
    <2> QED BY <2>2, <2>3 DEF GateInv, EffOf
  <1>7. PcInv'
    <2>1. ASSUME NEW u \in Thread PROVE StepAgrees(thread[u], RecOf(u))'
      <3>1. thread'[u].pc \in {"idle", "gated"} BY <1>2, <1>4
      <3> QED BY <3>1 DEF StepAgrees
    <2>2. ASSUME At(Recovery, "gated")'
          PROVE  (RecOf(Recovery).req = ReqOf(Recovery))'
      <3>1. Recovery \in Thread BY DEF Thread
      <3>2. t = Recovery BY <3>1, <2>2, <1>4 DEF At
      <3> QED BY <3>2, <1>2 DEF RecOf, ReqOf, EffOf
    <2> QED BY <2>1, <2>2 DEF PcInv
  <1> QED BY <1>3, <1>5, <1>6, <1>7

\* With the lock free, or with the daemon not serving and no recovery under
\* way, no thread is inside a handler.
LEMMA FreeMeansIdle ==
    ASSUME Inv, \/ mutex = None
                \/ daemon # "ready" /\ thread[Recovery].pc = "idle"
    PROVE  AllIdle
  BY SentinelAssumption DEF Inv, LockInv, AllIdle, Thread

\* Somebody else's change of the checkout keeps every type.
LEMMA ExternalTypes ==
    ASSUME TypeOK, External
    PROVE  fs' \in Tree /\ branch' \in Branch \ {<<>>} /\ index' \in Tree
  <1> USE DEF TypeOK
  <1>1. TreeOf(branch) \in Tree BY TipIsTree
  <1>2. CASE \E p \in Path, x \in Content :
                 fs' = [fs EXCEPT ![p] = x] /\ UNCHANGED <<branch, index>>
    BY <1>2 DEF Tree
  <1>3. CASE \E p \in Path : /\ fs[p] # Directory
                             /\ index' = [index EXCEPT ![p] = fs[p]]
                             /\ UNCHANGED <<fs, branch>>
    BY <1>3 DEF Tree
  <1>4. CASE /\ branch' = Append(branch, [by |-> Outside, tree |-> index])
             /\ UNCHANGED <<fs, index>>
    <2> DEFINE new == [by |-> Outside, tree |-> index]
    <2>1. new \in Commit BY DEF Commit
    <2> HIDE DEF new
    <2>2. branch' = Append(branch, new) BY <1>4 DEF new
    <2>3. branch \in Seq(Commit) BY DEF Branch
    <2>4. Append(branch, new) \in Seq(Commit)
          /\ Len(Append(branch, new)) = Len(branch) + 1
      BY <2>1, <2>3
    <2>5. branch' # <<>> BY <2>2, <2>3, <2>4
    <2> QED BY <1>4, <2>2, <2>4, <2>5 DEF Branch
  <1>5. CASE /\ Len(branch) > 1
             /\ branch' = SubSeq(branch, 1, Len(branch) - 1)
             /\ index' = TreeOf(branch') /\ UNCHANGED fs
    <2>1. branch \in Seq(Commit) /\ Len(branch) \in Nat BY DEF Branch
    <2>2. \A i \in 1..(Len(branch) - 1) : branch[i] \in Commit
      BY <2>1
    <2>3. branch' \in Seq(Commit) /\ Len(branch') = Len(branch) - 1
      BY <1>5, <2>1, <2>2
    <2>7. Len(branch') >= 1 BY <1>5, <2>1, <2>3
    <2>6. branch' # <<>> BY <2>7
    <2>4. branch' \in Branch \ {<<>>} BY <2>3, <2>6 DEF Branch
    <2>5. TreeOf(branch') \in Tree BY <2>4, TipIsTree
    <2> QED BY <1>5, <2>4, <2>5
  <1> QED BY <1>2, <1>3, <1>4, <1>5 DEF External

\* Every step of the broker and of its environment keeps the invariant.
LEMMA NextInv ==
    ASSUME Inv, [Next]_vars
    PROVE  Inv'
  <1> USE DEF Inv
  <1>f. faults \in [crash: Nat, lapse: Nat, raise: Nat, extern: Nat]
    BY DEF TypeOK
  <1>1. ASSUME NEW c \in Client, NEW e \in Effect, NEW r \in Request,
               CallTool(c, e, r)
        PROVE  Inv'
    <2>1. AllIdle BY <1>1, FreeMeansIdle DEF CallTool
    <2>2. c \in Thread /\ c # Recovery BY SentinelAssumption DEF Thread
    <2> QED BY <1>1, <2>1, <2>2, EnterKeeps DEF CallTool, NoOtherUnresolved
  <1>2. ASSUME NEW t \in Thread, Step(t) PROVE Inv'
    BY <1>2, StepInv
  <1>3. ASSUME NEW t \in Thread, Raise(t) PROVE Inv'
    <2>1. /\ thread[t].pc # "idle" /\ GiveUp(t)
          /\ UNCHANGED <<journal, jobs, fs, branch, index, auth, late, applied>>
      BY <1>3 DEF Raise
    <2>2. faults' \in [crash: Nat, lapse: Nat, raise: Nat, extern: Nat]
      BY <1>3, <1>f DEF Raise
    <2> QED BY <2>1, <2>2, GiveUpKeeps
  <1>4. ASSUME NEW t \in Thread, CommandUncertain(t) PROVE Inv'
    <2>1. thread[t].pc # "idle" /\ Leave(t) BY <1>4 DEF CommandUncertain, At
    <2>2. AllIdle' BY <2>1, LeaveAllIdle
    <2>3. AtMostOneUnresolved'
      BY <1>4 DEF CommandUncertain, GateInv, AtMostOneUnresolved, Unresolved
    <2>4. /\ thread' \in [Thread -> ThreadRecord]
          /\ \A u \in Thread : BusyShape(thread'[u])
          /\ mutex' \in Thread \union {None}
      BY <2>1, LeaveType
    <2>5. faults' \in [crash: Nat, lapse: Nat, raise: Nat, extern: Nat]
      BY <1>4, <1>f DEF CommandUncertain
    <2>6. TypeOK'
      BY <1>4, <2>4, <2>5 DEF CommandUncertain, TypeOK, ThreadRecord, BusyShape
    <2> QED BY <2>2, <2>3, <2>6, IdleInv
  <1>5. ASSUME NEW e \in Effect, RecoverRecord(e) PROVE Inv'
    <2>1. AllIdle BY <1>5, FreeMeansIdle DEF RecoverRecord, At
    <2>2. e \in Unresolved BY <1>5 DEF RecoverRecord
    <2>3. journal[e].req \in Request
      BY <2>2 DEF TypeOK, RecordShape, Unresolved, UnresolvedState
    <2>4. Recovery \in Thread BY DEF Thread
    <2>5. /\ Unresolved \subseteq {e} /\ mutex' = Recovery
          /\ daemon = "recovering"
          /\ thread' = [thread EXCEPT ![Recovery] =
                          [pc |-> "gated", eff |-> e, req |-> journal[e].req,
                           seen |-> None, raced |-> FALSE]]
          /\ UNCHANGED <<journal, jobs, daemon, fs, branch, index, auth, late,
                         applied, faults>>
      BY <1>5 DEF RecoverRecord
    <2> QED BY <2>1, <2>3, <2>4, <2>5, EnterKeeps
  <1>6. ASSUME StartDaemon \/ BecomeReady PROVE Inv'
    <2>0. Recovery \in Thread BY DEF Thread
    <2>1. AllIdle
      BY <1>6, <2>0, FreeMeansIdle DEF StartDaemon, BecomeReady, At, LockInv
    <2>2. AllIdle' BY <1>6, <2>1 DEF StartDaemon, BecomeReady, AllIdle
    <2>3. AtMostOneUnresolved'
      BY <1>6 DEF StartDaemon, BecomeReady, GateInv, AtMostOneUnresolved,
                  Unresolved
    <2>4. TypeOK' BY <1>6 DEF StartDaemon, BecomeReady, TypeOK
    <2> QED BY <2>2, <2>3, <2>4, IdleInv
  <1>7. ASSUME Crash PROVE Inv'
    <2>1. AllIdle' BY <1>7 DEF Crash, AllIdle, Idle
    <2>2. AtMostOneUnresolved'
      BY <1>7 DEF Crash, GateInv, AtMostOneUnresolved, Unresolved
    <2>3. Idle \in ThreadRecord /\ BusyShape(Idle)
      BY DEF Idle, ThreadRecord, Pc, BusyShape
    <2>4. /\ thread' \in [Thread -> ThreadRecord]
          /\ \A u \in Thread : BusyShape(thread'[u])
      BY <1>7, <2>3 DEF Crash
    <2>5. faults' \in [crash: Nat, lapse: Nat, raise: Nat, extern: Nat]
      BY <1>7, <1>f DEF Crash
    <2>6. TypeOK'
      BY <1>7, <2>4, <2>5 DEF Crash, TypeOK, ThreadRecord, BusyShape
    <2> QED BY <2>1, <2>2, <2>6, IdleInv
  <1>8. ASSUME Lapse \/ Renew PROVE Inv'
    <2>1. faults' \in [crash: Nat, lapse: Nat, raise: Nat, extern: Nat]
      BY <1>8, <1>f DEF Lapse, Renew
    <2>2. /\ UNCHANGED <<journal, jobs, thread, mutex, daemon, fs, branch,
                         index, applied>>
          /\ late' \in Nat
      BY <1>8 DEF Lapse, Renew, TypeOK
    <2>3. TypeOK'
      <3>1. auth' \in BOOLEAN BY <1>8 DEF Lapse, Renew
      <3> QED BY <2>1, <2>2, <3>1 DEF TypeOK
    <2>4. LockInv' /\ GateInv' BY <2>2 DEF LockInv, GateInv,
            AtMostOneUnresolved, Unresolved, EffOf
    <2>5. PcInv' BY <2>2 DEF PcInv, RecOf, ReqOf, EffOf, At
    <2> QED BY <2>3, <2>4, <2>5
  <1>9. ASSUME External PROVE Inv'
    <2>1. fs' \in Tree /\ branch' \in Branch \ {<<>>} /\ index' \in Tree
      BY <1>9, ExternalTypes
    <2>2. faults' \in [crash: Nat, lapse: Nat, raise: Nat, extern: Nat]
      BY <1>9, <1>f DEF External
    <2>3. UNCHANGED <<journal, jobs, mutex, daemon, auth, late, applied>>
      BY <1>9 DEF External
    <2>4. ASSUME NEW u \in Thread
          PROVE  /\ thread'[u] \in ThreadRecord
                 /\ thread'[u].pc = thread[u].pc
                 /\ thread'[u].eff = thread[u].eff
                 /\ thread'[u].req = thread[u].req
                 /\ thread'[u].seen = thread[u].seen
      <3>1. thread'[u] = IF At(u, "idle") THEN thread[u]
                         ELSE [thread[u] EXCEPT !.raced = TRUE]
        BY <1>9 DEF External
      <3>2. thread[u] \in ThreadRecord BY DEF TypeOK, ThreadRecord
      <3> QED BY <3>1, <3>2 DEF ThreadRecord
    <2>5. thread' \in [Thread -> ThreadRecord]
      <3>1. thread' = [u \in Thread |-> thread'[u]] BY <1>9 DEF External
      <3> QED BY <3>1, <2>4
    <2>6. TypeOK'
      <3>1. \A u \in Thread : BusyShape(thread'[u])
        BY <2>4 DEF TypeOK, BusyShape
      <3> QED BY <2>1, <2>2, <2>3, <2>5, <3>1
              DEF TypeOK, ThreadRecord, BusyShape
    <2>7. LockInv' BY <2>3, <2>4 DEF LockInv, Thread
    <2>8. GateInv'
      BY <2>3, <2>4 DEF GateInv, AtMostOneUnresolved, Unresolved, EffOf
    <2>9. PcInv'
      <3>1. ASSUME NEW u \in Thread PROVE StepAgrees(thread[u], RecOf(u))'
        <4>1. StepAgrees(thread[u], RecOf(u)) BY DEF PcInv
        <4>2. RecOf(u)' = RecOf(u) BY <2>3, <2>4 DEF RecOf, EffOf
        <4> QED BY <4>1, <4>2, <2>4 DEF StepAgrees
      <3>2. Recovery \in Thread BY DEF Thread
      <3>3. (At(Recovery, "gated") => RecOf(Recovery).req = ReqOf(Recovery))'
        BY <3>2, <2>3, <2>4 DEF PcInv, At, RecOf, ReqOf, EffOf
      <3> QED BY <3>1, <3>3 DEF PcInv
    <2> QED BY <2>6, <2>7, <2>8, <2>9
  <1>10. CASE UNCHANGED vars
    <2>1. TypeOK' BY <1>10 DEF vars, TypeOK
    <2>2. LockInv' /\ GateInv' BY <1>10 DEF vars, LockInv, GateInv,
            AtMostOneUnresolved, Unresolved, EffOf
    <2>3. PcInv' BY <1>10 DEF vars, PcInv, RecOf, ReqOf, EffOf, At
    <2> QED BY <2>1, <2>2, <2>3
  <1> QED BY <1>1, <1>2, <1>3, <1>4, <1>5, <1>6, <1>7, <1>8, <1>9, <1>10
          DEF Next

\* The lock invariant holds in every behaviour.
LEMMA Invariance == Spec => []Inv
  BY InitInv, NextInv, PTL DEF Spec

\* Journal records, threads, the workspace and the branch are always well
\* formed (the shapes the code validates on every replay).
THEOREM TypeCorrect == Spec => []TypeOK
  <1>1. Inv => TypeOK BY DEF Inv
  <1> QED BY <1>1, Invariance, PTL

\* The lock and the gate of _call_tool keep at most one workspace effect
\* unresolved, however many clients and effects there are and however often
\* the broker crashes, so recovery never meets a journal it refuses.
THEOREM Serialized == Spec => []AtMostOneUnresolved
  <1>1. Inv => AtMostOneUnresolved BY DEF Inv, GateInv
  <1> QED BY <1>1, Invariance, PTL

-----------------------------------------------------------------------------
(* What the journal records say of the checkout, on top of the invariant of *)
(* the lock.                                                                *)

Extern == faults.extern

\* What a record and its history say by themselves: nothing has landed before
\* a plan was journaled, nor for an effect that failed without one.
QuietRecord(rec, n) ==
    /\ rec.state = "none" => rec = NoRecord /\ n = 0
    /\ rec.state \in {"running", "failed"} =>
           rec.pre = None /\ rec.want = None /\ n = 0
    /\ rec.state = "publishing" => rec.req.path \in Path
    /\ rec.state = "prepared" /\ rec.req.tool = "workspace_mkdir" =>
           rec.pre = Absent /\ rec.want = Directory
    /\ rec.state = "prepared" /\ rec.req.tool = "workspace_commit" =>
           rec.pre # rec.want

Pending(rec) == rec.state \in {"prepared", "publishing"}

\* A plan that may still be replayed.  Only a state that is not the desired one
\* is mutated again, so an effect may land once more only after a foreign
\* change; without one, whether it has landed can be read off the checkout.
Landable(e) ==
    LET rec == journal[e]
    IN  Pending(rec) =>
          /\ Current(rec.req) # rec.want => applied[e] <= Extern
          /\ Extern = 0 =>
                /\ Replayable(e)
                /\ Current(rec.req) = rec.want /\ rec.pre # rec.want =>
                      applied[e] = 1

EffectInv(e) ==
    /\ QuietRecord(journal[e], applied[e])
    /\ Landable(e)
    /\ applied[e] <= 1 + Extern
    /\ Extern = 0 /\ journal[e].state = "completed"
          /\ journal[e].pre # journal[e].want => applied[e] = 1

\* What a handler may rely on between its own steps: the mutation lock keeps
\* every other effect away, so only a foreign change (raced) can interfere.
WorkInv(t) ==
    LET th == thread[t]
    IN  /\ th.raced => Extern > 0
        /\ th.pc \in {"prepared", "checked"} =>
              /\ applied[th.eff] <= Extern
              /\ th.raced \/ Current(th.req) = journal[th.eff].pre
        /\ th.pc \in {"ref", "indexchecked", "applied"} =>
              th.raced \/ Current(th.req) = journal[th.eff].want
        /\ th.pc = "running" /\ th.req.path # None =>
              th.raced \/ th.seen = fs[th.req.path]

RecordInv ==
    /\ \A e \in Effect : EffectInv(e)
    /\ \A t \in Thread : WorkInv(t)

\* Once the authority check fails, the next mutation is the last one: the
\* thread that had passed the check is the only one past it.
LateInv ==
    /\ auth => late = 0
    /\ late <= 1
    /\ late = 1 => \A t \in Thread : thread[t].pc \notin {"checked", "indexchecked"}

SafeInv == Inv /\ RecordInv

-----------------------------------------------------------------------------
(* What the steps leave alone.                                             *)

\* Only an action of the environment spends the budget of foreign changes.
Undisturbed == faults'.extern = faults.extern

\* An effect whose record and history do not change keeps its part while the
\* checkout does not change either.
LEMMA EffectFrame ==
    ASSUME NEW e \in Effect, EffectInv(e), journal'[e] = journal[e],
           applied'[e] = applied[e], UNCHANGED <<fs, branch, index>>,
           Undisturbed
    PROVE  EffectInv(e)'
  BY DEF EffectInv, QuietRecord, Landable, Pending, Current, Replayable,
         Extern, Undisturbed

\* An effect that cannot be replayed does not depend on the checkout.
LEMMA ResolvedFrame ==
    ASSUME NEW e \in Effect, EffectInv(e), ~Pending(journal[e]),
           journal'[e] = journal[e], applied'[e] = applied[e], Undisturbed
    PROVE  EffectInv(e)'
  BY DEF EffectInv, QuietRecord, Landable, Pending, Extern, Undisturbed

\* An effect other than the one the lock holder works on is resolved.
LEMMA OthersResolved ==
    ASSUME Inv, NEW t \in Thread, thread[t].pc # "idle", NEW e \in Effect,
           e # EffOf(t)
    PROVE  ~Pending(journal[e])
  BY DEF Inv, GateInv, Unresolved, UnresolvedState, Pending

\* An idle thread, and one that has just passed the gate, relies on nothing.
Fresh(th) == th.pc \in {"idle", "gated"} /\ ~th.raced

LEMMA FreshWork ==
    ASSUME NEW t \in Thread, Fresh(thread'[t])
    PROVE  WorkInv(t)'
  BY DEF Fresh, WorkInv

LEMMA WorkFrame ==
    ASSUME NEW t \in Thread, WorkInv(t), thread'[t] = thread[t],
           UNCHANGED <<journal, applied, fs, branch, index>>, Undisturbed
    PROVE  WorkInv(t)'
  BY DEF WorkInv, Current, Extern, Undisturbed

\* A step that changes neither records nor checkout, and leaves every thread
\* alone, idle or newly gated, keeps the record invariant.
LEMMA QuietKeeps ==
    ASSUME RecordInv, UNCHANGED <<journal, applied, fs, branch, index>>,
           Undisturbed,
           \A t \in Thread : thread'[t] = thread[t] \/ Fresh(thread'[t])
    PROVE  RecordInv'
  <1>1. ASSUME NEW e \in Effect PROVE EffectInv(e)'
    BY EffectFrame DEF RecordInv
  <1>2. ASSUME NEW t \in Thread PROVE WorkInv(t)'
    <2>1. CASE thread'[t] = thread[t] BY <2>1, WorkFrame DEF RecordInv
    <2>2. CASE Fresh(thread'[t]) BY <2>2, FreshWork
    <2> QED BY <2>1, <2>2
  <1> QED BY <1>1, <1>2 DEF RecordInv

\* After the acting thread has left, every thread is fresh or as before.
LEMMA LeaveFresh ==
    ASSUME TypeOK, NEW t \in Thread, Leave(t)
    PROVE  \A u \in Thread : thread'[u] = thread[u] \/ Fresh(thread'[u])
  BY DEF TypeOK, Leave, Idle, Fresh

\* A step that only moves the program counter of its thread: what the thread
\* relies on at its new step is left to show.
LEMMA GotoRecordInv ==
    ASSUME Inv, RecordInv, NEW t \in Thread, thread[t].pc # "idle",
           NEW p \in Pc, Goto(t, p),
           UNCHANGED <<journal, applied, fs, branch, index>>, Undisturbed,
           WorkInv(t)'
    PROVE  RecordInv'
  <1>1. ASSUME NEW e \in Effect PROVE EffectInv(e)'
    BY EffectFrame DEF RecordInv
  <1>2. ASSUME NEW u \in Thread, u # t PROVE WorkInv(u)'
    <2>1. thread'[u] = thread[u] BY <1>2 DEF Goto, Inv, TypeOK
    <2> QED BY <2>1, WorkFrame DEF RecordInv
  <1> QED BY <1>1, <1>2 DEF RecordInv

\* What the moved thread looks like.
LEMMA GotoFields ==
    ASSUME TypeOK, NEW t \in Thread, NEW p \in Pc, Goto(t, p)
    PROVE  /\ thread'[t].pc = p /\ thread'[t].eff = thread[t].eff
           /\ thread'[t].req = thread[t].req
           /\ thread'[t].seen = thread[t].seen
           /\ thread'[t].raced = thread[t].raced
           /\ \A u \in Thread : u # t => thread'[u] = thread[u]
  <1>1. thread[t] \in ThreadRecord BY DEF TypeOK, ThreadRecord
  <1> QED BY <1>1 DEF ThreadRecord, Goto, TypeOK

\* A step that writes its record: the part of its own effect and of its own
\* thread is left to show.
LEMMA WriteRecordInv ==
    ASSUME Inv, RecordInv, NEW t \in Thread, thread[t].pc # "idle",
           NEW rec, Write(t, rec), UNCHANGED <<applied, fs, branch, index>>,
           Undisturbed, NEW f \in Effect, f = EffOf(t), EffectInv(f)',
           \A u \in Thread : u # t => thread'[u] = thread[u],
           WorkInv(t)'
    PROVE  RecordInv'
  <1>1. ASSUME NEW e \in Effect PROVE EffectInv(e)'
    <2>1. CASE e = f BY <2>1
    <2>2. CASE e # f
      <3>1. journal'[e] = journal[e] BY <2>2 DEF Write, Inv, TypeOK
      <3> QED BY <3>1, EffectFrame DEF RecordInv
    <2> QED BY <2>1, <2>2
  <1>2. ASSUME NEW u \in Thread, u # t PROVE WorkInv(u)'
    <2>1. thread'[u] = thread[u] BY <1>2
    <2>2. thread[u].pc = "idle" BY <1>2, OthersIdle DEF Inv
    <2>3. WorkInv(u) BY DEF RecordInv
    <2> QED BY <2>1, <2>2, <2>3 DEF WorkInv, Extern, Undisturbed
  <1> QED BY <1>1, <1>2 DEF RecordInv

-----------------------------------------------------------------------------
(* The record invariant, action by action.                                 *)

LEMMA InitRecordInv == Init => RecordInv
  <1> SUFFICES ASSUME Init PROVE RecordInv OBVIOUS
  <1>1. ASSUME NEW e \in Effect PROVE EffectInv(e)
    <2>1. journal[e] = NoRecord /\ applied[e] = 0 /\ faults.extern = 0
      BY DEF Init
    <2> QED BY <2>1 DEF EffectInv, QuietRecord, Landable, Pending, NoRecord,
                        Extern
  <1>2. ASSUME NEW t \in Thread PROVE WorkInv(t)
    BY DEF Init, Idle, WorkInv
  <1> QED BY <1>1, <1>2 DEF RecordInv

\* Steps that end a call without journaling anything.
LEMMA EndRecordInv ==
    ASSUME Inv, RecordInv, NEW t \in Thread,
           \/ Replay(t) \/ RefusePlan(t) \/ ResumeConflict(t)
           \/ RefuseApply(t) \/ RefuseIndex(t) \/ Raise(t)
           \/ CommandUncertain(t)
    PROVE  RecordInv'
  <1>1. Leave(t) /\ UNCHANGED <<journal, applied, fs, branch, index>>
    BY DEF Replay, RefusePlan, ResumeConflict, RefuseApply, RefuseIndex,
           Raise, CommandUncertain, GiveUp
  <1>2. Undisturbed
    <2>1. faults \in [crash: Nat, lapse: Nat, raise: Nat, extern: Nat]
      BY DEF Inv, TypeOK
    <2>2. \/ faults' = faults
          \/ faults' = [faults EXCEPT !.raise = @ + 1]
      BY DEF Replay, RefusePlan, ResumeConflict, RefuseApply, RefuseIndex,
             Raise, CommandUncertain
    <2> QED BY <2>1, <2>2 DEF Undisturbed
  <1>3. \A u \in Thread : thread'[u] = thread[u] \/ Fresh(thread'[u])
    BY <1>1, LeaveFresh DEF Inv
  <1> QED BY <1>1, <1>2, <1>3, QuietKeeps

\* What the record of a thread past its gate looks like.
LEMMA PendingFacts ==
    ASSUME Inv, RecordInv, NEW t \in Thread,
           \/ thread[t].pc \in {"prepared", "checked", "ref", "indexchecked",
                                "applied"}
           \/ Resuming(t)
    PROVE  /\ EffOf(t) \in Effect /\ thread[t].eff = EffOf(t)
           /\ thread[t].req = ReqOf(t)
           /\ thread[t].pc # "idle"
           /\ Pending(RecOf(t)) /\ RecOf(t).req = ReqOf(t)
           /\ RecOf(t) = journal[EffOf(t)]
           /\ ReqOf(t).tool \in Tool /\ ReqOf(t).path \in Path
           /\ EffectInv(EffOf(t)) /\ WorkInv(t)
           /\ RecOf(t) \in Record /\ RecordShape(RecOf(t))
  <1>0. thread[t].pc # "idle" BY DEF Resuming, At
  <1>1. StepAgrees(thread[t], RecOf(t)) BY DEF Inv, PcInv
  <1>2. Pending(RecOf(t)) /\ RecOf(t).req = ReqOf(t)
    BY <1>1 DEF StepAgrees, Resuming, At, Pending, ReqOf
  <1>3. /\ EffOf(t) \in Effect /\ ReqOf(t).tool \in Tool
        /\ RecOf(t) \in Record /\ RecordShape(RecOf(t))
        /\ ReqOf(t).tool # "workspace_command" => ReqOf(t).path \in Path
    BY <1>0, RequestFacts DEF Inv
  <1>4. EffectInv(EffOf(t)) /\ WorkInv(t) BY <1>3 DEF RecordInv
  <1>5. QuietRecord(RecOf(t), applied[EffOf(t)])
    BY <1>4 DEF EffectInv, RecOf
  <1>6. ReqOf(t).path \in Path
    BY <1>2, <1>3, <1>5 DEF Pending, RecordShape, QuietRecord
  <1> QED BY <1>0, <1>2, <1>3, <1>4, <1>6 DEF RecOf, EffOf, ReqOf

\* Steps that go on without journaling or mutating anything.
LEMMA GoOnRecordInv ==
    ASSUME Inv, RecordInv, NEW t \in Thread,
           \/ ResumeUnapplied(t) \/ CheckAuthority(t) \/ MkdirPresent(t)
           \/ CheckIndex(t)
           \/ ResumeApplied(t) /\ ReqOf(t).tool = "workspace_commit"
    PROVE  RecordInv'
  <1>f. /\ EffOf(t) \in Effect /\ thread[t].eff = EffOf(t)
        /\ thread[t].req = ReqOf(t) /\ thread[t].pc # "idle"
        /\ Pending(RecOf(t)) /\ RecOf(t).req = ReqOf(t)
        /\ RecOf(t) = journal[EffOf(t)]
        /\ EffectInv(EffOf(t)) /\ WorkInv(t)
        /\ RecordShape(RecOf(t))
    BY PendingFacts
       DEF ResumeUnapplied, CheckAuthority, MkdirPresent, CheckIndex,
           ResumeApplied, At
  <1>u. /\ UNCHANGED <<journal, applied, fs, branch, index>> /\ Undisturbed
    BY DEF ResumeUnapplied, CheckAuthority, MkdirPresent, CheckIndex,
           ResumeApplied, Undisturbed
  <1>1. CASE ResumeUnapplied(t) \/ CheckAuthority(t)
    <2>1. PICK p \in {"prepared", "checked"} : Goto(t, p)
      BY <1>1 DEF ResumeUnapplied, CheckAuthority
    <2>2. p \in Pc BY DEF Pc
    <2>3. /\ thread'[t].pc = p /\ thread'[t].eff = EffOf(t)
          /\ thread'[t].req = ReqOf(t)
          /\ thread'[t].raced = thread[t].raced
      BY <1>f, <2>1, <2>2, GotoFields DEF Inv
    <2>4. /\ applied[EffOf(t)] <= Extern
          /\ thread[t].raced \/ Current(ReqOf(t)) = RecOf(t).pre
      <3>1. CASE ResumeUnapplied(t)
        BY <3>1, <1>f DEF ResumeUnapplied, EffectInv, Landable
      <3>2. CASE CheckAuthority(t)
        BY <3>2, <1>f DEF CheckAuthority, WorkInv, At
      <3> QED BY <1>1, <3>1, <3>2
    <2>5. WorkInv(t)'
      BY <1>f, <1>u, <2>3, <2>4 DEF WorkInv, Current, Extern, Undisturbed
    <2> QED BY <1>f, <1>u, <2>1, <2>2, <2>5, GotoRecordInv
  <1>2. CASE \/ MkdirPresent(t) \/ CheckIndex(t)
             \/ ResumeApplied(t) /\ ReqOf(t).tool = "workspace_commit"
    <2>1. PICK p \in {"applied", "indexchecked", "ref"} : Goto(t, p)
      BY <1>2 DEF MkdirPresent, CheckIndex, ResumeApplied
    <2>2. p \in Pc BY DEF Pc
    <2>3. /\ thread'[t].pc = p /\ thread'[t].eff = EffOf(t)
          /\ thread'[t].req = ReqOf(t)
          /\ thread'[t].raced = thread[t].raced
      BY <1>f, <2>1, <2>2, GotoFields DEF Inv
    <2>4. thread[t].raced \/ Current(ReqOf(t)) = RecOf(t).want
      <3>1. CASE MkdirPresent(t)
        <4>1. ReqOf(t).tool = "workspace_mkdir" /\ fs[ReqOf(t).path] = Directory
          BY <3>1 DEF MkdirPresent
        <4>2. RecOf(t).want = Directory
          BY <4>1, <1>f DEF EffectInv, QuietRecord, Pending, RecordShape
        <4> QED BY <4>1, <4>2 DEF Current
      <3>2. CASE CheckIndex(t)
        BY <3>2, <1>f DEF CheckIndex, WorkInv, At
      <3>3. CASE ResumeApplied(t)
        BY <3>3 DEF ResumeApplied
      <3> QED BY <1>2, <3>1, <3>2, <3>3
    <2>5. WorkInv(t)'
      BY <1>f, <1>u, <2>3, <2>4 DEF WorkInv, Current, Extern, Undisturbed
    <2> QED BY <1>f, <1>u, <2>1, <2>2, <2>5, GotoRecordInv
  <1> QED BY <1>1, <1>2

\* Journaling a record: what the journal holds afterwards.
LEMMA WriteFields ==
    ASSUME TypeOK, NEW t \in Thread, thread[t].pc # "idle", NEW rec,
           Write(t, rec)
    PROVE  /\ EffOf(t) \in Effect /\ journal'[EffOf(t)] = rec
           /\ \A e \in Effect : e # EffOf(t) => journal'[e] = journal[e]
  <1>1. EffOf(t) \in Effect BY DEF TypeOK, EffOf
  <1> QED BY <1>1 DEF TypeOK, Write

\* Steps that close a pending record: the desired state is there.
LEMMA CompleteRecordInv ==
    ASSUME Inv, RecordInv, NEW t \in Thread,
           \/ Complete(t)
           \/ ResumeApplied(t) /\ ReqOf(t).tool # "workspace_commit"
    PROVE  RecordInv'
  <1> DEFINE rec == [RecOf(t) EXCEPT !.state = "completed"]
  <1>e. EffOf(t) \in Effect
    BY PendingFacts DEF Complete, ResumeApplied, At
  <1>p. PICK e \in Effect : e = EffOf(t) BY <1>e
  <1>f. /\ thread[t].eff = e
        /\ thread[t].req = ReqOf(t) /\ thread[t].pc # "idle"
        /\ Pending(RecOf(t)) /\ RecOf(t).req = ReqOf(t)
        /\ RecOf(t) = journal[e]
        /\ EffectInv(e) /\ WorkInv(t)
        /\ RecOf(t) \in Record
    BY <1>p, PendingFacts DEF Complete, ResumeApplied, At
  <1>1. /\ Write(t, rec) /\ Leave(t)
        /\ UNCHANGED <<applied, fs, branch, index>> /\ Undisturbed
    BY DEF Complete, ResumeApplied, Undisturbed
  <1>2. Extern = 0 => Current(ReqOf(t)) = RecOf(t).want
    <2>1. CASE Complete(t)
      BY <2>1, <1>f DEF Complete, WorkInv, At, Extern
    <2>2. CASE ResumeApplied(t) BY <2>2 DEF ResumeApplied
    <2> QED BY <2>1, <2>2
  <1>3. /\ rec.state = "completed" /\ rec.pre = RecOf(t).pre
        /\ rec.want = RecOf(t).want
    BY <1>f DEF Record
  <1> HIDE DEF rec
  <1>4. journal'[e] = rec
    BY <1>1, <1>p, <1>f, WriteFields DEF Inv
  <1>5. Extern = 0 /\ rec.pre # rec.want => applied[e] = 1
    BY <1>2, <1>3, <1>f DEF EffectInv, Landable
  <1>6. applied[e] <= 1 + Extern BY <1>f DEF EffectInv
  <1>7. EffectInv(e)'
    BY <1>1, <1>3, <1>4, <1>5, <1>6 DEF EffectInv, QuietRecord, Landable,
       Pending, Extern, Undisturbed
  <1>8. WorkInv(t)'
    <2>1. Fresh(thread'[t]) BY <1>1 DEF Leave, Idle, Fresh, Inv, TypeOK
    <2> QED BY <2>1, FreshWork
  <1>9. \A u \in Thread : u # t => thread'[u] = thread[u]
    BY <1>1 DEF Leave, Inv, TypeOK
  <1> QED BY <1>1, <1>p, <1>f, <1>7, <1>8, <1>9, WriteRecordInv

\* Steps that close a command that published nothing.
LEMMA EndCommandRecordInv ==
    ASSUME Inv, RecordInv, NEW t \in Thread,
           CommandCompletes(t) \/ CommandFails(t) \/ RecoverRunning(t)
    PROVE  RecordInv'
  <1>0. thread[t].pc # "idle"
    BY DEF CommandCompletes, CommandFails, RecoverRunning, At
  <1>1. RecOf(t).state = "running"
    BY DEF CommandCompletes, CommandFails, RecoverRunning, At, Inv, PcInv,
           StepAgrees
  <1>2. EffOf(t) \in Effect /\ RecOf(t) \in Record
    BY <1>0, RequestFacts DEF Inv
  <1>e. PICK e \in Effect : e = EffOf(t) BY <1>2
  <1>3. EffectInv(e) BY DEF RecordInv
  <1>4. PICK s \in {"completed", "failed"} :
          /\ Write(t, [RecOf(t) EXCEPT !.state = s]) /\ Leave(t)
          /\ UNCHANGED <<applied, fs, branch, index>> /\ Undisturbed
    BY DEF CommandCompletes, CommandFails, RecoverRunning, Undisturbed
  <1> DEFINE rec == [RecOf(t) EXCEPT !.state = s]
  <1>5. /\ rec.state = s /\ rec.pre = RecOf(t).pre /\ rec.want = RecOf(t).want
    BY <1>2 DEF Record
  <1> HIDE DEF rec
  <1>6. journal'[e] = rec
    BY <1>0, <1>e, <1>4, WriteFields DEF Inv, rec
  <1>7. rec.pre = None /\ rec.want = None /\ applied[e] = 0
    BY <1>1, <1>3, <1>5, <1>e DEF EffectInv, QuietRecord, RecOf
  <1>8. EffectInv(e)'
    <2>1. Extern \in Nat BY DEF Inv, TypeOK, Extern
    <2> QED BY <1>4, <1>5, <1>6, <1>7, <2>1 DEF EffectInv, QuietRecord,
       Landable, Pending, Extern, Undisturbed
  <1>9. WorkInv(t)'
    <2>1. Fresh(thread'[t]) BY <1>4 DEF Leave, Idle, Fresh, Inv, TypeOK
    <2> QED BY <2>1, FreshWork
  <1>10. \A u \in Thread : u # t => thread'[u] = thread[u]
    BY <1>4 DEF Leave, Inv, TypeOK
  <1> QED BY <1>0, <1>2, <1>4, <1>e, <1>8, <1>9, <1>10, WriteRecordInv

\* The commit a plan builds is new, and it holds the selected bytes.
LEMMA NewCommit ==
    ASSUME NEW b \in Branch \ {<<>>}, NEW p \in Path, NEW x \in Content,
           NEW by \in Effect
    PROVE  LET new == Append(b, [by |-> by,
                                 tree |-> [TreeOf(b) EXCEPT ![p] = x]])
           IN  new # b /\ TreeOf(new)[p] = x /\ new \in Branch \ {<<>>}
  <1> DEFINE c == [by |-> by, tree |-> [TreeOf(b) EXCEPT ![p] = x]]
  <1>1. TreeOf(b) \in Tree BY TipIsTree
  <1>2. c.tree[p] = x /\ c \in Commit BY <1>1 DEF Tree, Commit
  <1> HIDE DEF c
  <1>3. b \in Seq(Commit) /\ Len(b) \in Nat BY DEF Branch
  <1>4. /\ Append(b, c) \in Seq(Commit)
        /\ Len(Append(b, c)) = Len(b) + 1
        /\ Append(b, c)[Len(b) + 1] = c
    BY <1>2, <1>3
  <1>5. Append(b, c) # b BY <1>3, <1>4
  <1>6. Append(b, c) # <<>> BY <1>3, <1>4
  <1>7. TreeOf(Append(b, c))[p] = x BY <1>2, <1>4 DEF TreeOf
  <1> QED BY <1>4, <1>5, <1>6, <1>7 DEF c, Branch

\* A plan that has just been journaled on the current state.
LEMMA FreshPlan ==
    ASSUME Inv, RecordInv, NEW t \in Thread, thread[t].pc # "idle",
           NEW e \in Effect, e = EffOf(t), NEW rec, Write(t, rec),
           NEW p \in {"prepared", "publishing"}, Goto(t, p),
           UNCHANGED <<applied, fs, branch, index>>, Undisturbed,
           rec.state = p, rec.req = ReqOf(t),
           QuietRecord(rec, 0), applied[e] = 0,
           Extern = 0 \/ p = "prepared" => Current(ReqOf(t)) = rec.pre,
           rec.state = "prepared" /\ rec.req.tool = "workspace_commit" =>
              /\ branch = rec.pre /\ index = TreeOf(rec.pre)
              /\ fs[rec.req.path] = TreeOf(rec.want)[rec.req.path]
    PROVE  RecordInv'
  <1>1. journal'[e] = rec BY WriteFields DEF Inv
  <1>2. Extern \in Nat /\ Extern' = Extern
    BY DEF Inv, TypeOK, Extern, Undisturbed
  <1>3. Current(rec.req)' = Current(ReqOf(t)) BY DEF Current
  <1>4. Extern = 0 => Replayable(e)'
    BY <1>1, <1>2, <1>3 DEF Replayable
  <1>5. Landable(e)' BY <1>1, <1>2, <1>3, <1>4 DEF Landable, Pending
  <1>6. EffectInv(e)'
    BY <1>1, <1>2, <1>5 DEF EffectInv
  <1>7. p \in Pc BY DEF Pc
  <1>8. /\ thread'[t].pc = p /\ thread'[t].eff = e
        /\ thread'[t].req = ReqOf(t)
        /\ thread'[t].raced = thread[t].raced
        /\ \A u \in Thread : u # t => thread'[u] = thread[u]
    BY <1>7, GotoFields DEF Inv, EffOf, ReqOf
  <1>9. WorkInv(t) BY DEF RecordInv
  <1>10. WorkInv(t)'
    <2>1. thread'[t].raced => Extern' > 0 BY <1>2, <1>8, <1>9 DEF WorkInv
    <2>2. p = "prepared" => Current(thread[t].req)' = journal'[e].pre
      BY <1>1, <1>3, <1>8 DEF Current
    <2> QED BY <1>2, <1>8, <2>1, <2>2 DEF WorkInv
  <1> QED BY <1>6, <1>8, <1>10, WriteRecordInv

\* Steps that journal a plan.
LEMMA PlanRecordInv ==
    ASSUME Inv, RecordInv, NEW t \in Thread,
           \/ PrepareWrite(t) \/ PrepareMkdir(t) \/ PrepareCommit(t)
           \/ CommandSeals(t)
    PROVE  RecordInv'
  <1>0. thread[t].pc # "idle"
    BY DEF PrepareWrite, PrepareMkdir, PrepareCommit, CommandSeals, At
  <1>r. /\ EffOf(t) \in Effect
        /\ ReqOf(t).tool \in Tool
        /\ ReqOf(t).tool # "workspace_command" => ReqOf(t).path \in Path
        /\ ReqOf(t).path \in Path \union {None}
        /\ ReqOf(t).path \in Path => fs[ReqOf(t).path] \in Content
    BY <1>0, RequestFacts DEF Inv
  <1>e. PICK e \in Effect : e = EffOf(t) BY <1>r
  <1>q. QuietRecord(journal[e], applied[e]) /\ journal[e] = RecOf(t)
    BY <1>e DEF RecordInv, EffectInv, RecOf
  <1>u. UNCHANGED <<applied, fs, branch, index>> /\ Undisturbed
    BY DEF PrepareWrite, PrepareMkdir, PrepareCommit, CommandSeals,
           Undisturbed
  <1>1. CASE PrepareWrite(t)
    <2> DEFINE rec == [state |-> "prepared", req |-> ReqOf(t),
                       pre |-> fs[ReqOf(t).path], want |-> ReqOf(t).value]
    <2>1. /\ Write(t, rec) /\ Goto(t, "prepared") /\ RecOf(t).state = "none"
          /\ ReqOf(t).tool \in {"workspace_write", "workspace_edit"}
      BY <1>1 DEF PrepareWrite
    <2>2. applied[e] = 0 BY <1>q, <2>1 DEF QuietRecord
    <2>3. QuietRecord(rec, 0) BY <2>1 DEF QuietRecord
    <2>4. Current(ReqOf(t)) = rec.pre BY <2>1 DEF Current
    <2>5. /\ rec.state = "prepared" /\ rec.req = ReqOf(t)
          /\ rec.req.tool # "workspace_commit"
      BY <2>1
    <2> HIDE DEF rec
    <2> QED BY <1>0, <1>e, <1>u, <2>1, <2>2, <2>3, <2>4, <2>5, FreshPlan
  <1>2. CASE PrepareMkdir(t)
    <2> DEFINE rec == [state |-> "prepared", req |-> ReqOf(t), pre |-> Absent,
                       want |-> Directory]
    <2>1. /\ Write(t, rec) /\ Goto(t, "prepared") /\ RecOf(t).state = "none"
          /\ ReqOf(t).tool = "workspace_mkdir"
          /\ fs[ReqOf(t).path] = Absent
      BY <1>2 DEF PrepareMkdir
    <2>2. applied[e] = 0 BY <1>q, <2>1 DEF QuietRecord
    <2>3. QuietRecord(rec, 0) BY <2>1 DEF QuietRecord
    <2>4. Current(ReqOf(t)) = rec.pre BY <2>1 DEF Current
    <2>5. /\ rec.state = "prepared" /\ rec.req = ReqOf(t)
          /\ rec.req.tool # "workspace_commit"
      BY <2>1
    <2> HIDE DEF rec
    <2> QED BY <1>0, <1>e, <1>u, <2>1, <2>2, <2>3, <2>4, <2>5, FreshPlan
  <1>3. CASE PrepareCommit(t)
    <2> DEFINE p == ReqOf(t).path
               want == Append(branch, [by |-> EffOf(t),
                                 tree |-> [TreeOf(branch) EXCEPT ![p] = fs[p]]])
               rec == [state |-> "prepared", req |-> ReqOf(t), pre |-> branch,
                       want |-> want]
    <2>1. /\ Write(t, rec) /\ Goto(t, "prepared") /\ RecOf(t).state = "none"
          /\ ReqOf(t).tool = "workspace_commit" /\ PlanCommit(ReqOf(t))
      BY <1>3 DEF PrepareCommit
    <2>2. applied[e] = 0 BY <1>q, <2>1 DEF QuietRecord
    <2>3. want # branch /\ TreeOf(want)[p] = fs[p]
      <3>1. branch \in Branch \ {<<>>} BY DEF Inv, TypeOK
      <3> QED BY <2>1, <1>r, <3>1, NewCommit
    <2> HIDE DEF want
    <2>4. /\ rec.state = "prepared" /\ rec.req = ReqOf(t)
          /\ rec.pre = branch /\ rec.want = want
      OBVIOUS
    <2> HIDE DEF rec
    <2>5. QuietRecord(rec, 0) BY <2>1, <2>3, <2>4 DEF QuietRecord
    <2>6. Current(ReqOf(t)) = rec.pre BY <2>1, <2>4 DEF Current
    <2>7. index = TreeOf(branch) BY <2>1 DEF PlanCommit
    <2> QED BY <1>0, <1>e, <1>u, <2>1, <2>2, <2>3, <2>4, <2>5, <2>6, <2>7,
               FreshPlan
  <1>4. CASE CommandSeals(t)
    <2> DEFINE rec == [state |-> "publishing", req |-> ReqOf(t),
                       pre |-> thread[t].seen, want |-> ReqOf(t).value]
    <2>1. /\ Write(t, rec) /\ Goto(t, "publishing")
          /\ thread[t].pc = "running" /\ ReqOf(t).path # None
      BY <1>4 DEF CommandSeals, At
    <2>2. RecOf(t).state = "running" /\ ReqOf(t).tool = "workspace_command"
      BY <2>1 DEF Inv, PcInv, StepAgrees, ReqOf
    <2>3. applied[e] = 0 BY <1>q, <2>2 DEF QuietRecord
    <2>4. ReqOf(t).path \in Path BY <1>r, <2>1
    <2>5. QuietRecord(rec, 0) BY <2>4 DEF QuietRecord
    <2>6. Extern = 0 => Current(ReqOf(t)) = rec.pre
      <3>1. WorkInv(t) BY DEF RecordInv
      <3>2. Extern = 0 => thread[t].seen = fs[ReqOf(t).path]
        BY <2>1, <3>1 DEF WorkInv, ReqOf, Extern
      <3> QED BY <2>2, <3>2 DEF Current
    <2>7. rec.state = "publishing" /\ rec.req = ReqOf(t) OBVIOUS
    <2> HIDE DEF rec
    <2> QED BY <1>0, <1>e, <1>u, <2>1, <2>3, <2>5, <2>6, <2>7, FreshPlan
  <1> QED BY <1>1, <1>2, <1>3, <1>4

\* The submission of a command journals it without a plan.
LEMMA StartRecordInv ==
    ASSUME Inv, RecordInv, NEW t \in Thread, StartCommand(t)
    PROVE  RecordInv'
  <1> DEFINE rec == [state |-> "running", req |-> ReqOf(t), pre |-> None,
                     want |-> None]
             s == IF ReqOf(t).path = None THEN None ELSE fs[ReqOf(t).path]
  <1>0. thread[t].pc # "idle" BY DEF StartCommand, At
  <1>r. EffOf(t) \in Effect BY <1>0, RequestFacts DEF Inv
  <1>e. PICK e \in Effect : e = EffOf(t) BY <1>r
  <1>1. /\ Write(t, rec) /\ RecOf(t).state = "none"
        /\ thread' = [thread EXCEPT ![t].pc = "running", ![t].seen = s]
        /\ UNCHANGED <<applied, fs, branch, index>> /\ Undisturbed
    BY DEF StartCommand, Undisturbed
  <1>2. EffectInv(e) BY DEF RecordInv
  <1>3. applied[e] = 0
    BY <1>1, <1>2, <1>e DEF EffectInv, QuietRecord, RecOf
  <1>4. journal'[e] = rec BY <1>0, <1>1, <1>e, WriteFields DEF Inv
  <1>5. EffectInv(e)'
    BY <1>1, <1>2, <1>3, <1>4 DEF EffectInv, QuietRecord, Landable, Pending,
       Extern, Undisturbed
  <1>6. /\ thread'[t].pc = "running" /\ thread'[t].req = ReqOf(t)
        /\ thread'[t].raced = thread[t].raced /\ thread'[t].seen = s
        /\ \A u \in Thread : u # t => thread'[u] = thread[u]
    <2> HIDE DEF s
    <2>1. thread[t] \in ThreadRecord BY DEF Inv, TypeOK, ThreadRecord
    <2> QED BY <1>1, <2>1 DEF ThreadRecord, ReqOf, Inv, TypeOK
  <1>7. WorkInv(t)'
    <2>1. WorkInv(t) BY DEF RecordInv
    <2> QED BY <1>1, <1>6, <2>1 DEF WorkInv, Extern, Undisturbed
  <1> HIDE DEF rec
  <1> QED BY <1>0, <1>1, <1>e, <1>5, <1>6, <1>7, WriteRecordInv

\* The mutation itself: the desired state is there, and the effect has landed
\* once more, which its thread could afford.
LEMMA ApplyRecordInv ==
    ASSUME Inv, RecordInv, NEW t \in Thread, Apply(t)
    PROVE  RecordInv'
  <1>0. thread[t].pc = "checked" BY DEF Apply, At
  <1>e. PICK e \in Effect : e = EffOf(t)
    BY <1>0, PendingFacts
  <1>f. /\ thread[t].eff = e /\ thread[t].req = ReqOf(t)
        /\ Pending(RecOf(t)) /\ RecOf(t).req = ReqOf(t)
        /\ RecOf(t) = journal[e] /\ ReqOf(t).path \in Path
        /\ EffectInv(e) /\ WorkInv(t) /\ RecordShape(RecOf(t))
    BY <1>0, <1>e, PendingFacts
  <1>1. /\ journal' = journal /\ index' = index /\ Undisturbed
        /\ applied' = [applied EXCEPT ![e] = @ + 1] /\ Applicable(t)
    BY <1>e DEF Apply, Landed, Undisturbed
  <1>2. /\ applied[e] \in Nat /\ Extern \in Nat /\ Extern' = Extern
        /\ applied'[e] = applied[e] + 1
        /\ \A f \in Effect : f # e => applied'[f] = applied[f]
    BY <1>1 DEF Inv, TypeOK, Extern, Undisturbed
  <1>3. applied[e] <= Extern BY <1>0, <1>f DEF WorkInv
  <1>4. Current(ReqOf(t))' = RecOf(t).want /\ RecOf(t)' = RecOf(t)
        /\ ReqOf(t)' = ReqOf(t)
    <2>1. PICK q \in {"ref", "applied"} : Goto(t, q) BY DEF Apply
    <2>2. q \in Pc BY DEF Pc
    <2>3. thread'[t].eff = thread[t].eff /\ thread'[t].req = thread[t].req
      BY <2>1, <2>2, GotoFields DEF Inv
    <2>4. CASE ReqOf(t).tool = "workspace_commit"
      BY <2>4, <2>3, <1>1 DEF Apply, Current, RecOf, EffOf, ReqOf
    <2>5. CASE ReqOf(t).tool # "workspace_commit"
      <3>1. fs' = [fs EXCEPT ![ReqOf(t).path] = RecOf(t).want]
        BY <2>5 DEF Apply
      <3>2. fs'[ReqOf(t).path] = RecOf(t).want
        BY <3>1, <1>f DEF Inv, TypeOK, Tree
      <3> QED BY <2>5, <2>3, <3>2, <1>1 DEF Current, RecOf, EffOf, ReqOf
    <2> QED BY <2>4, <2>5
  <1>c. Current(journal[e].req)' = journal'[e].want
    BY <1>1, <1>4, <1>f DEF Current
  <1>5. EffectInv(e)'
    <2>1. QuietRecord(journal[e], applied[e])' /\ Pending(journal[e])
      BY <1>1, <1>f DEF EffectInv, QuietRecord, Pending
    <2>2. Replayable(e)'
      <3>1. CASE ReqOf(t).tool = "workspace_commit"
        <4>1. /\ index = TreeOf(RecOf(t).pre) /\ branch' = RecOf(t).want
          BY <3>1, <1>1 DEF Apply, Applicable
        <4> QED BY <4>1, <1>1, <1>c, <1>f DEF Replayable
      <3>2. CASE ReqOf(t).tool # "workspace_commit"
        BY <3>2, <1>1, <1>c, <1>f DEF Replayable
      <3> QED BY <3>1, <3>2
    <2>3. Landable(e)'
      BY <1>2, <1>3, <1>c, <2>2 DEF Landable
    <2> QED BY <1>1, <1>2, <1>3, <2>1, <2>3 DEF EffectInv, Pending
  <1>6. ASSUME NEW f \in Effect, f # e PROVE EffectInv(f)'
    <2>1. ~Pending(journal[f]) BY <1>0, <1>6, <1>e, OthersResolved
    <2>2. EffectInv(f) BY DEF RecordInv
    <2> QED BY <1>1, <1>2, <1>6, <2>1, <2>2, ResolvedFrame
  <1>7. WorkInv(t)'
    <2>1. PICK q \in {"ref", "applied"} : Goto(t, q) BY DEF Apply
    <2>2. q \in Pc BY DEF Pc
    <2>3. /\ thread'[t].pc = q /\ thread'[t].eff = e
          /\ thread'[t].req = ReqOf(t) /\ thread'[t].raced = thread[t].raced
      BY <1>f, <2>1, <2>2, GotoFields DEF Inv
    <2>4. Current(thread[t].req)' = journal'[e].want
      BY <2>3, <1>c, <1>1, <1>f DEF Current
    <2> QED BY <2>3, <2>4, <1>2, <1>f DEF WorkInv
  <1>8. ASSUME NEW u \in Thread, u # t PROVE WorkInv(u)'
    <2>1. thread[u].pc = "idle" BY <1>0, <1>8, OthersIdle DEF Inv
    <2>2. thread'[u] = thread[u] BY <1>8 DEF Apply, Goto, Inv, TypeOK
    <2>3. WorkInv(u) BY DEF RecordInv
    <2> QED BY <2>1, <2>2, <2>3, <1>2 DEF WorkInv
  <1> QED BY <1>5, <1>6, <1>7, <1>8 DEF RecordInv

\* The reset of the index: the branch is the new commit, and stays it.
LEMMA ResetRecordInv ==
    ASSUME Inv, RecordInv, NEW t \in Thread, ResetIndex(t)
    PROVE  RecordInv'
  <1>0. thread[t].pc = "indexchecked" BY DEF ResetIndex, At
  <1>e. PICK e \in Effect : e = EffOf(t)
    BY <1>0, PendingFacts
  <1>f. /\ thread[t].eff = e /\ thread[t].req = ReqOf(t)
        /\ RecOf(t).req = ReqOf(t)
        /\ RecOf(t) = journal[e] /\ EffectInv(e) /\ WorkInv(t)
    BY <1>0, <1>e, PendingFacts
  <1>t. ReqOf(t).tool = "workspace_commit"
    BY <1>0 DEF Inv, PcInv, StepAgrees, ReqOf
  <1>1. /\ UNCHANGED <<journal, applied, fs, branch>> /\ Undisturbed
        /\ index' = TreeOf(RecOf(t).want) /\ Goto(t, "applied")
    BY DEF ResetIndex, Undisturbed
  <1>2. Extern \in Nat /\ Extern' = Extern
    BY <1>1 DEF Inv, TypeOK, Extern, Undisturbed
  <1>3. Extern = 0 => branch = RecOf(t).want
    BY <1>0, <1>f, <1>t DEF WorkInv, Current, Extern
  <1>4. Current(journal[e].req)' = Current(journal[e].req)
    BY <1>1 DEF Current
  <1>5. Extern = 0 => Replayable(e)'
    BY <1>1, <1>3, <1>f, <1>t DEF Replayable, Current
  <1>6. EffectInv(e)'
    BY <1>1, <1>2, <1>4, <1>5, <1>f DEF EffectInv, Landable, QuietRecord
  <1>7. ASSUME NEW f \in Effect, f # e PROVE EffectInv(f)'
    <2>1. ~Pending(journal[f]) BY <1>0, <1>7, <1>e, OthersResolved
    <2>2. EffectInv(f) BY DEF RecordInv
    <2> QED BY <1>1, <2>1, <2>2, ResolvedFrame
  <1>8. "applied" \in Pc BY DEF Pc
  <1>9. /\ thread'[t].pc = "applied" /\ thread'[t].eff = thread[t].eff
        /\ thread'[t].req = thread[t].req
        /\ thread'[t].raced = thread[t].raced
        /\ \A u \in Thread : u # t => thread'[u] = thread[u]
    BY <1>1, <1>8, GotoFields DEF Inv
  <1>10. WorkInv(t)'
    BY <1>0, <1>1, <1>2, <1>9, <1>f DEF WorkInv, Current
  <1>11. ASSUME NEW u \in Thread, u # t PROVE WorkInv(u)'
    <2>1. WorkInv(u) BY DEF RecordInv
    <2> QED BY <1>1, <1>2, <1>9, <1>11, <2>1 DEF WorkInv, Current
  <1> QED BY <1>6, <1>7, <1>10, <1>11 DEF RecordInv

\* Somebody else's change: it pays for one more landing of every effect.
LEMMA ExternalRecordInv ==
    ASSUME Inv, RecordInv, External
    PROVE  RecordInv'
  <1>1. /\ UNCHANGED <<journal, applied>>
        /\ faults' = [faults EXCEPT !.extern = @ + 1]
        /\ thread' = [t \in Thread |->
                         IF At(t, "idle") THEN thread[t]
                         ELSE [thread[t] EXCEPT !.raced = TRUE]]
    BY DEF External
  <1>2. Extern \in Nat /\ Extern' = Extern + 1
    BY <1>1 DEF Inv, TypeOK, Extern
  <1>3. ASSUME NEW e \in Effect PROVE EffectInv(e)'
    <2>1. EffectInv(e) /\ applied[e] \in Nat
      BY DEF RecordInv, Inv, TypeOK
    <2>2. Extern' # 0 /\ applied'[e] <= Extern'
      BY <1>1, <1>2, <2>1 DEF EffectInv
    <2>3. Landable(e)' BY <2>2 DEF Landable
    <2> QED BY <1>1, <1>2, <2>1, <2>2, <2>3 DEF EffectInv
  <1>4. ASSUME NEW t \in Thread PROVE WorkInv(t)'
    <2>1. CASE At(t, "idle")
      BY <1>1, <1>2, <2>1 DEF WorkInv, At
    <2>2. CASE ~At(t, "idle")
      <3>0. thread[t] \in ThreadRecord /\ thread[t].pc # "idle"
        BY <2>2 DEF Inv, TypeOK, ThreadRecord, At
      <3>1. /\ thread'[t].raced = TRUE /\ thread'[t].eff = thread[t].eff
        BY <1>1, <2>2, <3>0 DEF ThreadRecord
      <3>2. thread[t].eff \in Effect BY <3>0 DEF Inv, TypeOK
      <3>3. applied[thread[t].eff] <= Extern'
        BY <1>2, <3>2 DEF RecordInv, EffectInv
      <3> QED BY <1>1, <1>2, <3>1, <3>3 DEF WorkInv
    <2> QED BY <2>1, <2>2
  <1> QED BY <1>3, <1>4 DEF RecordInv

\* Every step of the broker and of its environment keeps the record invariant.
LEMMA NextRecordInv ==
    ASSUME Inv, RecordInv, [Next]_vars
    PROVE  RecordInv'
  <1>f. faults \in [crash: Nat, lapse: Nat, raise: Nat, extern: Nat]
    BY DEF Inv, TypeOK
  <1>1. ASSUME NEW c \in Client, NEW e \in Effect, NEW r \in Request,
               CallTool(c, e, r)
        PROVE  RecordInv'
    BY <1>1, QuietKeeps DEF CallTool, Fresh, Undisturbed, Inv, TypeOK, Thread
  <1>2. ASSUME NEW t \in Thread, Step(t) \/ Raise(t) \/ CommandUncertain(t)
        PROVE  RecordInv'
    BY <1>2, EndRecordInv, GoOnRecordInv, CompleteRecordInv,
       EndCommandRecordInv, PlanRecordInv, StartRecordInv, ApplyRecordInv,
       ResetRecordInv DEF Step
  <1>3. ASSUME NEW e \in Effect, RecoverRecord(e) PROVE RecordInv'
    BY <1>3, QuietKeeps DEF RecoverRecord, Fresh, Undisturbed, Inv, TypeOK,
       Thread
  <1>4. ASSUME StartDaemon \/ BecomeReady PROVE RecordInv'
    BY <1>4, QuietKeeps DEF StartDaemon, BecomeReady, Undisturbed
  <1>5. ASSUME Crash PROVE RecordInv'
    <2>1. Undisturbed BY <1>5, <1>f DEF Crash, Undisturbed
    <2>2. \A t \in Thread : Fresh(thread'[t]) BY <1>5 DEF Crash, Fresh, Idle
    <2> QED BY <1>5, <2>1, <2>2, QuietKeeps DEF Crash
  <1>6. ASSUME Lapse \/ Renew PROVE RecordInv'
    <2>1. Undisturbed BY <1>6, <1>f DEF Lapse, Renew, Undisturbed
    <2> QED BY <1>6, <2>1, QuietKeeps DEF Lapse, Renew
  <1>7. ASSUME External PROVE RecordInv' BY <1>7, ExternalRecordInv
  <1>8. CASE UNCHANGED vars
    BY <1>8, QuietKeeps DEF vars, Undisturbed
  <1> QED BY <1>1, <1>2, <1>3, <1>4, <1>5, <1>6, <1>7, <1>8 DEF Next

LEMMA RecordInvariance == Spec => []SafeInv
  <1>1. Init => SafeInv BY InitInv, InitRecordInv DEF SafeInv
  <1>2. SafeInv /\ [Next]_vars => SafeInv'
    BY NextInv, NextRecordInv DEF SafeInv
  <1> QED BY <1>1, <1>2, PTL DEF Spec

\* Every journal record is true of the checkout, whatever clients retry, raise
\* or crash half way: an unresolved one can be replayed, a failed one has left
\* nothing behind, a completed one has landed exactly once.
THEOREM JournalIsTrue == Spec => []RecordsAreTrue
  <1>1. ASSUME SafeInv PROVE RecordsAreTrue
    <2>1. \A e \in Effect : EffectInv(e) BY <1>1 DEF SafeInv, RecordInv
    <2>2. RecoveryNeverWedged
      <3>1. ASSUME faults.extern = 0, NEW e \in Effect PROVE Replayable(e)
        <4>1. CASE Pending(journal[e])
          BY <2>1, <3>1, <4>1 DEF EffectInv, Landable, Extern
        <4>2. CASE ~Pending(journal[e]) BY <4>2 DEF Replayable, Pending
        <4> QED BY <4>1, <4>2
      <3> QED BY <3>1 DEF RecoveryNeverWedged
    <2>3. FailedLeavesNothing
      BY <2>1 DEF FailedLeavesNothing, EffectInv, QuietRecord
    <2>4. CompletedMeansApplied
      BY <2>1 DEF CompletedMeansApplied, EffectInv, Extern
    <2> QED BY <2>2, <2>3, <2>4 DEF RecordsAreTrue
  <1> QED BY <1>1, RecordInvariance, PTL

\* However often an effect is retried, crashed over and recovered, it lands at
\* most once, and once more per foreign change of the checkout.
THEOREM LandsOnce == Spec => []AppliedAtMostOnce
  <1>1. SafeInv => AppliedAtMostOnce
    BY DEF SafeInv, RecordInv, EffectInv, AppliedAtMostOnce, Extern
  <1> QED BY <1>1, RecordInvariance, PTL

\* Only the mutation of the lock holder counts as a landing.
LEMMA OnlyApplyLands ==
    ASSUME Inv, [Next]_vars, applied' # applied
    PROVE  \E t \in Thread : Apply(t)
  <1>1. ASSUME NEW t \in Thread, Step(t), ~Apply(t) PROVE applied' = applied
    BY <1>1 DEF Step, Replay, PrepareWrite, PrepareMkdir, PrepareCommit,
         RefusePlan, ResumeApplied, ResumeUnapplied, ResumeConflict,
         CheckAuthority, MkdirPresent, RefuseApply, CheckIndex, RefuseIndex,
         ResetIndex, Complete, StartCommand, CommandCompletes, CommandSeals,
         CommandFails, RecoverRunning
  <1> QED BY <1>1 DEF Next, CallTool, Raise, CommandUncertain, RecoverRecord,
         StartDaemon, BecomeReady, Crash, Lapse, Renew, External, vars

\* A mutation replaces exactly the state its record was prepared from, unless
\* somebody else writes the same path during the very call; a branch is never
\* moved from anything else.
THEOREM ReplacesPrestate == Spec => ReplacesOnlyItsPrestate
  <1>1. ASSUME SafeInv, [Next]_vars PROVE [\A t \in Thread : FindsPrestate(t)]_vars
    <2>1. ASSUME NEW t \in Thread, At(t, "checked"), applied' # applied
          PROVE  \/ Current(ReqOf(t)) = RecOf(t).pre
                 \/ ReqOf(t).tool # "workspace_commit" /\ thread[t].raced
      <3>1. PICK u \in Thread : Apply(u)
        BY <1>1, <2>1, OnlyApplyLands DEF SafeInv
      <3>2. u = t
        BY <1>1, <2>1, <3>1, OthersIdle DEF SafeInv, Inv, Apply, At
      <3>3. WorkInv(t) BY <1>1 DEF SafeInv, RecordInv
      <3>4. CASE ReqOf(t).tool = "workspace_commit"
        BY <3>1, <3>2, <3>4 DEF Apply, Applicable, Current
      <3>5. CASE ReqOf(t).tool # "workspace_commit"
        BY <2>1, <3>3, <3>5 DEF WorkInv, At, RecOf, ReqOf, EffOf
      <3> QED BY <3>4, <3>5
    <2> QED BY <2>1 DEF FindsPrestate
  <1> QED BY <1>1, RecordInvariance, PTL DEF Spec, ReplacesOnlyItsPrestate

-----------------------------------------------------------------------------
(* The order in which a record may change.                                 *)

\* A write by a thread whose record is not terminal moves only that record.
LEMMA WriteForward ==
    ASSUME Inv, NEW t \in Thread, thread[t].pc # "idle", NEW rec,
           Write(t, rec),
           RecOf(t).state # "none" => rec.req = RecOf(t).req,
           RecOf(t).state \notin {"completed", "failed"},
           RecOf(t).state = "publishing" =>
              rec.state \in {"publishing", "completed"},
           RecOf(t).state = "prepared" =>
              /\ rec.state \in {"prepared", "completed"}
              /\ rec.pre = RecOf(t).pre /\ rec.want = RecOf(t).want
    PROVE  \A e \in Effect : MovesForward(e)
  <1>1. /\ EffOf(t) \in Effect /\ journal'[EffOf(t)] = rec
        /\ \A e \in Effect : e # EffOf(t) => journal'[e] = journal[e]
    BY WriteFields DEF Inv
  <1>2. ASSUME NEW e \in Effect PROVE MovesForward(e)
    <2>1. CASE e = EffOf(t) BY <1>1, <2>1 DEF MovesForward, RecOf
    <2>2. CASE e # EffOf(t)
      <3>1. journal'[e] = journal[e] BY <1>1, <2>2
      <3> QED BY <3>1 DEF MovesForward
    <2> QED BY <2>1, <2>2
  <1> QED BY <1>2

\* Closing a record keeps everything but its state.
LEMMA CloseForward ==
    ASSUME Inv, NEW t \in Thread, thread[t].pc # "idle",
           NEW s \in {"completed", "failed"},
           Write(t, [RecOf(t) EXCEPT !.state = s]),
           \/ RecOf(t).state = "running"
           \/ RecOf(t).state \in {"prepared", "publishing"} /\ s = "completed"
    PROVE  \A e \in Effect : MovesForward(e)
  <1> DEFINE rec == [RecOf(t) EXCEPT !.state = s]
  <1>1. RecOf(t) \in Record BY RequestFacts DEF Inv
  <1>2. /\ rec.state = s /\ rec.req = RecOf(t).req
        /\ rec.pre = RecOf(t).pre /\ rec.want = RecOf(t).want
    BY <1>1 DEF Record
  <1> HIDE DEF rec
  <1> QED BY <1>2, WriteForward DEF rec

LEMMA StepForward ==
    ASSUME Inv, NEW t \in Thread, Step(t)
    PROVE  \A e \in Effect : MovesForward(e)
  <1>0. thread[t].pc # "idle"
    BY DEF Step, Replay, PrepareWrite, PrepareMkdir, PrepareCommit, RefusePlan,
           ResumeApplied, ResumeUnapplied, ResumeConflict, Resuming,
           CheckAuthority, MkdirPresent, RefuseApply, Apply, CheckIndex,
           RefuseIndex, ResetIndex, Complete, StartCommand, CommandCompletes,
           CommandSeals, CommandFails, RecoverRunning, At
  <1>a. StepAgrees(thread[t], RecOf(t)) BY DEF Inv, PcInv
  <1>s. ASSUME journal' = journal PROVE \A e \in Effect : MovesForward(e)
    BY <1>s DEF MovesForward
  <1>1. CASE PrepareWrite(t) \/ PrepareMkdir(t) \/ PrepareCommit(t)
               \/ StartCommand(t)
    <2>1. RecOf(t).state = "none" /\ \E rec : Write(t, rec)
      BY <1>1 DEF PrepareWrite, PrepareMkdir, PrepareCommit, StartCommand
    <2> QED BY <1>0, <2>1, WriteForward
  <1>2. CASE CommandSeals(t)
    <2> DEFINE rec == [state |-> "publishing", req |-> ReqOf(t),
                       pre |-> thread[t].seen, want |-> ReqOf(t).value]
    <2>1. RecOf(t).state = "running" /\ Write(t, rec)
          /\ rec.req = RecOf(t).req
      BY <1>2, <1>a DEF CommandSeals, StepAgrees, At, ReqOf
    <2> HIDE DEF rec
    <2> QED BY <1>0, <2>1, WriteForward
  <1>3. CASE Complete(t)
    BY <1>0, <1>3, <1>a, CloseForward DEF Complete, StepAgrees, At
  <1>4. CASE CommandCompletes(t) \/ CommandFails(t)
    BY <1>0, <1>4, <1>a, CloseForward
       DEF CommandCompletes, CommandFails, StepAgrees, At
  <1>5. CASE RecoverRunning(t)
    BY <1>0, <1>5, CloseForward DEF RecoverRunning
  <1>6. CASE ResumeApplied(t)
    <2>1. RecOf(t).state \in {"prepared", "publishing"}
      BY <1>6, <1>a DEF ResumeApplied, Resuming, At, StepAgrees
    <2>2. CASE ReqOf(t).tool = "workspace_commit"
      BY <1>6, <1>s, <2>2 DEF ResumeApplied
    <2>3. CASE ReqOf(t).tool # "workspace_commit"
      BY <1>0, <1>6, <2>1, <2>3, CloseForward DEF ResumeApplied
    <2> QED BY <2>2, <2>3
  <1>7. CASE \/ Replay(t) \/ RefusePlan(t) \/ ResumeUnapplied(t)
             \/ ResumeConflict(t) \/ CheckAuthority(t) \/ MkdirPresent(t)
             \/ RefuseApply(t) \/ Apply(t) \/ CheckIndex(t) \/ RefuseIndex(t)
             \/ ResetIndex(t)
    BY <1>7, <1>s DEF Replay, RefusePlan, ResumeUnapplied, ResumeConflict,
       CheckAuthority, MkdirPresent, RefuseApply, Apply, CheckIndex,
       RefuseIndex, ResetIndex
  <1> QED BY <1>1, <1>2, <1>3, <1>4, <1>5, <1>6, <1>7 DEF Step

\* No retry, crash or recovery ever takes a journal record back: an effect_id
\* keeps its request and its terminal record, and a plan its two states.
THEOREM JournalForward == Spec => JournalMovesForward
  <1>1. ASSUME Inv, [Next]_vars PROVE [\A e \in Effect : MovesForward(e)]_vars
    <2>1. ASSUME NEW t \in Thread, Step(t)
          PROVE  \A e \in Effect : MovesForward(e)
      BY <1>1, <2>1, StepForward
    <2>2. CASE journal' = journal BY <2>2 DEF MovesForward
    <2> QED BY <1>1, <2>1, <2>2 DEF Next, CallTool, Raise, CommandUncertain,
         RecoverRecord, StartDaemon, BecomeReady, Crash, Lapse, Renew,
         External, vars
  <1> QED BY <1>1, Invariance, PTL DEF Spec, JournalMovesForward

-----------------------------------------------------------------------------
(* Mutations after the authority was lost.                                 *)

PastCheck == {"checked", "indexchecked"}

\* A step that mutates nothing, and lets a thread pass its check only while
\* the authority is live.
LEMMA LateFrame ==
    ASSUME LateInv, UNCHANGED <<auth, late>>,
           \A t \in Thread : thread'[t].pc \in PastCheck =>
              auth \/ thread[t].pc \in PastCheck
    PROVE  LateInv'
  BY DEF LateInv, PastCheck

\* A mutation takes its thread past the last check, and no other thread is
\* anywhere near one.
LEMMA LateMutation ==
    ASSUME Inv, LateInv, NEW t \in Thread, thread[t].pc \in PastCheck,
           NEW p \in Pc, p \notin PastCheck, Goto(t, p), auth' = auth,
           late' = IF auth THEN 0 ELSE late + 1
    PROVE  LateInv'
  <1>1. late \in Nat BY DEF Inv, TypeOK
  <1>2. late = 0 BY <1>1 DEF LateInv, PastCheck
  <1>3. \A u \in Thread : thread'[u].pc \notin PastCheck
    <2>1. /\ thread'[t].pc = p
          /\ \A u \in Thread : u # t => thread'[u] = thread[u]
      BY GotoFields DEF Inv
    <2>2. \A u \in Thread : u # t => thread[u].pc = "idle"
      BY OthersIdle DEF Inv, PastCheck
    <2> QED BY <2>1, <2>2 DEF PastCheck
  <1> QED BY <1>2, <1>3 DEF LateInv, PastCheck

LEMMA StepLate ==
    ASSUME Inv, LateInv, NEW t \in Thread, Step(t)
    PROVE  LateInv'
  <1>1. CASE Apply(t)
    <2>1. PICK p \in {"ref", "applied"} : Goto(t, p) BY <1>1 DEF Apply
    <2>2. p \in Pc /\ p \notin PastCheck BY DEF Pc, PastCheck
    <2>3. /\ thread[t].pc \in PastCheck /\ auth' = auth
          /\ late' = IF auth THEN 0 ELSE late + 1
      BY <1>1 DEF Apply, Landed, At, PastCheck
    <2> QED BY <2>1, <2>2, <2>3, LateMutation
  <1>2. CASE ResetIndex(t)
    <2>1. "applied" \in Pc /\ "applied" \notin PastCheck BY DEF Pc, PastCheck
    <2>2. /\ thread[t].pc \in PastCheck /\ auth' = auth /\ Goto(t, "applied")
          /\ late' = IF auth THEN 0 ELSE late + 1
      BY <1>2 DEF ResetIndex, At, PastCheck
    <2> QED BY <2>1, <2>2, LateMutation
  <1>3. CASE CheckAuthority(t) \/ CheckIndex(t)
    <2>1. PICK p \in {"checked", "indexchecked", "applied"} :
             Goto(t, p) /\ (p \in PastCheck => auth)
      BY <1>3 DEF CheckAuthority, CheckIndex, PastCheck
    <2>2. p \in Pc BY DEF Pc
    <2>3. /\ thread'[t].pc = p
          /\ \A u \in Thread : u # t => thread'[u] = thread[u]
      BY <2>1, <2>2, GotoFields DEF Inv
    <2> QED BY <1>3, <2>1, <2>3, LateFrame DEF CheckAuthority, CheckIndex
  <1>4. CASE \/ ResumeUnapplied(t) \/ MkdirPresent(t)
             \/ PrepareWrite(t) \/ PrepareMkdir(t) \/ PrepareCommit(t)
             \/ CommandSeals(t)
             \/ ResumeApplied(t) /\ ReqOf(t).tool = "workspace_commit"
    <2>1. PICK p \in {"prepared", "publishing", "applied", "ref"} : Goto(t, p)
      BY <1>4 DEF ResumeUnapplied, MkdirPresent, PrepareWrite, PrepareMkdir,
         PrepareCommit, CommandSeals, ResumeApplied
    <2>2. p \in Pc /\ p \notin PastCheck BY DEF Pc, PastCheck
    <2>3. /\ thread'[t].pc = p
          /\ \A u \in Thread : u # t => thread'[u] = thread[u]
      BY <2>1, <2>2, GotoFields DEF Inv
    <2>4. UNCHANGED <<auth, late>>
      BY <1>4 DEF ResumeUnapplied, MkdirPresent, PrepareWrite, PrepareMkdir,
         PrepareCommit, CommandSeals, ResumeApplied
    <2> QED BY <2>2, <2>3, <2>4, LateFrame
  <1>5. CASE StartCommand(t)
    <2>1. UNCHANGED <<auth, late>> BY <1>5 DEF StartCommand
    <2>2. ASSUME NEW u \in Thread
          PROVE  thread'[u].pc \in PastCheck => thread[u].pc \in PastCheck
      <3> DEFINE s == IF ReqOf(t).path = None THEN None
                      ELSE fs[ReqOf(t).path]
      <3>1. thread' = [thread EXCEPT ![t].pc = "running", ![t].seen = s]
        BY <1>5 DEF StartCommand
      <3> HIDE DEF s
      <3>2. thread[t] \in ThreadRecord BY DEF Inv, TypeOK, ThreadRecord
      <3>3. CASE u = t
        BY <3>1, <3>2, <3>3 DEF ThreadRecord, Inv, TypeOK, PastCheck
      <3>4. CASE u # t BY <3>1, <3>4 DEF Inv, TypeOK
      <3> QED BY <3>3, <3>4
    <2> QED BY <2>1, <2>2, LateFrame
  <1>6. CASE \/ Replay(t) \/ RefusePlan(t) \/ ResumeConflict(t)
             \/ RefuseApply(t) \/ RefuseIndex(t) \/ Complete(t)
             \/ CommandCompletes(t) \/ CommandFails(t) \/ RecoverRunning(t)
             \/ ResumeApplied(t) /\ ReqOf(t).tool # "workspace_commit"
    <2>1. Leave(t) /\ UNCHANGED <<auth, late>>
      BY <1>6 DEF Replay, RefusePlan, ResumeConflict, RefuseApply,
         RefuseIndex, Complete, CommandCompletes, CommandFails,
         RecoverRunning, ResumeApplied, GiveUp
    <2> QED BY <2>1, LateFrame, LeaveFresh DEF Inv, Fresh, PastCheck
  <1> QED BY <1>1, <1>2, <1>3, <1>4, <1>5, <1>6 DEF Step

LEMMA NextLate ==
    ASSUME Inv, LateInv, [Next]_vars
    PROVE  LateInv'
  <1>1. ASSUME NEW t \in Thread, Step(t) PROVE LateInv' BY <1>1, StepLate
  <1>2. ASSUME NEW t \in Thread, Raise(t) \/ CommandUncertain(t)
        PROVE  LateInv'
    <2>1. Leave(t) /\ UNCHANGED <<auth, late>>
      BY <1>2 DEF Raise, CommandUncertain, GiveUp
    <2> QED BY <2>1, LateFrame, LeaveFresh DEF Inv, Fresh, PastCheck
  <1>3. ASSUME NEW c \in Client, NEW e \in Effect, NEW r \in Request,
               CallTool(c, e, r)
        PROVE  LateInv'
    BY <1>3, LateFrame DEF CallTool, PastCheck, Inv, TypeOK
  <1>4. ASSUME NEW e \in Effect, RecoverRecord(e) PROVE LateInv'
    BY <1>4, LateFrame DEF RecoverRecord, PastCheck, Inv, TypeOK
  <1>5. CASE StartDaemon \/ BecomeReady \/ UNCHANGED vars
    BY <1>5, LateFrame DEF StartDaemon, BecomeReady, vars
  <1>6. CASE Crash
    BY <1>6, LateFrame DEF Crash, Idle, PastCheck
  <1>7. CASE Lapse \/ Renew
    BY <1>7 DEF Lapse, Renew, LateInv
  <1>8. CASE External
    <2>1. \A t \in Thread : thread'[t].pc = thread[t].pc
      <3>1. \A t \in Thread : thread[t] \in ThreadRecord
        BY DEF Inv, TypeOK, ThreadRecord
      <3> QED BY <1>8, <3>1 DEF External, ThreadRecord
    <2> QED BY <1>8, <2>1, LateFrame DEF External
  <1> QED BY <1>1, <1>2, <1>3, <1>4, <1>5, <1>6, <1>7, <1>8 DEF Next

\* Once EffectAuthority.check has begun to fail at most one mutation still
\* lands, over all threads and however often the broker restarts.
THEOREM OneLateMutation == Spec => []AtMostOneLateMutation
  <1> DEFINE I == Inv /\ LateInv
  <1>1. Init => I
    BY InitInv DEF Init, LateInv, Idle
  <1>2. I /\ [Next]_vars => I' BY NextInv, NextLate
  <1>3. I => AtMostOneLateMutation BY DEF LateInv, AtMostOneLateMutation
  <1> HIDE DEF I
  <1> QED BY <1>1, <1>2, <1>3, PTL DEF Spec
=============================================================================
