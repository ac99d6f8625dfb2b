-------------------- MODULE EffectBrokerRefinementProofs --------------------
(***************************************************************************)
(* The proof that EffectBroker implements SerializedEffects in every       *)
(* behaviour in which nobody else touches the checkout.                    *)
(***************************************************************************)
EXTENDS EffectBrokerRefinement, EffectBrokerProofs

\* What the mapping looks at: steps that leave it alone stutter.
LEMMA Stutter ==
    ASSUME UNCHANGED <<journal, applied, fs, branch>>
    PROVE  UNCHANGED Promise!vars
  BY DEF Promise!vars, World, Status, Intent

\* A journaled record changes the status and the intent of its effect only.
LEMMA WriteAbstract ==
    ASSUME TypeOK, NEW t \in Thread, thread[t].pc # "idle", NEW rec,
           Write(t, rec), NEW e \in Effect, e = EffOf(t),
           UNCHANGED <<applied, fs, branch>>
    PROVE  /\ Status' = [Status EXCEPT ![e] = StatusOf(rec, applied[e])]
           /\ Intent' = [Intent EXCEPT ![e] = IntentOf(rec)]
           /\ Intent'[e] = IntentOf(rec)
           /\ Status[e] = StatusOf(RecOf(t), applied[e])
           /\ Intent[e] = IntentOf(RecOf(t))
           /\ World' = World
  <1>1. /\ journal'[e] = rec
        /\ \A f \in Effect : f # e => journal'[f] = journal[f]
    BY WriteFields
  <1>2. \A f \in Effect : Status'[f] = StatusOf(journal'[f], applied[f])
    BY DEF Status, StatusOf
  <1>3. \A f \in Effect : Intent'[f] = IntentOf(journal'[f])
    BY DEF Intent, IntentOf
  <1>4. World' = World BY DEF World
  <1>5. Status' = [Status EXCEPT ![e] = StatusOf(rec, applied[e])]
    BY <1>1, <1>2 DEF Status
  <1>6. Intent' = [Intent EXCEPT ![e] = IntentOf(rec)]
    BY <1>1, <1>3 DEF Intent
  <1> QED BY <1>1, <1>3, <1>4, <1>5, <1>6 DEF RecOf, Status, Intent

\* A plan names a cell, and the cell holds what the replay would compare.
LEMMA PlanCell ==
    ASSUME NEW rec, Pending(rec), ~Unplanned(rec), rec.req.path \in Path
    PROVE  /\ IntentOf(rec) # NoPlan
           /\ IntentOf(rec).cell \in Path \union {BranchCell}
           /\ IntentOf(rec).from = rec.pre /\ IntentOf(rec).to = rec.want
           /\ World[IntentOf(rec).cell] = Current(rec.req)
           /\ IntentOf(rec).cell = IF rec.req.tool = "workspace_commit"
                                   THEN BranchCell ELSE rec.req.path
  <1> DEFINE c == IF rec.req.tool = "workspace_commit" THEN BranchCell
                  ELSE rec.req.path
  <1>1. IntentOf(rec) = [cell |-> c, from |-> rec.pre, to |-> rec.want]
    BY DEF IntentOf
  <1>2. c \in Path \union {BranchCell} /\ c # None
    BY CellAssumption, SentinelAssumption
  <1>3. World[c] = Current(rec.req)
    BY <1>2, CellAssumption DEF World, Current
  <1> HIDE DEF c
  <1>4. IntentOf(rec).cell = c /\ IntentOf(rec).from = rec.pre
        /\ IntentOf(rec).to = rec.want
    BY <1>1
  <1>5. IntentOf(rec) # NoPlan BY <1>2, <1>4 DEF NoPlan
  <1> QED BY <1>2, <1>3, <1>4, <1>5 DEF c

\* With the gate passed and nothing journaled, no effect is open.
LEMMA NothingOpen ==
    ASSUME Inv, NEW t \in Thread, thread[t].pc # "idle",
           RecOf(t).state = "none"
    PROVE  Promise!Open = {}
  <1>1. \A f \in Effect : journal[f].state \notin UnresolvedState
    BY DEF Inv, GateInv, Unresolved, RecOf, UnresolvedState
  <1>2. \A f \in Effect : journal[f].state \in JournalState
    BY DEF Inv, TypeOK, Record
  <1>3. \A f \in Effect : Status[f] \notin {"open", "landed"}
    BY <1>1, <1>2 DEF Status, StatusOf, JournalState, UnresolvedState
  <1> QED BY <1>3 DEF Promise!Open

-----------------------------------------------------------------------------
(* Every step is a step of the promise, or shows nothing.                  *)

\* A fresh record begins its effect, with the plan formed on the cell's state
\* or, for a command, without one.
LEMMA BeginStep ==
    ASSUME Inv, RecordInv, Extern = 0, NEW t \in Thread,
           \/ PrepareWrite(t) \/ PrepareMkdir(t) \/ PrepareCommit(t)
           \/ StartCommand(t)
    PROVE  Promise!Next
  <1>0. thread[t].pc # "idle" /\ RecOf(t).state = "none"
    BY DEF PrepareWrite, PrepareMkdir, PrepareCommit, StartCommand, At
  <1>r. /\ EffOf(t) \in Effect
        /\ ReqOf(t).tool # "workspace_command" => ReqOf(t).path \in Path
    BY <1>0, RequestFacts DEF Inv
  <1>e. PICK e \in Effect : e = EffOf(t) BY <1>r
  <1>n. applied[e] = 0
    BY <1>0, <1>e DEF RecordInv, EffectInv, QuietRecord, RecOf
  <1>w. PICK rec :
          /\ Write(t, rec) /\ UNCHANGED <<applied, fs, branch>>
          /\ rec.state \in {"prepared", "running"} /\ rec.req = ReqOf(t)
          /\ \/ /\ rec.state = "running" /\ rec.pre = None
                /\ rec.req.tool = "workspace_command"
             \/ /\ rec.state = "prepared" /\ rec.pre = Current(rec.req)
                /\ rec.req.tool # "workspace_command"
    <2>1. CASE PrepareWrite(t)
      <3> WITNESS [state |-> "prepared", req |-> ReqOf(t),
                   pre |-> fs[ReqOf(t).path], want |-> ReqOf(t).value]
      <3> QED BY <2>1 DEF PrepareWrite, Current
    <2>2. CASE PrepareMkdir(t)
      <3> WITNESS [state |-> "prepared", req |-> ReqOf(t), pre |-> Absent,
                   want |-> Directory]
      <3> QED BY <2>2 DEF PrepareMkdir, Current
    <2>3. CASE PrepareCommit(t)
      <3> DEFINE p == ReqOf(t).path
                 want == Append(branch, [by |-> EffOf(t),
                                 tree |-> [TreeOf(branch) EXCEPT ![p] = fs[p]]])
                 rec == [state |-> "prepared", req |-> ReqOf(t),
                         pre |-> branch, want |-> want]
      <3>1. /\ Write(t, rec) /\ UNCHANGED <<applied, fs, branch>>
            /\ ReqOf(t).tool = "workspace_commit"
        BY <2>3 DEF PrepareCommit
      <3> HIDE DEF want
      <3>2. /\ rec.state = "prepared" /\ rec.req = ReqOf(t)
            /\ rec.pre = Current(rec.req)
        BY <3>1 DEF Current
      <3> HIDE DEF rec
      <3> QED BY <3>1, <3>2
    <2>4. CASE StartCommand(t)
      <3> WITNESS [state |-> "running", req |-> ReqOf(t), pre |-> None,
                   want |-> None]
      <3> QED BY <2>4 DEF StartCommand
    <2> QED BY <2>1, <2>2, <2>3, <2>4
  <1>1. /\ Status' = [Status EXCEPT ![e] = StatusOf(rec, applied[e])]
        /\ Intent' = [Intent EXCEPT ![e] = IntentOf(rec)]
        /\ Intent'[e] = IntentOf(rec)
        /\ Status[e] = StatusOf(RecOf(t), applied[e])
        /\ World' = World
    BY <1>0, <1>e, <1>w, WriteAbstract DEF Inv
  <1>2. StatusOf(rec, applied[e]) = "open" /\ Status[e] = "new"
    BY <1>0, <1>n, <1>w, <1>1 DEF StatusOf, UnresolvedState
  <1>3. IntentOf(rec) = NoPlan \/ IntentOf(rec).from = World[IntentOf(rec).cell]
    <2>1. CASE rec.state = "running" BY <1>w, <2>1 DEF IntentOf, Unplanned
    <2>2. CASE rec.state = "prepared"
      <3>1. /\ Pending(rec) /\ ~Unplanned(rec) /\ rec.req.path \in Path
            /\ rec.pre = Current(rec.req)
        BY <1>w, <1>r, <2>2 DEF Pending, Unplanned
      <3> QED BY <3>1, PlanCell
    <2> QED BY <1>w, <2>1, <2>2
  <1>4. Promise!Intends(e) BY <1>1, <1>3 DEF Promise!Intends
  <1>5. Promise!Begin(e)
    BY <1>0, <1>1, <1>2, <1>4, NothingOpen DEF Promise!Begin
  <1> QED BY <1>5 DEF Promise!Next

\* The sealed output of a command is its plan.
LEMMA PlanStep ==
    ASSUME Inv, RecordInv, Extern = 0, NEW t \in Thread, CommandSeals(t)
    PROVE  Promise!Next
  <1> DEFINE rec == [state |-> "publishing", req |-> ReqOf(t),
                     pre |-> thread[t].seen, want |-> ReqOf(t).value]
  <1>0. thread[t].pc = "running" /\ ReqOf(t).path # None
    BY DEF CommandSeals, At
  <1>r. EffOf(t) \in Effect /\ ReqOf(t).path \in Path
    BY <1>0, RequestFacts DEF Inv
  <1>e. PICK e \in Effect : e = EffOf(t) BY <1>r
  <1>a. /\ RecOf(t).state = "running" /\ RecOf(t).req = ReqOf(t)
        /\ ReqOf(t).tool = "workspace_command" /\ thread[t].seen \in Content
    BY <1>0 DEF Inv, PcInv, StepAgrees, ReqOf
  <1>q. applied[e] = 0 /\ RecOf(t).pre = None
    BY <1>a, <1>e DEF RecordInv, EffectInv, QuietRecord, RecOf
  <1>s. thread[t].seen = fs[ReqOf(t).path]
    <2>1. WorkInv(t) BY DEF RecordInv
    <2> QED BY <1>0, <2>1 DEF WorkInv, ReqOf
  <1>1. Write(t, rec) /\ UNCHANGED <<applied, fs, branch>>
    BY DEF CommandSeals
  <1>2. /\ rec.state = "publishing" /\ rec.req = ReqOf(t)
        /\ rec.pre = Current(rec.req) /\ rec.pre # None
    BY <1>a, <1>s, SentinelAssumption DEF Current
  <1> HIDE DEF rec
  <1>3. /\ Status' = [Status EXCEPT ![e] = StatusOf(rec, applied[e])]
        /\ Intent' = [Intent EXCEPT ![e] = IntentOf(rec)]
        /\ Intent'[e] = IntentOf(rec)
        /\ Status[e] = StatusOf(RecOf(t), applied[e])
        /\ Intent[e] = IntentOf(RecOf(t))
        /\ World' = World
    BY <1>0, <1>e, <1>1, WriteAbstract DEF Inv
  <1>4. Status[e] = "open" /\ StatusOf(rec, applied[e]) = "open"
    BY <1>3, <1>a, <1>q, <1>2 DEF StatusOf, UnresolvedState
  <1>5. Status' = Status BY <1>3, <1>4 DEF Status
  <1>6. Intent[e] = NoPlan BY <1>3, <1>a, <1>q DEF IntentOf, Unplanned
  <1>7. IntentOf(rec).from = World[IntentOf(rec).cell]
    <2>1. Pending(rec) /\ ~Unplanned(rec) /\ rec.req.path \in Path
      BY <1>2, <1>r DEF Pending, Unplanned
    <2> QED BY <1>2, <2>1, PlanCell
  <1>8. Promise!Intends(e) BY <1>3, <1>7 DEF Promise!Intends
  <1>9. Promise!Plan(e) BY <1>3, <1>4, <1>5, <1>6, <1>8 DEF Promise!Plan
  <1> QED BY <1>9 DEF Promise!Next

\* The record of a thread that may mutate has a plan.
LEMMA Planned ==
    ASSUME Inv, RecordInv, NEW t \in Thread, Pending(RecOf(t)),
           RecOf(t).req = ReqOf(t), thread[t].pc # "idle"
    PROVE  ~Unplanned(RecOf(t)) /\ ReqOf(t).path \in Path
  <1>1. /\ EffOf(t) \in Effect /\ RecordShape(RecOf(t))
        /\ ReqOf(t).tool # "workspace_command" => ReqOf(t).path \in Path
    BY RequestFacts DEF Inv
  <1>2. QuietRecord(RecOf(t), applied[EffOf(t)])
    BY <1>1 DEF RecordInv, EffectInv, RecOf
  <1>3. RecOf(t).state = "publishing" =>
           RecOf(t).pre \in Content /\ ReqOf(t).path \in Path
    BY <1>1, <1>2 DEF RecordShape, QuietRecord
  <1> QED BY <1>1, <1>3, SentinelAssumption DEF Unplanned, Pending, RecordShape

\* The replaced file, the new directory or the moved branch is the landing.
LEMMA LandStep ==
    ASSUME Inv, RecordInv, Extern = 0, NEW t \in Thread, Apply(t)
    PROVE  Promise!Next
  <1>0. thread[t].pc = "checked" BY DEF Apply, At
  <1>e. PICK e \in Effect : e = EffOf(t) BY <1>0, PendingFacts
  <1>f. /\ thread[t].eff = e /\ thread[t].req = ReqOf(t)
        /\ Pending(RecOf(t)) /\ RecOf(t).req = ReqOf(t)
        /\ RecOf(t) = journal[e] /\ WorkInv(t) /\ thread[t].pc # "idle"
    BY <1>0, <1>e, PendingFacts
  <1>p. ~Unplanned(RecOf(t)) /\ ReqOf(t).path \in Path
    BY <1>f, Planned
  <1> DEFINE rec == RecOf(t)
             c == IntentOf(rec).cell
  <1>1. applied[e] \in Nat /\ applied[e] = 0
    <2>1. applied[e] \in Nat BY DEF Inv, TypeOK
    <2>2. applied[e] <= 0 BY <1>0, <1>f DEF WorkInv
    <2> QED BY <2>1, <2>2
  <1>2. Current(rec.req) = rec.pre
    BY <1>0, <1>f DEF WorkInv
  <1>3. /\ IntentOf(rec) # NoPlan /\ c \in Path \union {BranchCell}
        /\ IntentOf(rec).from = rec.pre /\ IntentOf(rec).to = rec.want
        /\ World[c] = Current(rec.req)
        /\ c = IF ReqOf(t).tool = "workspace_commit" THEN BranchCell
               ELSE ReqOf(t).path
    BY <1>f, <1>p, PlanCell
  <1>4. Intent[e] = IntentOf(rec) /\ Status[e] = "open"
    BY <1>1, <1>f DEF Intent, Status, StatusOf, Pending, UnresolvedState
  <1>5. journal' = journal /\ applied' = [applied EXCEPT ![e] = @ + 1]
    BY <1>e DEF Apply, Landed
  <1>6. Intent' = Intent BY <1>5 DEF Intent
  <1>7. Status' = [Status EXCEPT ![e] = "landed"]
    <2>1. /\ applied'[e] = 1
          /\ \A f \in Effect : f # e => applied'[f] = applied[f]
      BY <1>1, <1>5 DEF Inv, TypeOK
    <2>2. Status'[e] = "landed"
      BY <2>1, <1>5, <1>f DEF Status, StatusOf, Pending, UnresolvedState
    <2>3. \A f \in Effect : f # e => Status'[f] = Status[f]
      BY <2>1, <1>5 DEF Status
    <2> QED BY <2>2, <2>3 DEF Status
  <1>8. World' = [World EXCEPT ![c] = rec.want]
    <2>1. CASE ReqOf(t).tool = "workspace_commit"
      <3>1. branch' = rec.want /\ fs' = fs /\ c = BranchCell
        BY <2>1, <1>3 DEF Apply
      <3> HIDE DEF rec, c
      <3> QED BY <3>1 DEF World
    <2>2. CASE ReqOf(t).tool # "workspace_commit"
      <3>1. fs' = [fs EXCEPT ![c] = rec.want] /\ branch' = branch
            /\ c = ReqOf(t).path
        BY <2>2, <1>3 DEF Apply
      <3>2. c \in Path /\ c # BranchCell BY <3>1, <1>p, CellAssumption
      <3>3. fs \in Tree BY DEF Inv, TypeOK
      <3> HIDE DEF rec, c
      <3> QED BY <3>1, <3>2, <3>3 DEF World, Tree
    <2> QED BY <2>1, <2>2
  <1>9. Promise!Land(e)
    BY <1>2, <1>3, <1>4, <1>6, <1>7, <1>8 DEF Promise!Land
  <1> QED BY <1>9 DEF Promise!Next

\* Closing a record ends its effect: done, once it has landed or had nothing
\* to change, or failed, before it had a plan.
LEMMA FinishStep ==
    ASSUME Inv, RecordInv, Extern = 0, NEW t \in Thread,
           \/ Complete(t) \/ CommandCompletes(t)
           \/ ResumeApplied(t) /\ ReqOf(t).tool # "workspace_commit"
    PROVE  Promise!Next
  <1> DEFINE rec == [RecOf(t) EXCEPT !.state = "completed"]
  <1>0. thread[t].pc # "idle"
    BY DEF Complete, CommandCompletes, ResumeApplied, Resuming, At
  <1>r. EffOf(t) \in Effect /\ RecOf(t) \in Record
    BY <1>0, RequestFacts DEF Inv
  <1>e. PICK e \in Effect : e = EffOf(t) BY <1>r
  <1>q. /\ EffectInv(e) /\ RecOf(t) = journal[e] /\ applied[e] \in Nat
        /\ WorkInv(t)
    BY <1>e DEF RecordInv, RecOf, Inv, TypeOK
  <1>1. Write(t, rec) /\ UNCHANGED <<applied, fs, branch>>
    BY DEF Complete, CommandCompletes, ResumeApplied
  <1>2. /\ rec.state = "completed" /\ rec.req = RecOf(t).req
        /\ rec.pre = RecOf(t).pre /\ rec.want = RecOf(t).want
    BY <1>r DEF Record
  <1> HIDE DEF rec
  <1>3. /\ Status' = [Status EXCEPT ![e] = StatusOf(rec, applied[e])]
        /\ Intent' = [Intent EXCEPT ![e] = IntentOf(rec)]
        /\ Status[e] = StatusOf(RecOf(t), applied[e])
        /\ Intent[e] = IntentOf(RecOf(t))
        /\ World' = World
    BY <1>0, <1>e, <1>1, WriteAbstract DEF Inv
  <1>4. RecOf(t).state \in UnresolvedState
    BY DEF Complete, CommandCompletes, ResumeApplied, Resuming, At, Inv, PcInv,
           StepAgrees, UnresolvedState
  <1>5. IntentOf(rec) = IntentOf(RecOf(t))
    BY <1>2, <1>4 DEF IntentOf, Unplanned, UnresolvedState
  <1>6. UNCHANGED <<World, Intent>> BY <1>3, <1>5 DEF Intent
  <1>7. StatusOf(rec, applied[e]) = "done"
    BY <1>2 DEF StatusOf, UnresolvedState
  <1>8. Status[e] = IF applied[e] = 0 THEN "open" ELSE "landed"
    BY <1>3, <1>4 DEF StatusOf, UnresolvedState
  <1>9. \/ Status[e] = "landed"
        \/ Status[e] = "open" /\ Intent[e] = NoPlan
        \/ Status[e] = "open" /\ Intent[e].from = Intent[e].to
    <2>1. CASE CommandCompletes(t)
      <3>1. RecOf(t).state = "running" /\ RecOf(t).req.tool = "workspace_command"
        BY <2>1 DEF CommandCompletes, Inv, PcInv, StepAgrees, At
      <3>2. RecOf(t).pre = None
        BY <3>1, <1>q DEF EffectInv, QuietRecord
      <3>3. Intent[e] = NoPlan
        BY <3>1, <3>2, <1>3 DEF IntentOf, Unplanned
      <3> QED BY <1>8, <3>3
    <2>2. CASE \/ Complete(t)
               \/ ResumeApplied(t) /\ ReqOf(t).tool # "workspace_commit"
      <3>1. /\ Pending(RecOf(t)) /\ RecOf(t).req = ReqOf(t)
            /\ thread[t].req = ReqOf(t) /\ thread[t].eff = e
        BY <2>2, <1>e, PendingFacts DEF Complete, ResumeApplied, At
      <3>2. Current(RecOf(t).req) = RecOf(t).want
        <4>1. CASE Complete(t)
          BY <4>1, <1>q, <3>1 DEF Complete, WorkInv, At
        <4>2. CASE ResumeApplied(t) BY <4>2, <3>1 DEF ResumeApplied
        <4> QED BY <2>2, <4>1, <4>2
      <3>3. RecOf(t).pre # RecOf(t).want => applied[e] = 1
        BY <3>1, <3>2, <1>q DEF EffectInv, Landable
      <3>4. /\ ~Unplanned(RecOf(t)) /\ RecOf(t).req.path \in Path
        BY <1>0, <3>1, Planned
      <3>5. /\ Intent[e].from = RecOf(t).pre /\ Intent[e].to = RecOf(t).want
        BY <1>3, <3>1, <3>4, PlanCell
      <3> QED BY <1>8, <3>3, <3>5
    <2> QED BY <2>1, <2>2
  <1>10. Promise!Finish(e)
    BY <1>3, <1>6, <1>7, <1>9 DEF Promise!Finish
  <1> QED BY <1>10 DEF Promise!Next

LEMMA FailStep ==
    ASSUME Inv, RecordInv, NEW t \in Thread, CommandFails(t) \/ RecoverRunning(t)
    PROVE  Promise!Next
  <1> DEFINE rec == [RecOf(t) EXCEPT !.state = "failed"]
  <1>0. thread[t].pc # "idle" BY DEF CommandFails, RecoverRunning, At
  <1>r. EffOf(t) \in Effect /\ RecOf(t) \in Record /\ RecordShape(RecOf(t))
    BY <1>0, RequestFacts DEF Inv
  <1>e. PICK e \in Effect : e = EffOf(t) BY <1>r
  <1>1. Write(t, rec) /\ UNCHANGED <<applied, fs, branch>>
    BY DEF CommandFails, RecoverRunning
  <1>2. /\ rec.state = "failed" /\ rec.req = RecOf(t).req
        /\ rec.pre = RecOf(t).pre
    BY <1>r DEF Record
  <1> HIDE DEF rec
  <1>3. /\ Status' = [Status EXCEPT ![e] = StatusOf(rec, applied[e])]
        /\ Intent' = [Intent EXCEPT ![e] = IntentOf(rec)]
        /\ Status[e] = StatusOf(RecOf(t), applied[e])
        /\ Intent[e] = IntentOf(RecOf(t))
        /\ World' = World
    BY <1>0, <1>e, <1>1, WriteAbstract DEF Inv
  <1>4. RecOf(t).state = "running" /\ RecOf(t).req.tool = "workspace_command"
    BY <1>r DEF CommandFails, RecoverRunning, At, Inv, PcInv, StepAgrees,
       RecordShape
  <1>5. applied[e] = 0 /\ RecOf(t).pre = None
    BY <1>4, <1>e DEF RecordInv, EffectInv, QuietRecord, RecOf
  <1>6. IntentOf(rec) = NoPlan /\ Intent[e] = NoPlan
    BY <1>2, <1>3, <1>4, <1>5 DEF IntentOf, Unplanned
  <1>7. UNCHANGED <<World, Intent>> BY <1>3, <1>6 DEF Intent
  <1>8. StatusOf(rec, applied[e]) = "failed" /\ Status[e] = "open"
    BY <1>2, <1>3, <1>4, <1>5 DEF StatusOf, UnresolvedState
  <1>9. Promise!Fail(e) BY <1>3, <1>6, <1>7, <1>8 DEF Promise!Fail
  <1> QED BY <1>9 DEF Promise!Next

\* Every step of the broker is a step of the promise or shows nothing.
LEMMA NextRefines ==
    ASSUME Inv, RecordInv, Extern = 0, [Next]_vars, Extern' = 0
    PROVE  [Promise!Next]_(Promise!vars)
  <1>1. ASSUME NEW t \in Thread, Step(t)
        PROVE  Promise!Next \/ UNCHANGED <<journal, applied, fs, branch>>
    <2>1. CASE \/ PrepareWrite(t) \/ PrepareMkdir(t) \/ PrepareCommit(t)
               \/ StartCommand(t)
      BY <2>1, BeginStep
    <2>2. CASE CommandSeals(t) BY <2>2, PlanStep
    <2>3. CASE Apply(t) BY <2>3, LandStep
    <2>4. CASE \/ Complete(t) \/ CommandCompletes(t)
               \/ ResumeApplied(t) /\ ReqOf(t).tool # "workspace_commit"
      BY <2>4, FinishStep
    <2>5. CASE CommandFails(t) \/ RecoverRunning(t) BY <2>5, FailStep
    <2>6. CASE \/ Replay(t) \/ RefusePlan(t) \/ ResumeUnapplied(t)
               \/ ResumeConflict(t) \/ CheckAuthority(t) \/ MkdirPresent(t)
               \/ RefuseApply(t) \/ CheckIndex(t) \/ RefuseIndex(t)
               \/ ResetIndex(t)
               \/ ResumeApplied(t) /\ ReqOf(t).tool = "workspace_commit"
      BY <2>6 DEF Replay, RefusePlan, ResumeUnapplied, ResumeConflict,
         CheckAuthority, MkdirPresent, RefuseApply, CheckIndex, RefuseIndex,
         ResetIndex, ResumeApplied
    <2> QED BY <1>1, <2>1, <2>2, <2>3, <2>4, <2>5, <2>6 DEF Step
  <1>2. ~External
    <2>1. faults \in [crash: Nat, lapse: Nat, raise: Nat, extern: Nat]
      BY DEF Inv, TypeOK
    <2> QED BY <2>1 DEF External, Extern
  <1>3. Promise!Next \/ UNCHANGED <<journal, applied, fs, branch>>
    BY <1>1, <1>2 DEF Next, CallTool, Raise, CommandUncertain, RecoverRecord,
       StartDaemon, BecomeReady, Crash, Lapse, Renew, vars
  <1> QED BY <1>3, Stutter

LEMMA InitRefines == Init => Promise!Init
  <1> SUFFICES ASSUME Init PROVE Promise!Init OBVIOUS
  <1>1. \A e \in Effect : journal[e] = NoRecord BY DEF Init
  <1>2. Status = [e \in Effect |-> "new"]
    BY <1>1 DEF Status, StatusOf, NoRecord, UnresolvedState
  <1>3. Intent = [e \in Effect |-> NoPlan]
    BY <1>1 DEF Intent, IntentOf, Unplanned, NoRecord
  <1> QED BY <1>2, <1>3 DEF Promise!Init

\* The broker, with its retries, crashes, recoveries, lapses and errors, shows
\* its callers serialized effects, each landing at most once and atomically,
\* in every behaviour in which nobody else touches the checkout.
THEOREM BrokerRefines == Spec /\ [](Extern = 0) => ImplementsPromise
  <1>1. SafeInv /\ Extern = 0 /\ [Next]_vars /\ (Extern = 0)'
          => [Promise!Next]_(Promise!vars)
    BY NextRefines DEF SafeInv
  <1> QED BY <1>1, InitRefines, RecordInvariance, PTL
          DEF Spec, ImplementsPromise, Promise!Spec

\* In particular when foreign changes are ruled out altogether.
THEOREM BrokerRefinesAlone == ASSUME MaxExternal = 0
                              PROVE  Spec => ImplementsPromise
  <1>1. Init => Extern = 0 BY DEF Init, Extern
  <1>2. Inv /\ Extern = 0 /\ [Next]_vars => (Extern = 0)'
    <2> SUFFICES ASSUME Inv, Extern = 0, [Next]_vars PROVE Extern' = 0
      OBVIOUS
    <2>f. faults \in [crash: Nat, lapse: Nat, raise: Nat, extern: Nat]
      BY DEF Inv, TypeOK
    <2>1. ~External BY DEF External, Extern
    <2>2. ASSUME NEW t \in Thread, Step(t) PROVE faults' = faults
      BY <2>2 DEF Step, Replay, PrepareWrite, PrepareMkdir, PrepareCommit,
         RefusePlan, ResumeApplied, ResumeUnapplied, ResumeConflict,
         CheckAuthority, MkdirPresent, RefuseApply, Apply, CheckIndex,
         RefuseIndex, ResetIndex, Complete, StartCommand, CommandCompletes,
         CommandSeals, CommandFails, RecoverRunning
    <2>3. \/ faults' = faults
          \/ faults' = [faults EXCEPT !.raise = @ + 1]
          \/ faults' = [faults EXCEPT !.crash = @ + 1]
          \/ faults' = [faults EXCEPT !.lapse = @ + 1]
      BY <2>1, <2>2 DEF Next, CallTool, Raise, CommandUncertain,
         RecoverRecord, StartDaemon, BecomeReady, Crash, Lapse, Renew, vars
    <2> QED BY <2>f, <2>3 DEF Extern
  <1>3. Spec => [](Extern = 0) BY <1>1, <1>2, Invariance, PTL DEF Spec
  <1> QED BY <1>3, BrokerRefines, PTL
=============================================================================
