------------------------ MODULE ScribeAdmissionProofs ------------------------
(***************************************************************************)
(* Proofs about ScribeAdmission, for every number of candidates, launched  *)
(* processes and events of the environment.                                *)
(***************************************************************************)
EXTENDS ScribeAdmission, SequenceTheorems, TLAPS

RollbackPc == {"revoke", "quiesce", "archive", "probe", "write"} \union Archive
TickPc == {"idle", "judge", "renew", "lease", "request", "epoch", "complete",
           "load", "intent", "restart"} \union RollbackPc
OperatorPc == {"idle", "load"} \union RollbackPc
CommandPc == {"idle", "file", "admitLease", "admitBinding"}

\* Who is under way knows its candidate, which was admitted before a lease or a
\* pointer could name it, and ACTIVE.json is never lost again.
ActInv ==
    /\ active.kind # "missing" => active.c \in Admitted
    /\ act["tick"].pc \in TickPc
    /\ act["tick"].pc # "idle" => active.kind # "missing" /\ act["tick"].c \in Admitted
    /\ act["operator"].pc \in OperatorPc
    /\ act["operator"].pc # "idle" => active.kind # "missing"
    /\ act["operator"].pc \in RollbackPc => act["operator"].c \in Admitted
    /\ act["command"].pc \in CommandPc
    /\ act["command"].pc # "idle" => act["command"].c \in DOMAIN cand
    /\ act["command"].pc \in {"admitLease", "admitBinding"} => act["command"].c \in Admitted

\* The epoch of c is over; and so is its process.
Closed(c) == cand[c].adm = "revoked" /\ cand[c].session = "ended"
Stopped(c) == Closed(c) /\ proc[cand[c].proc] = "dead"
Over(a, c) == Stopped(c) /\ \E d \in ArchivesOf(a) : once[d][c] = "done"

\* A receipt is that of an epoch that is over, whose binding its roller may have
\* archived; an intent lies beside the supervisor's receipt, and a revoked
\* pointer beside the archive that it names.
Artifacts ==
    /\ \A a \in Roller, c \in Cand : once[a][c] = "done" => c \in DOMAIN cand /\ Over(a, c)
    /\ \A c \in Cand : once["intent"][c] = "done" => once["tick"][c] = "done"
    /\ active.kind \in Archive => once[active.kind][active.c] = "done"

\* A rollback under way has already made what its next step relies on.
Underway(a) ==
    LET c == act[a].c
        pc == act[a].pc
    IN  /\ pc = "quiesce" => Closed(c)
        /\ pc = "archive" => Stopped(c)
        /\ pc \in Archive => Stopped(c) /\ pc \in ArchivesOf(a) /\ once[pc][c] = "done"
        /\ pc \in {"probe", "write", "intent", "restart"} => Over(a, c)
        /\ pc \in {"intent", "restart"} => once["tick"][c] = "done"

\* The candidate c completes the restart that is requested.
Completes(c) ==
    /\ c \in Admitted /\ cand[c].prior = request.prior
    /\ cand[c].intent = "consumed" /\ once["epoch"][c] = "done"

RestartInv ==
    /\ act["tick"].pc = "complete" => Completes(act["tick"].c)
    /\ request.state = "completed" => \E c \in Admitted : Completes(c)

\* A recovery row follows a receipted epoch; one that was admitted has consumed
\* its intent, and of the rows that follow one epoch only one is not abandoned.
Open(c) == cand[c].intent \in {"prepared", "consumed"}
RecoveryRow(c) ==
    LET i == cand[c].prior
    IN  i # 0 => /\ once["intent"][i] = "done" /\ cand[c].epoch = cand[i].epoch + 1
                 /\ cand[c].adm # "none" => cand[c].intent = "consumed"

RowInv ==
    /\ \A c \in DOMAIN cand : RecoveryRow(c)
    /\ \A c, d \in DOMAIN cand :
           cand[c].prior # 0 /\ cand[d].prior = cand[c].prior /\ Open(c) /\ Open(d) => d = c

\* The runtime lock belongs to a launch that took it and lives, or to the
\* children of one that took it and died; every candidate was prepared for a
\* launch that held the lock then.
LockPc == {"waiting", "bound", "serving"}
LockInv ==
    /\ \A p \in Launch : proc[p] \in LockPc => holder = p
    /\ holder # 0 => proc[holder] \in LockPc \union {"dead"}
    /\ \A c \in DOMAIN cand : proc[cand[c].proc] \in LockPc \union {"dead"}

\* An admitted row has the last epoch, and a live one does.
EpochInv ==
    /\ Admitted # {} =>
           \E m \in Admitted : \A c \in Admitted : cand[c].epoch <= cand[m].epoch
    /\ \A m \in Live : \A c \in Admitted : cand[c].epoch <= cand[m].epoch

\* What the first launch leaves behind, and how far each launch has got with it.
Whole == home.workspace /\ home.target /\ home.receipt /\ ~home.empty
HomeInv ==
    /\ \A p \in Launch :
         /\ proc[p] \in {"placed", "moved"} => home.workspace /\ ~home.empty
         /\ proc[p] = "moved" => home.target
         /\ proc[p] \in {"ready"} \union LockPc => Whole
    /\ bootstrap # 0 => Whole
    /\ DOMAIN cand # {} => bootstrap # 0
    /\ request # NoRequest => Whole

\* Every change of the workspace is an event.
CanonInv == canon <= events

Inv ==
    /\ TypeOK /\ ActInv /\ Artifacts /\ Underway("tick") /\ Underway("operator")
    /\ RestartInv /\ RowInv /\ LockInv /\ EpochInv /\ HomeInv /\ CanonInv

-----------------------------------------------------------------------------
(* How the rows may change.                                                *)

\* One row: its identity is fixed, and what has ended stays ended.
RowStep(old, new) ==
    /\ new.epoch = old.epoch /\ new.proc = old.proc /\ new.prior = old.prior
    /\ old.session = "ended" => new.session = "ended"
    /\ old.adm = "revoked" => new.adm = "revoked"
    /\ old.adm # "none" => new.adm # "none"
    /\ \/ new.intent = old.intent
       \/ old.intent = "prepared" /\ new.intent \in {"consumed", "abandoned"}

\* All rows: none is lost.
RowsStep ==
    /\ cand' \in Seq(CandRow) /\ Len(cand') <= MaxCand
    /\ Len(cand) <= Len(cand') /\ DOMAIN cand \subseteq DOMAIN cand'
    /\ \A c \in DOMAIN cand : RowStep(cand[c], cand'[c])

\* No row is admitted, none is new, and every intent stays what it was.
NoneAdmitted ==
    /\ Len(cand') = Len(cand) /\ DOMAIN cand' = DOMAIN cand
    /\ Admitted' = Admitted /\ Live' \subseteq Live
    /\ \A c \in DOMAIN cand : cand'[c].intent = cand[c].intent

LEMMA Bounds == MaxCand \in Nat /\ MaxLaunch \in Nat /\ MaxEvents \in Nat
  BY BoundAssumption

\* The rows are a finite sequence.
LEMMA Domain ==
    ASSUME TypeOK
    PROVE  /\ Len(cand) \in Nat /\ DOMAIN cand = 1 .. Len(cand)
           /\ \A c \in DOMAIN cand :
                 /\ c \in Nat /\ c # 0 /\ c \in Cand /\ c \in 0 .. Len(cand)
                 /\ cand[c] \in CandRow
           /\ Admitted \subseteq DOMAIN cand /\ Live \subseteq Admitted
  <1>1. Len(cand) \in Nat /\ DOMAIN cand = 1 .. Len(cand) BY DEF TypeOK
  <1>2. ASSUME NEW c \in DOMAIN cand
        PROVE  /\ c \in Nat /\ c # 0 /\ c \in Cand /\ c \in 0 .. Len(cand)
               /\ cand[c] \in CandRow
    BY <1>1, <1>2, Bounds DEF TypeOK, Cand
  <1>3. Admitted \subseteq DOMAIN cand /\ Live \subseteq Admitted BY DEF Admitted, Live
  <1> QED BY <1>1, <1>2, <1>3

\* Replacing one row.
LEMMA ReplaceRow ==
    ASSUME TypeOK, NEW c \in DOMAIN cand, NEW row \in CandRow,
           RowStep(cand[c], row), cand' = [cand EXCEPT ![c] = row]
    PROVE  /\ RowsStep /\ cand'[c] = row
           /\ Len(cand') = Len(cand) /\ DOMAIN cand' = DOMAIN cand
           /\ \A d \in DOMAIN cand : d # c => cand'[d] = cand[d]
  <1>1. cand \in Seq(CandRow) /\ Len(cand) <= MaxCand BY DEF TypeOK
  <1>2. /\ cand' \in Seq(CandRow) /\ Len(cand') = Len(cand)
        /\ cand'[c] = row /\ DOMAIN cand' = DOMAIN cand
        /\ \A d \in DOMAIN cand : d # c => cand'[d] = cand[d]
    BY <1>1
  <1>3. \A d \in DOMAIN cand : RowStep(cand[d], cand'[d])
    BY <1>2 DEF RowStep
  <1> QED BY <1>1, <1>2, <1>3, Domain DEF RowsStep

\* Replacing one row without admitting it.
LEMMA RewriteRow ==
    ASSUME TypeOK, NEW c \in DOMAIN cand, NEW row \in CandRow,
           RowStep(cand[c], row), cand' = [cand EXCEPT ![c] = row],
           row.intent = cand[c].intent,
           row.adm = cand[c].adm \/ (row.adm = "revoked" /\ cand[c].adm # "none")
    PROVE  RowsStep /\ NoneAdmitted
  <1>1. /\ RowsStep /\ cand'[c] = row
        /\ Len(cand') = Len(cand) /\ DOMAIN cand' = DOMAIN cand
        /\ \A d \in DOMAIN cand : d # c => cand'[d] = cand[d]
    BY ReplaceRow
  <1>2. Admitted' = Admitted BY <1>1 DEF Admitted
  <1>3. Live' \subseteq Live BY <1>1 DEF Live
  <1>4. \A d \in DOMAIN cand : cand'[d].intent = cand[d].intent BY <1>1
  <1> QED BY <1>1, <1>2, <1>3, <1>4 DEF NoneAdmitted

\* Leaving all rows alone.
LEMMA SameRows ==
    ASSUME TypeOK, cand' = cand
    PROVE  RowsStep /\ NoneAdmitted
  <1>1. Len(cand) \in Nat BY Domain
  <1> QED BY <1>1 DEF RowsStep, RowStep, NoneAdmitted, TypeOK, Admitted, Live

\* Opening a session: some sessions end, and one candidate is added.
LEMMA OpenSessionRows ==
    ASSUME TypeOK, NEW Ended, NEW epoch \in Nat, NEW prior \in 0 .. Len(cand),
           bootstrap \in Launch, OpenSession(Ended, epoch, prior)
    PROVE  /\ RowsStep /\ Len(cand') = Len(cand) + 1
           /\ DOMAIN cand' = DOMAIN cand \union {Len(cand) + 1}
           /\ Len(cand) + 1 \notin DOMAIN cand
           /\ cand'[Len(cand) + 1] = NewCand(epoch, prior)
           /\ \A c \in DOMAIN cand :
                 /\ cand'[c].adm = cand[c].adm
                 /\ c \in Ended /\ prior # 0 /\ cand[c].intent = "prepared" =>
                       cand'[c].intent = "abandoned"
           /\ Admitted' = Admitted /\ Live' = Live
  <1> DEFINE f == [c \in DOMAIN cand |->
                     IF c \in Ended
                     THEN [cand[c] EXCEPT !.session = "ended",
                               !.intent = IF @ = "prepared" /\ prior # 0
                                          THEN "abandoned" ELSE @]
                     ELSE cand[c]]
             new == NewCand(epoch, prior)
             n == Len(cand)
  <1>0. n \in Nat /\ DOMAIN cand = 1 .. n /\ n < MaxCand
    BY Domain DEF OpenSession
  <1>1. ASSUME NEW c \in DOMAIN cand
        PROVE  /\ f[c] \in CandRow /\ RowStep(cand[c], f[c])
               /\ f[c].adm = cand[c].adm
               /\ c \in Ended /\ prior # 0 /\ cand[c].intent = "prepared" =>
                     f[c].intent = "abandoned"
    <2>1. cand[c] \in CandRow BY Domain
    <2>2. CASE c \in Ended
      <3> DEFINE i == IF cand[c].intent = "prepared" /\ prior # 0
                      THEN "abandoned" ELSE cand[c].intent
      <3>1. f[c] = [cand[c] EXCEPT !.session = "ended", !.intent = i] BY <2>2
      <3>2. /\ i \in {"none", "prepared", "consumed", "abandoned"}
            /\ i = cand[c].intent \/ (cand[c].intent = "prepared" /\ i = "abandoned")
            /\ prior # 0 /\ cand[c].intent = "prepared" => i = "abandoned"
        BY <2>1 DEF CandRow
      <3> HIDE DEF i, f
      <3> QED BY <2>1, <3>1, <3>2 DEF CandRow, RowStep
    <2>3. CASE c \notin Ended BY <2>1, <2>3 DEF RowStep
    <2> QED BY <2>2, <2>3
  <1>2. new \in CandRow
    BY <1>0, Bounds DEF NewCand, CandRow
  <1>3. f \in Seq(CandRow) /\ Len(f) = n
    <2>1. f \in [1 .. n -> CandRow] BY <1>0, <1>1
    <2> HIDE DEF f
    <2> QED BY <1>0, <2>1, SeqDef
  <1> HIDE DEF f, new
  <1>4. /\ Append(f, new) \in Seq(CandRow) /\ Len(Append(f, new)) = n + 1
        /\ Append(f, new)[n + 1] = new
        /\ \A c \in 1 .. n : Append(f, new)[c] = f[c]
        /\ DOMAIN Append(f, new) = 1 .. n + 1
    BY <1>0, <1>2, <1>3
  <1>5. cand' = Append(f, new) BY DEF OpenSession, f, new
  <1>6. /\ DOMAIN cand' = DOMAIN cand \union {n + 1}
        /\ n + 1 \notin DOMAIN cand /\ DOMAIN cand \subseteq DOMAIN cand'
    BY <1>0, <1>4, <1>5
  <1>7. \A c \in DOMAIN cand : cand'[c] = f[c] BY <1>0, <1>4, <1>5
  <1>8. RowsStep
    BY <1>0, <1>1, <1>4, <1>5, <1>6, <1>7, Bounds DEF RowsStep
  <1>9. cand'[n + 1] = new /\ new.adm = "none" BY <1>4, <1>5 DEF new, NewCand
  <1>10. \A c \in DOMAIN cand : cand'[c].adm = cand[c].adm BY <1>1, <1>7
  <1>11. Admitted' = Admitted /\ Live' = Live
    BY <1>6, <1>9, <1>10 DEF Admitted, Live
  <1> QED BY <1>1, <1>4, <1>5, <1>6, <1>7, <1>8, <1>10, <1>11 DEF new

Rewrites ==
    \/ TickRenew
    \/ \E a \in Roller : RollbackRevoke(a)
    \/ \E c \in DOMAIN cand : LeaseLapses(c)

\* The transactions that rewrite one row admit nothing.
LEMMA RewriteRows ==
    ASSUME TypeOK, ActInv, Rewrites
    PROVE  RowsStep /\ NoneAdmitted
  <1>1. ASSUME NEW c \in DOMAIN cand, NEW l \in {"first", "held", "lapsed"},
               cand' = [cand EXCEPT ![c].lease = l]
        PROVE  RowsStep /\ NoneAdmitted
    <2> DEFINE row == [cand[c] EXCEPT !.lease = l]
    <2>1. cand[c] \in CandRow BY Domain
    <2>2. /\ row \in CandRow /\ RowStep(cand[c], row) /\ row.adm = cand[c].adm
          /\ row.intent = cand[c].intent
      BY <2>1 DEF CandRow, RowStep
    <2>3. cand' = [cand EXCEPT ![c] = row] BY <1>1
    <2> HIDE DEF row
    <2> QED BY <2>2, <2>3, RewriteRow
  <1>2. CASE \E c \in DOMAIN cand : LeaseLapses(c)
    BY <1>1, <1>2 DEF LeaseLapses
  <1>3. CASE TickRenew
    <2> DEFINE c == act["tick"].c
               l == IF cand[c].lease = "lapsed" THEN "held" ELSE cand[c].lease
    <2>1. c \in DOMAIN cand BY <1>3, Domain DEF TickRenew, At, ActInv
    <2>2. l \in {"first", "held", "lapsed"} BY <2>1, Domain DEF CandRow
    <2>3. cand' = cand \/ cand' = [cand EXCEPT ![c].lease = l]
      BY <1>3 DEF TickRenew
    <2> HIDE DEF l, c
    <2> QED BY <1>1, <2>1, <2>2, <2>3, SameRows
  <1>4. CASE \E a \in Roller : RollbackRevoke(a)
    <2>1. PICK a \in Roller : RollbackRevoke(a) BY <1>4
    <2> DEFINE c == act[a].c
               row == [cand[c] EXCEPT !.adm = "revoked", !.session = "ended"]
    <2>2. c \in Admitted
      BY <2>1 DEF RollbackRevoke, At, ActInv, RollbackPc, Roller, Archive
    <2>3. c \in DOMAIN cand /\ cand[c] \in CandRow /\ cand[c].adm # "none"
      BY <2>2, Domain DEF Admitted
    <2>4. /\ row \in CandRow /\ RowStep(cand[c], row) /\ row.adm = "revoked"
          /\ row.intent = cand[c].intent
      BY <2>3 DEF CandRow, RowStep
    <2>5. cand' = [cand EXCEPT ![c] = row] BY <2>1 DEF RollbackRevoke
    <2> HIDE DEF row, c
    <2> QED BY <2>3, <2>4, <2>5, RewriteRow
  <1> QED BY <1>2, <1>3, <1>4 DEF Rewrites

\* The insert admits its candidate and no other, and leaves no intent open to
\* another insert.
LEMMA AdmitRows ==
    ASSUME TypeOK, AdmitInsert
    PROVE  /\ RowsStep /\ candidate \in DOMAIN cand
           /\ Len(cand') = Len(cand) /\ DOMAIN cand' = DOMAIN cand
           /\ \A c \in DOMAIN cand : c # candidate => cand'[c] = cand[c]
           /\ cand'[candidate].adm = "live"
           /\ cand'[candidate].intent =
                 IF cand[candidate].intent = "prepared" THEN "consumed"
                 ELSE cand[candidate].intent
           /\ Admitted' = Admitted \union {candidate}
           /\ Live' = Live \union {candidate}
  <1> DEFINE k == candidate
             i == IF cand[k].intent = "prepared" THEN "consumed"
                  ELSE cand[k].intent
             row == [cand[k] EXCEPT !.adm = "live", !.intent = i]
  <1>1. k \in DOMAIN cand BY Domain DEF AdmitInsert, TypeOK
  <1>2. cand[k] \in CandRow /\ cand[k].adm \in {"none", "live"}
    BY <1>1, Domain DEF AdmitInsert
  <1>3. i \in {"none", "consumed", "abandoned"} BY <1>2 DEF CandRow
  <1>4. i = cand[k].intent \/ (cand[k].intent = "prepared" /\ i = "consumed")
    OBVIOUS
  <1>5. cand' = [cand EXCEPT ![k] = row] BY DEF AdmitInsert
  <1> HIDE DEF i
  <1>6. row \in CandRow /\ RowStep(cand[k], row) /\ row.adm = "live" /\ row.intent = i
    BY <1>2, <1>3, <1>4 DEF CandRow, RowStep
  <1> HIDE DEF row
  <1>7. /\ RowsStep /\ cand'[k] = row
        /\ Len(cand') = Len(cand) /\ DOMAIN cand' = DOMAIN cand
        /\ \A d \in DOMAIN cand : d # k => cand'[d] = cand[d]
    BY <1>1, <1>5, <1>6, ReplaceRow
  <1>8. Admitted' = Admitted \union {k} /\ Live' = Live \union {k}
    BY <1>1, <1>6, <1>7 DEF Admitted, Live
  <1> QED BY <1>1, <1>6, <1>7, <1>8 DEF i

\* LastEpoch is a number, some admitted row has it, and none is past it.
LEMMA LastEpochNat ==
    ASSUME TypeOK, EpochInv
    PROVE  /\ LastEpoch \in Nat /\ \A c \in Admitted : cand[c].epoch <= LastEpoch
           /\ Admitted # {} => \E c \in Admitted : cand[c].epoch = LastEpoch
  <1>1. \A c \in Admitted : cand[c].epoch \in Nat
    BY Domain DEF CandRow
  <1>2. CASE Admitted = {} BY <1>2 DEF LastEpoch
  <1>3. CASE Admitted # {}
    <2> DEFINE E == {cand[c].epoch : c \in Admitted}
               P(e) == \A c \in Admitted : cand[c].epoch <= e
    <2>1. \E e \in E : P(e) BY <1>3 DEF EpochInv
    <2>2. LastEpoch = CHOOSE e \in E : P(e) BY <1>3 DEF LastEpoch
    <2> HIDE DEF P
    <2>3. LastEpoch \in E /\ P(LastEpoch) BY <2>1, <2>2
    <2> QED BY <1>1, <2>3 DEF P
  <1> QED BY <1>2, <1>3

-----------------------------------------------------------------------------
(* What every step does to the rows.                                       *)

Opens == PrepareInitial \/ \E i \in DOMAIN cand : PrepareRecovery(i)

\* What a prepare of a recovery of i has found, and ends.
Recovers(i, Ended, epoch) ==
    /\ i \in DOMAIN cand /\ IntentLoads(i) /\ epoch = cand[i].epoch + 1
    /\ Ended = OpenIntents(i)
    /\ \A o \in OpenIntents(i) : cand[o].intent = "prepared"

\* A prepare opens a session for the launch that holds the lock.
LEMMA OpensSession ==
    ASSUME TypeOK, EpochInv, Opens
    PROVE  /\ bootstrap \in Launch /\ BootstrapHeld /\ Live = {}
           /\ \E Ended \in SUBSET (DOMAIN cand), epoch \in Nat, prior \in 0 .. Len(cand) :
                 /\ OpenSession(Ended, epoch, prior)
                 /\ prior # 0 => Recovers(prior, Ended, epoch)
           /\ UNCHANGED <<mandate, canon, files, procs, events>>
  <1>1. bootstrap \in 0 .. MaxLaunch BY DEF TypeOK
  <1>2. CASE PrepareInitial
    <2> DEFINE Ended == {c \in DOMAIN cand : cand[c].lease = "lapsed"}
    <2>1. bootstrap \in Launch /\ BootstrapHeld /\ Live = {}
      BY <1>1, <1>2, Bounds DEF PrepareInitial, BootstrapHeld, Launch
    <2>2. LastEpoch + 1 \in Nat BY LastEpochNat
    <2>3. OpenSession(Ended, LastEpoch + 1, 0) BY <1>2 DEF PrepareInitial
    <2>4. 0 \in 0 .. Len(cand) /\ Ended \in SUBSET (DOMAIN cand) BY Domain
    <2>5. UNCHANGED <<mandate, canon, files, procs, events>> BY <1>2 DEF PrepareInitial
    <2> HIDE DEF Ended
    <2> QED BY <2>1, <2>2, <2>3, <2>4, <2>5
  <1>3. CASE \E i \in DOMAIN cand : PrepareRecovery(i)
    <2>1. PICK i \in DOMAIN cand : PrepareRecovery(i) BY <1>3
    <2>2. bootstrap \in Launch /\ BootstrapHeld /\ Live = {}
      BY <1>1, <2>1, Bounds DEF PrepareRecovery, BootstrapHeld, Launch
    <2>3. i \in 0 .. Len(cand) /\ cand[i].epoch \in Nat BY Domain DEF CandRow
    <2>4. /\ OpenSession(OpenIntents(i), cand[i].epoch + 1, i)
          /\ UNCHANGED <<mandate, canon, files, procs, events>>
          /\ Recovers(i, OpenIntents(i), cand[i].epoch + 1)
      BY <2>1 DEF PrepareRecovery, Recovers
    <2>5. cand[i].epoch + 1 \in Nat /\ OpenIntents(i) \in SUBSET (DOMAIN cand)
      BY <2>3 DEF OpenIntents
    <2> QED BY <2>2, <2>3, <2>4, <2>5
  <1> QED BY <1>2, <1>3 DEF Opens

\* The launched process's steps.
ProcStep(p) ==
    \/ LaunchRuntime(p) \/ CreateWorkspaceBinding(p) \/ MigrateCursor(p)
    \/ ReceiptCursor(p) \/ TakeRuntimeLock(p) \/ Bind(p) \/ Serve(p) \/ ProcessDies(p)

\* The rollback's steps, but for its transaction.
RollStep(a) ==
    \/ RollbackLoad(a) \/ RollbackQuiesce(a)
    \/ \E d \in Archive : RollbackArchive(a, d) \/ RollbackPointer(a, d)
    \/ RollbackProbe(a) \/ RollbackReceipt(a)

\* The tick's steps outside the rollback, but for the renewal.
TickStep ==
    \/ TickStart \/ TickJudge \/ TickLease \/ TickRequest
    \/ TickEpochReceipt \/ TickComplete \/ TickIntent \/ TickRestart

CommandStep ==
    \/ WriteCandidate \/ AdmitLease \/ AdmitBinding
    \/ \E i \in DOMAIN cand : PrepareRecoveryAgain(i)

\* Steps of the environment in which no actor moves.
QuietStep ==
    CompleteVerification \/ LockReleased \/ WorkspaceWrite \/ UNCHANGED vars

\* Steps that change no row.
Reads ==
    \/ TickStep \/ CommandStep \/ QuietStep \/ OperatorRollback
    \/ \E a \in Roller : RollStep(a)
    \/ \E p \in Launch : ProcStep(p)
    \/ \E a \in Actor : Crash(a)

LEMMA NextKinds ==
    ASSUME [Next]_vars
    PROVE  Reads \/ Rewrites \/ Opens \/ AdmitInsert
  BY DEF Next, Tick, Operator, Started, Runtime, Reads, Rewrites, Opens, ProcStep,
         RollStep, TickStep, CommandStep, QuietStep, Roller

LEMMA ReadsKeepRows ==
    ASSUME Reads
    PROVE  cand' = cand /\ worker' = worker
  <1>1. CASE TickStep
    BY <1>1 DEF TickStep, TickStart, TickJudge, TickLease, TickRequest,
                TickEpochReceipt, TickComplete, TickIntent, TickRestart, rows
  <1>2. CASE CommandStep
    BY <1>2 DEF CommandStep, WriteCandidate, AdmitLease, AdmitBinding,
                PrepareRecoveryAgain, rows
  <1>3. CASE QuietStep \/ OperatorRollback
    BY <1>3 DEF QuietStep, CompleteVerification, LockReleased, WorkspaceWrite,
                OperatorRollback, rows, vars
  <1>4. CASE \E a \in Roller : RollStep(a)
    BY <1>4 DEF RollStep, RollbackLoad, RollbackQuiesce, RollbackArchive,
                RollbackPointer, RollbackProbe, RollbackReceipt, rows
  <1>5. CASE \E p \in Launch : ProcStep(p)
    BY <1>5 DEF ProcStep, LaunchRuntime, CreateWorkspaceBinding, MigrateCursor,
                ReceiptCursor, TakeRuntimeLock, Bind, Serve, ProcessDies, rows
  <1>6. CASE \E a \in Actor : Crash(a) BY <1>6 DEF Crash, rows
  <1> QED BY <1>1, <1>2, <1>3, <1>4, <1>5, <1>6 DEF Reads

LEMMA NextRows ==
    ASSUME TypeOK, ActInv, EpochInv, [Next]_vars
    PROVE  RowsStep
  <1>1. CASE Reads BY <1>1, ReadsKeepRows, SameRows
  <1>2. CASE Rewrites BY <1>2, RewriteRows
  <1>3. CASE AdmitInsert BY <1>3, AdmitRows
  <1>4. CASE Opens
    <2>1. PICK Ended \in SUBSET (DOMAIN cand), epoch \in Nat, prior \in 0 .. Len(cand) :
             OpenSession(Ended, epoch, prior)
      BY <1>4, OpensSession
    <2> QED BY <1>4, <2>1, OpensSession, OpenSessionRows
  <1> QED BY <1>1, <1>2, <1>3, <1>4, NextKinds

\* No row follows the candidates after it.
LEMMA NextPriors ==
    ASSUME TypeOK, ActInv, EpochInv, [Next]_vars
    PROVE  \A c \in DOMAIN cand' : cand'[c].prior < c
  <1>1. ASSUME DOMAIN cand' = DOMAIN cand
        PROVE  \A c \in DOMAIN cand' : cand'[c].prior < c
    BY <1>1, NextRows DEF RowsStep, RowStep, TypeOK
  <1>2. CASE Reads BY <1>1, <1>2, ReadsKeepRows
  <1>3. CASE Rewrites BY <1>1, <1>3, RewriteRows DEF NoneAdmitted
  <1>4. CASE AdmitInsert BY <1>1, <1>4, AdmitRows
  <1>5. CASE Opens
    <2>1. PICK Ended \in SUBSET (DOMAIN cand), epoch \in Nat, prior \in 0 .. Len(cand) :
             OpenSession(Ended, epoch, prior)
      BY <1>5, OpensSession
    <2>2. /\ DOMAIN cand' = DOMAIN cand \union {Len(cand) + 1}
          /\ cand'[Len(cand) + 1] = NewCand(epoch, prior)
          /\ RowsStep
      BY <1>5, <2>1, OpensSession, OpenSessionRows
    <2>3. cand'[Len(cand) + 1].prior < Len(cand) + 1
      BY <2>2, Domain DEF NewCand
    <2> QED BY <2>2, <2>3 DEF RowsStep, RowStep, TypeOK
  <1> QED BY <1>2, <1>3, <1>4, <1>5, NextKinds

\* Admitted rows stay admitted, and only the insert admits one.
LEMMA NextAdmitted ==
    ASSUME TypeOK, ActInv, EpochInv, [Next]_vars
    PROVE  /\ Admitted \subseteq Admitted'
           /\ AdmitInsert \/ (Admitted' = Admitted /\ Live' \subseteq Live)
  <1>1. CASE Reads BY <1>1, ReadsKeepRows, SameRows DEF NoneAdmitted
  <1>2. CASE Rewrites BY <1>2, RewriteRows DEF NoneAdmitted
  <1>3. CASE AdmitInsert BY <1>3, AdmitRows
  <1>4. CASE Opens
    <2>1. PICK Ended \in SUBSET (DOMAIN cand), epoch \in Nat, prior \in 0 .. Len(cand) :
             OpenSession(Ended, epoch, prior)
      BY <1>4, OpensSession
    <2>2. Admitted' = Admitted /\ Live' = Live
      BY <1>4, <2>1, OpensSession, OpenSessionRows
    <2> QED BY <2>2
  <1> QED BY <1>1, <1>2, <1>3, <1>4, NextKinds

\* The rows with the last epoch.
LEMMA NextEpoch ==
    ASSUME TypeOK, ActInv, EpochInv, [Next]_vars
    PROVE  EpochInv'
  <1>0. \A c \in DOMAIN cand : cand[c].epoch \in Nat /\ cand'[c].epoch = cand[c].epoch
    BY NextRows, Domain DEF RowsStep, RowStep, CandRow
  <1>1. Admitted \subseteq DOMAIN cand /\ Live \subseteq Admitted BY Domain
  <1>2. CASE Admitted' = Admitted /\ Live' \subseteq Live
    <2>1. \A m \in Live' : \A c \in Admitted' : cand'[c].epoch <= cand'[m].epoch
      BY <1>0, <1>1, <1>2 DEF EpochInv
    <2>2. Admitted' # {} =>
            \E m \in Admitted' : \A c \in Admitted' : cand'[c].epoch <= cand'[m].epoch
      BY <1>0, <1>1, <1>2 DEF EpochInv
    <2> QED BY <2>1, <2>2 DEF EpochInv
  <1>3. CASE AdmitInsert /\ cand[candidate].adm = "live"
    <2>1. candidate \in Live BY <1>3, AdmitRows DEF Live
    <2>2. Admitted' = Admitted /\ Live' \subseteq Live BY <1>1, <1>3, <2>1, AdmitRows
    <2> QED BY <1>2, <2>2
  <1>4. CASE AdmitInsert /\ Insertable(candidate)
    <2>1. PICK k \in DOMAIN cand : k = candidate BY <1>4, AdmitRows
    <2>2. Admitted' = Admitted \union {k} /\ Live' = {k}
      BY <1>4, <2>1, AdmitRows DEF Insertable
    <2>3. \A c \in Admitted : cand[c].epoch <= cand[k].epoch
      BY <1>0, <1>1, <1>4, <2>1, LastEpochNat DEF Insertable
    <2>4. \A c \in Admitted' : cand'[c].epoch <= cand'[k].epoch
      BY <1>0, <1>1, <2>2, <2>3
    <2> QED BY <2>2, <2>4 DEF EpochInv
  <1> QED BY <1>2, <1>3, <1>4, NextAdmitted DEF AdmitInsert

-----------------------------------------------------------------------------
(* The pointer and the actors.                                             *)

ActRow == [pc: ActPc, c: 0 .. Len(cand)]
Pointer == [kind: {"missing", "binding"} \union Archive, c: 0 .. Len(cand)]

\* What named a candidate still does.
LEMMA Wider ==
    ASSUME TypeOK, RowsStep
    PROVE  /\ 0 .. Len(cand) \subseteq 0 .. Len(cand') /\ Len(cand') \in Nat
           /\ act \in [Actor -> ActRow] /\ ActRow \subseteq ActRow'
           /\ active \in Pointer /\ Pointer \subseteq Pointer'
           /\ Idle \in ActRow'
           /\ DOMAIN cand \subseteq DOMAIN cand' /\ DOMAIN cand' \subseteq 0 .. Len(cand')
  <1>1. Len(cand) \in Nat /\ Len(cand') \in Nat /\ Len(cand) <= Len(cand')
    BY Domain DEF RowsStep
  <1>2. 0 .. Len(cand) \subseteq 0 .. Len(cand') BY <1>1
  <1>3. act \in [Actor -> ActRow] /\ active \in Pointer BY DEF TypeOK, ActRow, Pointer, Archive
  <1>4. ActRow \subseteq ActRow' BY <1>2 DEF ActRow
  <1>5. Pointer \subseteq Pointer' BY <1>2 DEF Pointer, Archive
  <1>6. Idle \in ActRow' BY <1>1 DEF ActRow, Idle, ActPc, Archive
  <1>7. DOMAIN cand \subseteq DOMAIN cand' /\ DOMAIN cand' \subseteq 0 .. Len(cand')
    BY <1>1 DEF RowsStep
  <1> QED BY <1>1, <1>2, <1>3, <1>4, <1>5, <1>6, <1>7

\* Steps that leave ACTIVE.json alone.
LEMMA PointerChanges ==
    ASSUME TypeOK, EpochInv, [Next]_vars
    PROVE  \/ active' = active \/ TickStart \/ AdmitBinding
           \/ \E a \in Roller, d \in Archive : RollbackPointer(a, d)
  <1>1. CASE TickStep
    BY <1>1 DEF TickStep, TickStart, TickJudge, TickLease, TickRequest,
                TickEpochReceipt, TickComplete, TickIntent, TickRestart, files
  <1>2. CASE CommandStep
    BY <1>2 DEF CommandStep, WriteCandidate, AdmitLease, AdmitBinding,
                PrepareRecoveryAgain, files
  <1>3. CASE QuietStep \/ OperatorRollback
    BY <1>3 DEF QuietStep, CompleteVerification, LockReleased, WorkspaceWrite,
                OperatorRollback, files, vars
  <1>4. CASE \E a \in Roller : RollStep(a)
    BY <1>4 DEF RollStep, RollbackLoad, RollbackQuiesce, RollbackArchive,
                RollbackPointer, RollbackProbe, RollbackReceipt, files
  <1>5. CASE \E p \in Launch : ProcStep(p)
    BY <1>5 DEF ProcStep, LaunchRuntime, CreateWorkspaceBinding, MigrateCursor,
                ReceiptCursor, TakeRuntimeLock, Bind, Serve, ProcessDies, files
  <1>6. CASE \E a \in Actor : Crash(a) BY <1>6 DEF Crash
  <1>7. CASE Rewrites BY <1>7 DEF Rewrites, TickRenew, RollbackRevoke, LeaseLapses, files
  <1>8. CASE Opens BY <1>8, OpensSession DEF files
  <1>9. CASE AdmitInsert BY <1>9 DEF AdmitInsert, files
  <1> QED BY <1>1, <1>2, <1>3, <1>4, <1>5, <1>6, <1>7, <1>8, <1>9, NextKinds DEF Reads

\* ACTIVE.json names an admitted candidate, from the first publication on.
PointerOK == active.kind # "missing" => active.c \in Admitted

LEMMA NextPointer ==
    ASSUME TypeOK, ActInv, EpochInv, [Next]_vars
    PROVE  /\ active' \in Pointer' /\ PointerOK'
           /\ active.kind # "missing" => active'.kind # "missing"
  <1>0. /\ RowsStep /\ Admitted \subseteq Admitted' /\ active \in Pointer'
        /\ Admitted \subseteq 0 .. Len(cand')
    BY NextRows, NextAdmitted, Wider, Domain
  <1>1. CASE active' = active BY <1>0, <1>1 DEF ActInv, PointerOK
  <1>2. ASSUME NEW k \in {"binding"} \union Archive, NEW c \in Admitted,
               active' = [kind |-> k, c |-> c]
        PROVE  active' \in Pointer' /\ PointerOK' /\ active'.kind # "missing"
    BY <1>0, <1>2 DEF Pointer, PointerOK, Archive
  <1>3. CASE TickStart
    <2>1. CASE active.kind = "missing" /\ Admitted # {}
      <3>1. DatabaseBinding \in Admitted BY <2>1, LastEpochNat DEF DatabaseBinding
      <3>2. active' = [kind |-> "binding", c |-> DatabaseBinding] BY <1>3, <2>1 DEF TickStart
      <3> QED BY <1>2, <3>1, <3>2
    <2>2. CASE ~(active.kind = "missing" /\ Admitted # {})
      BY <1>1, <1>3, <2>2 DEF TickStart
    <2> QED BY <2>1, <2>2
  <1>4. CASE AdmitBinding BY <1>2, <1>4 DEF AdmitBinding, At, ActInv
  <1>5. CASE \E a \in Roller, d \in Archive : RollbackPointer(a, d)
    BY <1>2, <1>5 DEF RollbackPointer, At, ActInv, Roller, RollbackPc, Archive
  <1> QED BY <1>1, <1>3, <1>4, <1>5, PointerChanges

\* The record t is one that actor a may have.
OK(a, t) ==
    /\ a = "tick" =>
         /\ t.pc \in TickPc
         /\ t.pc # "idle" => active.kind # "missing" /\ t.c \in Admitted
    /\ a = "operator" =>
         /\ t.pc \in OperatorPc
         /\ t.pc # "idle" => active.kind # "missing"
         /\ t.pc \in RollbackPc => t.c \in Admitted
    /\ a = "command" =>
         /\ t.pc \in CommandPc
         /\ t.pc # "idle" => t.c \in DOMAIN cand
         /\ t.pc \in {"admitLease", "admitBinding"} => t.c \in Admitted

LEMMA ActParts ==
    /\ ActInv <=> PointerOK /\ \A a \in Actor : OK(a, act[a])
    /\ ActInv' <=> PointerOK' /\ \A a \in Actor : OK(a, act[a])'
  BY DEF ActInv, PointerOK, OK, Actor, Roller

\* One actor moves, or none.
LEMMA MoveAct ==
    ASSUME TypeOK, ActInv, EpochInv, [Next]_vars,
           \/ act' = act
           \/ \E a \in Actor, t \in ActRow' : OK(a, t)' /\ act' = [act EXCEPT ![a] = t]
    PROVE  ActInv' /\ act' \in [Actor -> ActRow']
  <1>0. /\ RowsStep /\ Admitted \subseteq Admitted' /\ DOMAIN cand \subseteq DOMAIN cand'
        /\ act \in [Actor -> ActRow'] /\ PointerOK'
        /\ active.kind # "missing" => active'.kind # "missing"
    BY NextRows, NextAdmitted, NextPointer, Wider
  <1>1. ASSUME NEW a \in Actor, act'[a] = act[a] PROVE OK(a, act[a])'
    <2>1. OK(a, act[a]) BY ActParts
    <2> QED BY <1>0, <1>1, <2>1 DEF OK
  <1>2. CASE act' = act
    <2>1. \A a \in Actor : OK(a, act[a])' BY <1>1, <1>2
    <2> QED BY <1>0, <1>2, <2>1, ActParts
  <1>3. CASE \E a \in Actor, t \in ActRow' : OK(a, t)' /\ act' = [act EXCEPT ![a] = t]
    <2>1. PICK a \in Actor, t \in ActRow' : OK(a, t)' /\ act' = [act EXCEPT ![a] = t]
      BY <1>3
    <2>2. /\ act' \in [Actor -> ActRow'] /\ act'[a] = t
          /\ \A b \in Actor : b # a => act'[b] = act[b]
      BY <1>0, <2>1
    <2>3. OK(a, act[a])' BY <2>1, <2>2 DEF OK
    <2>4. \A b \in Actor : OK(b, act[b])' BY <1>1, <2>2, <2>3
    <2> QED BY <1>0, <2>2, <2>4, ActParts
  <1> QED BY <1>2, <1>3

\* An actor is idle again, or goes on with its candidate.
LEMMA RaiseAct ==
    ASSUME TypeOK, ActInv, EpochInv, [Next]_vars, NEW a \in Actor, Raise(a)
    PROVE  ActInv' /\ act' \in [Actor -> ActRow']
  <1>1. Idle \in ActRow' BY NextRows, Wider
  <1>2. OK(a, Idle)'
    BY DEF OK, Idle, TickPc, OperatorPc, RollbackPc, CommandPc, Archive
  <1> QED BY <1>1, <1>2, MoveAct DEF Raise

LEMMA GoAct ==
    ASSUME TypeOK, ActInv, EpochInv, [Next]_vars, NEW a \in Actor, NEW pc, Go(a, pc),
           ~At(a, "idle"), a = "tick" => pc \in TickPc,
           a = "operator" => pc \in RollbackPc /\ act[a].pc \in RollbackPc,
           a = "command" => pc = "admitBinding" /\ act[a].pc = "admitLease"
    PROVE  ActInv' /\ act' \in [Actor -> ActRow']
  <1> DEFINE t == [act[a] EXCEPT !.pc = pc]
  <1>0. /\ RowsStep /\ Admitted \subseteq Admitted' /\ DOMAIN cand \subseteq DOMAIN cand'
        /\ act[a] \in ActRow' /\ Admitted \subseteq DOMAIN cand
        /\ active.kind # "missing" => active'.kind # "missing"
    BY NextRows, NextAdmitted, NextPointer, Wider, Domain
  <1>1. pc \in ActPc
    BY DEF Actor, Roller, ActPc, TickPc, RollbackPc, Archive
  <1>2. t \in ActRow' /\ t.pc = pc /\ t.c = act[a].c BY <1>0, <1>1 DEF ActRow
  <1>3. act' = [act EXCEPT ![a] = t] BY DEF Go
  <1>4. OK(a, act[a]) BY ActParts
  <1>5. PICK u \in ActRow' : u = t BY <1>2
  <1>6. OK(a, u)'
    BY <1>0, <1>2, <1>4, <1>5 DEF OK, At, OperatorPc, CommandPc, RollbackPc, Archive
  <1> HIDE DEF t
  <1> QED BY <1>3, <1>5, <1>6, MoveAct

\* The tick's own steps.
LEMMA NextActTick ==
    ASSUME TypeOK, ActInv, EpochInv, [Next]_vars, TickStep \/ TickRenew
    PROVE  ActInv' /\ act' \in [Actor -> ActRow']
  <1>0. "tick" \in Actor BY DEF Actor, Roller
  <1>1. Raise("tick") => ActInv' /\ act' \in [Actor -> ActRow'] BY <1>0, RaiseAct
  <1>2. ASSUME NEW pc \in TickPc, Go("tick", pc), ~At("tick", "idle")
        PROVE  ActInv' /\ act' \in [Actor -> ActRow']
    BY <1>0, <1>2, GoAct
  <1>3. CASE TickStart
    <2> DEFINE t == IF active'.kind = "missing" THEN Idle
                    ELSE [pc |-> IF active'.kind = "binding" THEN "judge" ELSE "load",
                          c |-> active'.c]
    <2>1. act' = [act EXCEPT !["tick"] = t] BY <1>3 DEF TickStart
    <2>2. active' \in Pointer' /\ PointerOK' BY NextPointer
    <2>3. Idle \in ActRow' BY NextRows, Wider
    <2>4. t \in ActRow'
      <3>1. CASE active'.kind = "missing" BY <2>3, <3>1
      <3>2. CASE active'.kind # "missing" BY <2>2, <3>2 DEF ActRow, Pointer, ActPc, Archive
      <3> QED BY <3>1, <3>2
    <2>5. PICK u \in ActRow' : u = t BY <2>4
    <2>6. OK("tick", u)'
      <3>1. CASE active'.kind = "missing"
        BY <2>5, <3>1 DEF OK, Idle, TickPc
      <3>2. CASE active'.kind # "missing"
        BY <2>2, <2>5, <3>2 DEF OK, PointerOK, TickPc
      <3> QED BY <3>1, <3>2
    <2> HIDE DEF t
    <2> QED BY <1>0, <2>1, <2>5, <2>6, MoveAct
  <1>4. CASE TickJudge
    <2>1. \E pc \in {"renew", "load"} : Go("tick", pc) BY <1>4 DEF TickJudge
    <2> QED BY <1>2, <1>4, <2>1 DEF TickJudge, At, TickPc
  <1>5. CASE TickRenew
    <2>1. Raise("tick") \/ Go("tick", "lease") BY <1>5 DEF TickRenew
    <2> QED BY <1>1, <1>2, <1>5, <2>1 DEF TickRenew, At, TickPc
  <1>6. CASE TickLease BY <1>2, <1>6 DEF TickLease, At, TickPc
  <1>7. CASE TickRequest
    <2>1. Raise("tick") \/ Go("tick", "epoch") BY <1>7 DEF TickRequest
    <2> QED BY <1>1, <1>2, <1>7, <2>1 DEF TickRequest, At, TickPc
  <1>8. CASE TickEpochReceipt
    <2>1. Raise("tick") \/ Go("tick", "complete") BY <1>8 DEF TickEpochReceipt, WriteOnce
    <2> QED BY <1>1, <1>2, <1>8, <2>1 DEF TickEpochReceipt, At, TickPc
  <1>9. CASE TickComplete BY <1>1, <1>9 DEF TickComplete
  <1>10. CASE TickIntent
    <2>1. Raise("tick") \/ Go("tick", "restart") BY <1>10 DEF TickIntent, WriteOnce
    <2> QED BY <1>1, <1>2, <1>10, <2>1 DEF TickIntent, At, TickPc
  <1>11. CASE TickRestart BY <1>1, <1>11 DEF TickRestart
  <1> QED BY <1>3, <1>4, <1>5, <1>6, <1>7, <1>8, <1>9, <1>10, <1>11 DEF TickStep

\* The rollback, by either of its actors.
LEMMA NextActRoll ==
    ASSUME TypeOK, ActInv, EpochInv, [Next]_vars, NEW a \in Roller,
           RollStep(a) \/ RollbackRevoke(a)
    PROVE  ActInv' /\ act' \in [Actor -> ActRow']
  <1>0. a \in Actor /\ a # "command" BY DEF Actor, Roller
  <1>1. Raise(a) => ActInv' /\ act' \in [Actor -> ActRow'] BY <1>0, RaiseAct
  <1>2. ASSUME NEW pc \in RollbackPc, Go(a, pc), act[a].pc \in RollbackPc
        PROVE  ActInv' /\ act' \in [Actor -> ActRow']
    BY <1>0, <1>2, GoAct DEF At, RollbackPc, TickPc, Archive
  <1>3. ASSUME Go("tick", "intent"), a = "tick", act[a].pc \in RollbackPc
        PROVE  ActInv' /\ act' \in [Actor -> ActRow']
    BY <1>0, <1>3, GoAct DEF At, RollbackPc, TickPc, Archive
  <1>4. CASE RollbackLoad(a)
    <2> DEFINE k == once[a][active.c]
               t == [pc |-> CASE k = "none" -> "revoke" [] k = "done" -> "archive"
                              [] k = "torn" -> "idle",
                     c |-> IF k = "torn" THEN 0 ELSE active.c]
    <2>1. act' = [act EXCEPT ![a] = t] /\ active' = active BY <1>4 DEF RollbackLoad, files
    <2>2. active.kind # "missing" BY <1>4 DEF RollbackLoad, At, ActInv, Roller
    <2>3. active.c \in Admitted /\ active.c \in Cand BY <2>2, Domain DEF ActInv
    <2>4. k \in {"none", "torn", "done"} BY <2>3 DEF TypeOK, Artifact, Archive
    <2>5. Admitted \subseteq Admitted' /\ Admitted \subseteq 0 .. Len(cand') /\ Len(cand') \in Nat
      BY NextRows, NextAdmitted, Wider, Domain
    <2> HIDE DEF k
    <2>6. /\ t \in ActRow' /\ t.pc \in {"idle", "revoke", "archive"}
          /\ t.pc # "idle" => t.c \in Admitted'
      BY <2>3, <2>4, <2>5 DEF ActRow, ActPc, Archive
    <2>7. PICK u \in ActRow' : u = t BY <2>6
    <2> HIDE DEF t
    <2>8. OK(a, u)'
      BY <1>0, <2>1, <2>2, <2>6, <2>7 DEF OK, TickPc, OperatorPc, RollbackPc, Archive
    <2> QED BY <1>0, <2>1, <2>7, <2>8, MoveAct
  <1>5. CASE RollbackRevoke(a) BY <1>2, <1>5 DEF RollbackRevoke, At, RollbackPc, Archive
  <1>6. CASE RollbackQuiesce(a) BY <1>2, <1>6 DEF RollbackQuiesce, At, RollbackPc, Archive
  <1>7. CASE \E d \in Archive : RollbackArchive(a, d)
    <2>1. Raise(a) \/ Go(a, "probe") \/ \E d \in Archive : Go(a, d)
      BY <1>7 DEF RollbackArchive, WriteOnce
    <2> QED BY <1>1, <1>2, <1>7, <2>1 DEF RollbackArchive, At, RollbackPc, Archive
  <1>8. CASE \E d \in Archive : RollbackPointer(a, d)
    BY <1>2, <1>8 DEF RollbackPointer, At, RollbackPc, Archive
  <1>9. CASE RollbackProbe(a)
    <2>1. Raise(a) \/ Go(a, "write") \/ (a = "tick" /\ Go(a, "intent"))
      BY <1>9 DEF RollbackProbe
    <2> QED BY <1>1, <1>2, <1>3, <1>9, <2>1 DEF RollbackProbe, At, RollbackPc, Archive
  <1>10. CASE RollbackReceipt(a)
    <2>1. Raise(a) \/ (a = "tick" /\ Go(a, "intent"))
      BY <1>10 DEF RollbackReceipt, WriteOnce
    <2> QED BY <1>1, <1>3, <1>10, <2>1 DEF RollbackReceipt, At, RollbackPc, Archive
  <1> QED BY <1>4, <1>5, <1>6, <1>7, <1>8, <1>9, <1>10 DEF RollStep

\* The operator's commands.
LEMMA NextActCommand ==
    ASSUME TypeOK, ActInv, EpochInv, [Next]_vars,
           CommandStep \/ Opens \/ AdmitInsert \/ OperatorRollback
    PROVE  ActInv' /\ act' \in [Actor -> ActRow']
  <1>0. "command" \in Actor /\ "operator" \in Actor BY DEF Actor, Roller
  <1>1. Raise("command") => ActInv' /\ act' \in [Actor -> ActRow'] BY <1>0, RaiseAct
  <1>2. RowsStep BY NextRows
  <1>3. ASSUME NEW pc \in {"file", "admitLease"}, NEW c \in DOMAIN cand',
               pc = "admitLease" => c \in Admitted',
               act' = [act EXCEPT !["command"] = [pc |-> pc, c |-> c]]
        PROVE  ActInv' /\ act' \in [Actor -> ActRow']
    <2> DEFINE t == [pc |-> pc, c |-> c]
    <2>1. t \in ActRow' /\ t.pc = pc /\ t.c = c BY <1>2, Wider DEF ActRow, ActPc, Archive
    <2>2. PICK u \in ActRow' : u = t BY <2>1
    <2>3. OK("command", u)' BY <1>3, <2>1, <2>2 DEF OK, CommandPc
    <2> QED BY <1>0, <1>3, <2>2, <2>3, MoveAct
  <1>4. CASE WriteCandidate BY <1>1, <1>4 DEF WriteCandidate
  <1>5. CASE AdmitLease BY <1>0, <1>5, GoAct DEF AdmitLease, At
  <1>6. CASE AdmitBinding BY <1>1, <1>6 DEF AdmitBinding
  <1>7. CASE \E i \in DOMAIN cand : PrepareRecoveryAgain(i)
    BY <1>2, <1>3, <1>7, Wider DEF PrepareRecoveryAgain, OpenIntents
  <1>8. CASE Opens
    <2>1. PICK Ended \in SUBSET (DOMAIN cand), epoch \in Nat, prior \in 0 .. Len(cand) :
             OpenSession(Ended, epoch, prior)
      BY <1>8, OpensSession
    <2>2. Len(cand) + 1 \in DOMAIN cand' BY <1>8, <2>1, OpensSession, OpenSessionRows
    <2> QED BY <1>3, <2>1, <2>2 DEF OpenSession
  <1>9. CASE AdmitInsert
    <2>1. candidate \in DOMAIN cand' /\ candidate \in Admitted' BY <1>9, AdmitRows
    <2> QED BY <1>3, <1>9, <2>1 DEF AdmitInsert
  <1>10. CASE OperatorRollback
    <2> DEFINE t == [act["operator"] EXCEPT !.pc = "load"]
    <2>1. act["operator"] \in ActRow' BY <1>0, <1>2, Wider
    <2>2. t \in ActRow' /\ t.pc = "load" BY <2>1 DEF ActRow, ActPc, Archive
    <2>3. PICK u \in ActRow' : u = t BY <2>2
    <2>4. active.kind # "missing" /\ active' = active
      BY <1>10 DEF OperatorRollback, files
    <2>5. OK("operator", u)' BY <2>2, <2>3, <2>4 DEF OK, OperatorPc, RollbackPc, Archive
    <2>6. act' = [act EXCEPT !["operator"] = t] BY <1>10 DEF OperatorRollback, Go
    <2> QED BY <1>0, <2>3, <2>5, <2>6, MoveAct
  <1> QED BY <1>4, <1>5, <1>6, <1>7, <1>8, <1>9, <1>10 DEF CommandStep

LEMMA NextAct ==
    ASSUME TypeOK, ActInv, EpochInv, [Next]_vars
    PROVE  ActInv' /\ act' \in [Actor -> ActRow']
  <1>1. CASE QuietStep \/ \E c \in DOMAIN cand : LeaseLapses(c)
    <2>1. act' = act
      BY <1>1 DEF QuietStep, CompleteVerification, LockReleased, WorkspaceWrite,
                  LeaseLapses, vars
    <2> QED BY <2>1, MoveAct
  <1>2. CASE \E p \in Launch : ProcStep(p)
    <2>1. act' = act
      BY <1>2 DEF ProcStep, LaunchRuntime, CreateWorkspaceBinding, MigrateCursor,
                  ReceiptCursor, TakeRuntimeLock, Bind, Serve, ProcessDies
    <2> QED BY <2>1, MoveAct
  <1>3. CASE \E a \in Actor : Crash(a) BY <1>3, RaiseAct DEF Crash
  <1> QED
    BY <1>1, <1>2, <1>3, NextActTick, NextActRoll, NextActCommand, NextKinds
    DEF Reads, Rewrites

-----------------------------------------------------------------------------
(* The write-once artifacts.                                               *)

OnceType == [Artifact -> [Cand -> {"none", "torn", "done"}]]

\* What is whole stays whole.
OnceStep ==
    \A k \in Artifact, c \in Cand : once[k][c] = "done" => once'[k][c] = "done"

\* No artifact becomes whole, but perhaps one of kind k of candidate c.
OnlyNew(k, c) ==
    \A j \in Artifact, d \in Cand :
        once'[j][d] = "done" => once[j][d] = "done" \/ (j = k /\ d = c)

LEMMA PutOnce ==
    ASSUME TypeOK, NEW k \in Artifact, NEW c \in Cand, NEW v \in {"torn", "done"},
           v = "torn" => once[k][c] = "none",
           once' = [once EXCEPT ![k][c] = v]
    PROVE  once' \in OnceType /\ OnceStep /\ OnlyNew(k, c) /\ once'[k][c] = v
  <1>1. once \in OnceType BY DEF TypeOK, OnceType
  <1>2. once' \in OnceType /\ once'[k][c] = v BY <1>1 DEF OnceType
  <1>3. \A j \in Artifact, d \in Cand : j # k \/ d # c => once'[j][d] = once[j][d]
    BY <1>1 DEF OnceType
  <1>4. OnceStep BY <1>2, <1>3 DEF OnceStep
  <1>5. OnlyNew(k, c) BY <1>3 DEF OnlyNew
  <1> QED BY <1>2, <1>4, <1>5

\* _write_once_private
LEMMA WriteOnceStep ==
    ASSUME TypeOK, NEW a \in Actor, NEW k \in Artifact, NEW next, act[a].c \in Cand,
           WriteOnce(a, k, next)
    PROVE  /\ once' \in OnceType /\ OnceStep /\ OnlyNew(k, act[a].c)
           /\ \/ Raise(a) /\ once' = once
              \/ Go(a, next) /\ once'[k][act[a].c] = "done"
  <1>1. PICK c \in Cand : c = act[a].c OBVIOUS
  <1>2. CASE Raise(a) /\ once' = once
    BY <1>2 DEF TypeOK, OnceType, OnceStep, OnlyNew
  <1>3. CASE Go(a, next) /\ once' = [once EXCEPT ![k][c] = "done"]
    <2>1. once' \in OnceType /\ OnceStep /\ OnlyNew(k, c) /\ once'[k][c] = "done"
      BY <1>3, PutOnce
    <2> QED BY <1>1, <1>3, <2>1
  <1> QED BY <1>1, <1>2, <1>3 DEF WriteOnce

\* The steps that make an artifact whole, and a crash that may tear one.
MakesOnce ==
    \/ TickEpochReceipt \/ TickIntent
    \/ \E a \in Roller : RollbackReceipt(a) \/ \E d \in Archive : RollbackArchive(a, d)
    \/ \E a \in Actor : Crash(a)

LEMMA OthersKeepOnce ==
    ASSUME TypeOK, EpochInv, [Next]_vars, ~MakesOnce
    PROVE  once' = once
  <1>1. CASE TickStep
    BY <1>1 DEF MakesOnce, TickStep, TickStart, TickJudge, TickLease, TickRequest,
                TickComplete, TickRestart, files
  <1>2. CASE CommandStep
    BY <1>2 DEF CommandStep, WriteCandidate, AdmitLease, AdmitBinding,
                PrepareRecoveryAgain, files
  <1>3. CASE QuietStep \/ OperatorRollback
    BY <1>3 DEF QuietStep, CompleteVerification, LockReleased, WorkspaceWrite,
                OperatorRollback, files, vars
  <1>4. CASE \E a \in Roller : RollStep(a)
    BY <1>4 DEF MakesOnce, RollStep, RollbackLoad, RollbackQuiesce,
                RollbackPointer, RollbackProbe, files
  <1>5. CASE \E p \in Launch : ProcStep(p)
    BY <1>5 DEF ProcStep, LaunchRuntime, CreateWorkspaceBinding, MigrateCursor,
                ReceiptCursor, TakeRuntimeLock, Bind, Serve, ProcessDies, files
  <1>6. CASE Rewrites BY <1>6 DEF Rewrites, TickRenew, RollbackRevoke, LeaseLapses, files
  <1>7. CASE Opens BY <1>7, OpensSession DEF files
  <1>8. CASE AdmitInsert BY <1>8 DEF AdmitInsert, files
  <1> QED BY <1>1, <1>2, <1>3, <1>4, <1>5, <1>6, <1>7, <1>8, NextKinds DEF Reads, MakesOnce

\* A crash tears at most the artifact that is being made.
LEMMA CrashOnce ==
    ASSUME TypeOK, ActInv, NEW a \in Actor, Crash(a)
    PROVE  once' \in OnceType /\ OnceStep /\ \A k, c : OnlyNew(k, c)
  <1>1. CASE once' = once BY <1>1 DEF TypeOK, OnceType, OnceStep, OnlyNew
  <1>2. CASE once' # once
    <2>1. PICK w \in Writing(a) : /\ once[w][act[a].c] = "none"
                                  /\ once' = [once EXCEPT ![w][act[a].c] = "torn"]
      BY <1>2 DEF Crash
    <2>2. act[a].pc \in {"archive", "write", "intent", "epoch"} BY <2>1 DEF Writing, At
    <2>3. a \in Roller
      BY <2>2 DEF Actor, ActInv, CommandPc
    <2>4. act[a].c \in Admitted
      BY <2>2, <2>3 DEF ActInv, Roller, OperatorPc, RollbackPc, Archive
    <2>5. PICK c \in Cand : c = act[a].c BY <2>4, Domain
    <2>6. w \in Archive \union {"intent", "epoch", a}
      BY <2>1 DEF Writing, ArchivesOf, Archive
    <2>7. PICK k \in Artifact : k = w BY <2>3, <2>6 DEF Artifact, Archive
    <2>8. once' \in OnceType /\ OnceStep /\ OnlyNew(k, c) /\ once'[k][c] = "torn"
      BY <2>1, <2>5, <2>7, PutOnce
    <2> QED BY <2>8 DEF OnlyNew
  <1> QED BY <1>1, <1>2

\* Every step: the artifact that it may make whole.
LEMMA NextOnce ==
    ASSUME TypeOK, ActInv, EpochInv, [Next]_vars
    PROVE  /\ once' \in OnceType /\ OnceStep
           /\ \/ once' = once
              \/ TickEpochReceipt /\ OnlyNew("epoch", act["tick"].c)
              \/ TickIntent /\ OnlyNew("intent", act["tick"].c)
              \/ \E a \in Roller, d \in Archive :
                     RollbackArchive(a, d) /\ OnlyNew(d, act[a].c)
              \/ \E a \in Roller : RollbackReceipt(a) /\ OnlyNew(a, act[a].c)
              \/ \E a \in Actor : Crash(a) /\ \A k, c : OnlyNew(k, c)
  <1>0. /\ Roller \subseteq Actor /\ "tick" \in Roller
        /\ Archive \union {"intent", "epoch"} \union Roller \subseteq Artifact
    BY DEF Roller, Actor, Artifact, Archive
  <1>1. Admitted \subseteq Cand BY Domain
  <1>2. ASSUME once' = once PROVE once' \in OnceType /\ OnceStep
    BY <1>2 DEF TypeOK, OnceType, OnceStep
  <1>3. CASE TickEpochReceipt
    <2>1. act["tick"].c \in Cand BY <1>1, <1>3 DEF TickEpochReceipt, At, ActInv
    <2>2. once' = once \/ WriteOnce("tick", "epoch", "complete") BY <1>3 DEF TickEpochReceipt
    <2> QED BY <1>0, <1>2, <1>3, <2>1, <2>2, WriteOnceStep
  <1>4. CASE TickIntent
    <2>1. act["tick"].c \in Cand BY <1>1, <1>4 DEF TickIntent, At, ActInv
    <2> QED BY <1>0, <1>4, <2>1, WriteOnceStep DEF TickIntent
  <1>5. CASE \E a \in Roller, d \in Archive : RollbackArchive(a, d)
    <2>1. PICK a \in Roller, d \in Archive : RollbackArchive(a, d) BY <1>5
    <2>2. act[a].c \in Cand BY <1>1, <2>1 DEF RollbackArchive, At, ActInv, Roller, RollbackPc, Archive
    <2>3. once' = once \/ WriteOnce(a, d, d) BY <2>1 DEF RollbackArchive
    <2> QED BY <1>0, <1>2, <2>1, <2>2, <2>3, WriteOnceStep
  <1>6. CASE \E a \in Roller : RollbackReceipt(a)
    <2>1. PICK a \in Roller : RollbackReceipt(a) BY <1>6
    <2>2. PICK c \in Cand : c = act[a].c
      BY <1>1, <2>1 DEF RollbackReceipt, At, ActInv, Roller, RollbackPc, Archive
    <2>3. CASE WriteOnce(a, a, "intent") BY <1>0, <2>1, <2>2, <2>3, WriteOnceStep
    <2>4. CASE once' = [once EXCEPT ![a][c] = "done"]
      <3>1. once' \in OnceType /\ OnceStep /\ OnlyNew(a, c) BY <1>0, <2>4, PutOnce
      <3> QED BY <2>1, <2>2, <3>1
    <2> QED BY <2>1, <2>2, <2>3, <2>4 DEF RollbackReceipt
  <1>7. CASE \E a \in Actor : Crash(a) BY <1>7, CrashOnce
  <1>8. CASE ~MakesOnce BY <1>2, <1>8, OthersKeepOnce
  <1> QED BY <1>3, <1>4, <1>5, <1>6, <1>7, <1>8 DEF MakesOnce

-----------------------------------------------------------------------------
(* Processes, the lock and the state directory.                            *)

LEMMA ProcsChange ==
    ASSUME TypeOK, EpochInv, [Next]_vars
    PROVE  \/ \E p \in Launch : ProcStep(p)
           \/ \E a \in Roller : RollbackQuiesce(a)
           \/ LockReleased
           \/ UNCHANGED <<proc, holder>>
  <1>1. CASE TickStep
    BY <1>1 DEF TickStep, TickStart, TickJudge, TickLease, TickRequest,
                TickEpochReceipt, TickComplete, TickIntent, TickRestart, procs
  <1>2. CASE CommandStep
    BY <1>2 DEF CommandStep, WriteCandidate, AdmitLease, AdmitBinding,
                PrepareRecoveryAgain, procs
  <1>3. CASE QuietStep \/ OperatorRollback
    BY <1>3 DEF QuietStep, CompleteVerification, WorkspaceWrite, OperatorRollback,
                procs, vars
  <1>4. CASE \E a \in Roller : RollStep(a)
    BY <1>4 DEF RollStep, RollbackLoad, RollbackArchive, RollbackPointer,
                RollbackProbe, RollbackReceipt, procs
  <1>5. CASE \E a \in Actor : Crash(a) BY <1>5 DEF Crash, procs
  <1>6. CASE Rewrites BY <1>6 DEF Rewrites, TickRenew, RollbackRevoke, LeaseLapses, procs
  <1>7. CASE Opens BY <1>7, OpensSession DEF procs
  <1>8. CASE AdmitInsert BY <1>8 DEF AdmitInsert, procs
  <1> QED BY <1>1, <1>2, <1>3, <1>4, <1>5, <1>6, <1>7, <1>8, NextKinds DEF Reads

\* What a process may become, and where the lock goes then.
LEMMA ProcMoves ==
    ASSUME TypeOK, NEW p \in Launch, ProcStep(p)
    PROVE  /\ cand' = cand /\ \A q \in Launch : q # p => proc'[q] = proc[q]
           /\ proc' \in [Launch -> ProcPc]
           /\ \/ /\ proc[p] \in {"new", "empty", "placed", "moved", "ready"}
                 /\ proc'[p] \in {"empty", "placed", "moved", "ready", "dead"}
                 /\ holder' = holder /\ bootstrap' = bootstrap
              \/ /\ proc[p] = "ready" /\ proc'[p] = "waiting"
                 /\ holder = 0 /\ holder' = p /\ bootstrap' = p
              \/ /\ proc[p] \in LockPc /\ proc'[p] \in {"bound", "serving", "dead"}
                 /\ holder' = holder /\ bootstrap' = bootstrap
  <1>0. proc \in [Launch -> ProcPc] BY DEF TypeOK
  <1>1. cand' = cand
    BY DEF ProcStep, LaunchRuntime, CreateWorkspaceBinding, MigrateCursor, ReceiptCursor,
           TakeRuntimeLock, Bind, Serve, ProcessDies, rows
  <1>2. CASE LaunchRuntime(p) BY <1>0, <1>1, <1>2 DEF LaunchRuntime, ProcPc, files
  <1>3. CASE CreateWorkspaceBinding(p)
    BY <1>0, <1>1, <1>3 DEF CreateWorkspaceBinding, ProcPc
  <1>4. CASE MigrateCursor(p) BY <1>0, <1>1, <1>4 DEF MigrateCursor, ProcPc
  <1>5. CASE ReceiptCursor(p) BY <1>0, <1>1, <1>5 DEF ReceiptCursor, ProcPc
  <1>6. CASE TakeRuntimeLock(p) BY <1>0, <1>1, <1>6 DEF TakeRuntimeLock, ProcPc
  <1>7. CASE Bind(p) BY <1>0, <1>1, <1>7 DEF Bind, LockPc, ProcPc, files
  <1>8. CASE Serve(p) BY <1>0, <1>1, <1>8 DEF Serve, LockPc, ProcPc, files
  <1>9. CASE ProcessDies(p) BY <1>0, <1>1, <1>9 DEF ProcessDies, Running, LockPc, ProcPc, files
  <1> QED BY <1>2, <1>3, <1>4, <1>5, <1>6, <1>7, <1>8, <1>9 DEF ProcStep

\* quiesce_bound_process ends the process of its candidate.
LEMMA QuiesceMoves ==
    ASSUME TypeOK, ActInv, NEW a \in Roller, RollbackQuiesce(a)
    PROVE  /\ act[a].c \in DOMAIN cand /\ cand[act[a].c].proc \in Launch
           /\ proc' \in [Launch -> ProcPc] /\ proc'[cand[act[a].c].proc] = "dead"
           /\ \A q \in Launch : proc'[q] \in {proc[q], "dead"}
           /\ holder' = holder /\ cand' = cand
  <1>1. act[a].c \in DOMAIN cand
    BY Domain DEF RollbackQuiesce, At, ActInv, Roller, RollbackPc, Archive
  <1>2. cand[act[a].c].proc \in Launch BY <1>1, Domain DEF CandRow
  <1>3. proc \in [Launch -> ProcPc] BY DEF TypeOK
  <1> QED BY <1>1, <1>2, <1>3 DEF RollbackQuiesce, ProcPc, rows

\* The lock, the processes of the rows, and the end of a process.
LEMMA NextLock ==
    ASSUME TypeOK, ActInv, EpochInv, LockInv, [Next]_vars
    PROVE  /\ LockInv' /\ proc' \in [Launch -> ProcPc] /\ holder' \in 0 .. MaxLaunch
           /\ \A p \in Launch : proc[p] = "dead" => proc'[p] = "dead"
  <1>0. /\ holder \in 0 .. MaxLaunch /\ 0 \notin Launch /\ 0 \in 0 .. MaxLaunch
        /\ holder # 0 => holder \in Launch
        /\ Launch \subseteq 0 .. MaxLaunch /\ proc \in [Launch -> ProcPc]
        /\ \A c \in DOMAIN cand : cand[c].proc \in Launch
    <2>1. \A c \in DOMAIN cand : cand[c].proc \in Launch BY Domain DEF CandRow
    <2> QED BY <2>1, Bounds DEF TypeOK, Launch
  <1>1. RowsStep BY NextRows
  <1>2. CASE \E p \in Launch : ProcStep(p)
    <2>1. PICK p \in Launch : ProcStep(p) BY <1>2
    <2>2. /\ cand' = cand /\ proc' \in [Launch -> ProcPc]
          /\ \A q \in Launch : q # p => proc'[q] = proc[q]
      BY <2>1, ProcMoves
    <2>3. /\ proc[p] # "dead" /\ holder' \in 0 .. MaxLaunch
          /\ \A q \in Launch : proc[q] = "dead" => proc'[q] = "dead"
      BY <1>0, <2>1, <2>2, ProcMoves DEF LockPc
    <2>4. CASE /\ proc[p] \in {"new", "empty", "placed", "moved", "ready"}
               /\ proc'[p] \in {"empty", "placed", "moved", "ready", "dead"}
               /\ holder' = holder
      <3>1. p # holder /\ \A c \in DOMAIN cand : cand[c].proc # p
        BY <1>0, <2>4 DEF LockInv, LockPc
      <3>2. LockInv' BY <1>0, <2>2, <2>4, <3>1 DEF LockInv, LockPc
      <3> QED BY <2>2, <2>3, <3>2
    <2>5. CASE /\ proc[p] = "ready" /\ proc'[p] = "waiting"
               /\ holder = 0 /\ holder' = p
      <3>1. LockInv' BY <1>0, <2>2, <2>5 DEF LockInv, LockPc
      <3> QED BY <2>2, <2>3, <3>1
    <2>6. CASE /\ proc[p] \in LockPc /\ proc'[p] \in {"bound", "serving", "dead"}
               /\ holder' = holder
      <3>1. LockInv' BY <1>0, <2>2, <2>6 DEF LockInv, LockPc
      <3> QED BY <2>2, <2>3, <3>1
    <2> QED BY <2>1, <2>4, <2>5, <2>6, ProcMoves
  <1>3. CASE \E a \in Roller : RollbackQuiesce(a)
    <2>1. PICK a \in Roller : RollbackQuiesce(a) BY <1>3
    <2>2. /\ proc' \in [Launch -> ProcPc]
          /\ \A q \in Launch : proc'[q] \in {proc[q], "dead"}
          /\ holder' = holder /\ cand' = cand
      BY <2>1, QuiesceMoves
    <2>3. LockInv' BY <1>0, <2>2 DEF LockInv, LockPc
    <2> QED BY <1>0, <2>2, <2>3
  <1>4. CASE LockReleased
    <2>1. proc' = proc /\ cand' = cand /\ holder' = 0 /\ holder # 0 /\ proc[holder] = "dead"
      BY <1>4 DEF LockReleased, rows
    <2> QED BY <1>0, <2>1 DEF LockInv, LockPc
  <1>5. CASE UNCHANGED <<proc, holder>>
    <2>1. CASE Opens
      <3>1. PICK Ended \in SUBSET (DOMAIN cand), epoch \in Nat, prior \in 0 .. Len(cand) :
               OpenSession(Ended, epoch, prior)
        BY <2>1, OpensSession
      <3>2. /\ DOMAIN cand' = DOMAIN cand \union {Len(cand) + 1}
            /\ cand'[Len(cand) + 1] = NewCand(epoch, prior)
        BY <2>1, <3>1, OpensSession, OpenSessionRows
      <3>3. bootstrap # 0 /\ holder = bootstrap /\ proc[bootstrap] # "dead"
        BY <2>1, OpensSession DEF BootstrapHeld, HoldsLock, Running
      <3>4. proc[cand'[Len(cand) + 1].proc] \in LockPc \union {"dead"}
        BY <3>2, <3>3 DEF NewCand, LockInv
      <3>5. \A c \in DOMAIN cand : cand'[c].proc = cand[c].proc
        BY <1>1 DEF RowsStep, RowStep
      <3> QED BY <1>0, <1>5, <3>2, <3>4, <3>5 DEF LockInv
    <2>2. CASE ~Opens
      <3>1. Reads \/ Rewrites \/ AdmitInsert BY <2>2, NextKinds
      <3>2. DOMAIN cand' = DOMAIN cand
        BY <3>1, ReadsKeepRows, RewriteRows, AdmitRows DEF NoneAdmitted
      <3> QED BY <1>0, <1>1, <1>5, <3>2 DEF LockInv, RowsStep, RowStep
    <2> QED BY <2>1, <2>2
  <1> QED BY <1>2, <1>3, <1>4, <1>5, ProcsChange

\* What is in the state directory stays there.
HomeStep ==
    /\ home.workspace => home'.workspace
    /\ home.target => home'.target
    /\ home.receipt => home'.receipt
    /\ ~home.empty => ~home'.empty

HomeType == [empty: BOOLEAN, workspace: BOOLEAN, target: BOOLEAN, receipt: BOOLEAN]

LEMMA HomeChanges ==
    ASSUME TypeOK, EpochInv, [Next]_vars
    PROVE  /\ home' \in HomeType /\ HomeStep
           /\ \/ \E p \in Launch : ProcStep(p)
              \/ bootstrap' = bootstrap
  <1>0. home \in HomeType BY DEF TypeOK, HomeType
  <1>1. home' = home => home' \in HomeType /\ HomeStep BY <1>0 DEF HomeStep
  <1>2. CASE TickStart
    BY <1>0, <1>2 DEF TickStart, HomeType, HomeStep
  <1>3. CASE TickStep /\ ~TickStart
    BY <1>1, <1>3 DEF TickStep, TickJudge, TickLease, TickRequest,
                TickEpochReceipt, TickComplete, TickIntent, TickRestart, files
  <1>4. CASE CommandStep
    BY <1>1, <1>4 DEF CommandStep, WriteCandidate, AdmitLease, AdmitBinding,
                PrepareRecoveryAgain, files
  <1>5. CASE QuietStep \/ OperatorRollback
    BY <1>1, <1>5 DEF QuietStep, CompleteVerification, WorkspaceWrite, LockReleased,
                OperatorRollback, files, vars
  <1>6. CASE \E a \in Roller : RollStep(a)
    BY <1>1, <1>6 DEF RollStep, RollbackLoad, RollbackQuiesce, RollbackArchive,
                RollbackPointer, RollbackProbe, RollbackReceipt, files
  <1>7. CASE \E a \in Actor : Crash(a) BY <1>1, <1>7 DEF Crash
  <1>8. CASE Rewrites BY <1>1, <1>8 DEF Rewrites, TickRenew, RollbackRevoke, LeaseLapses, files
  <1>9. CASE Opens BY <1>1, <1>9, OpensSession DEF files
  <1>10. CASE AdmitInsert BY <1>1, <1>10 DEF AdmitInsert, files
  <1>11. CASE \E p \in Launch : ProcStep(p)
    <2>1. PICK p \in Launch : ProcStep(p) BY <1>11
    <2>2. CASE CreateWorkspaceBinding(p)
      BY <1>0, <2>1, <2>2 DEF CreateWorkspaceBinding, HomeType, HomeStep
    <2>3. CASE MigrateCursor(p)
      BY <1>0, <2>1, <2>3 DEF MigrateCursor, HomeType, HomeStep
    <2>4. CASE ReceiptCursor(p)
      BY <1>0, <2>1, <2>4 DEF ReceiptCursor, HomeType, HomeStep
    <2>5. CASE \/ LaunchRuntime(p) \/ TakeRuntimeLock(p) \/ Bind(p) \/ Serve(p)
               \/ ProcessDies(p)
      <3>1. home' = home
        BY <2>5 DEF LaunchRuntime, TakeRuntimeLock, Bind, Serve, ProcessDies, files
      <3> QED BY <1>1, <2>1, <3>1
    <2> QED BY <2>1, <2>2, <2>3, <2>4, <2>5 DEF ProcStep
  <1> QED BY <1>2, <1>3, <1>4, <1>5, <1>6, <1>7, <1>8, <1>9, <1>10, <1>11, NextKinds
      DEF Reads

\* The names of candidates in rows and pointer files, and who changes them.
LEMMA NamesChange ==
    ASSUME TypeOK, EpochInv, [Next]_vars
    PROVE  /\ request' = request \/ TickComplete \/ TickRestart
           /\ \/ lease' = lease
              \/ lease' = act["tick"].c /\ At("tick", "lease")
              \/ lease' = act["command"].c /\ At("command", "admitLease")
           /\ \/ candidate' = candidate
              \/ candidate' = act["command"].c /\ At("command", "file")
           /\ worker' \in {worker, 0, Len(cand) + 1}
           /\ worker' = Len(cand) + 1 => worker' = worker \/ Opens
           /\ snap' = snap \/ \E c : snap' = [snap EXCEPT ![c] = canon]
  <1>1. CASE TickStep
    BY <1>1 DEF TickStep, TickStart, TickJudge, TickLease, TickRequest,
                TickEpochReceipt, TickComplete, TickIntent, TickRestart, files, rows
  <1>2. CASE CommandStep
    BY <1>2 DEF CommandStep, WriteCandidate, AdmitLease, AdmitBinding,
                PrepareRecoveryAgain, files, rows
  <1>3. CASE QuietStep \/ OperatorRollback
    BY <1>3 DEF QuietStep, CompleteVerification, LockReleased, WorkspaceWrite,
                OperatorRollback, files, rows, vars
  <1>4. CASE \E a \in Roller : RollStep(a)
    BY <1>4 DEF RollStep, RollbackLoad, RollbackQuiesce, RollbackArchive,
                RollbackPointer, RollbackProbe, RollbackReceipt, files, rows
  <1>5. CASE \E p \in Launch : ProcStep(p)
    BY <1>5 DEF ProcStep, LaunchRuntime, CreateWorkspaceBinding, MigrateCursor,
                ReceiptCursor, TakeRuntimeLock, Bind, Serve, ProcessDies, files, rows
  <1>6. CASE \E a \in Actor : Crash(a) BY <1>6 DEF Crash, rows
  <1>7. CASE TickRenew \/ \E c \in DOMAIN cand : LeaseLapses(c)
    BY <1>7 DEF TickRenew, LeaseLapses, files
  <1>8. CASE \E a \in Roller : RollbackRevoke(a)
    <2>1. PICK a \in Roller : RollbackRevoke(a) BY <1>8
    <2>2. UNCHANGED <<request, lease, candidate>> BY <2>1 DEF RollbackRevoke
    <2>3. worker' \in {worker, 0} BY <2>1 DEF RollbackRevoke
    <2>4. snap' = snap \/ \E c : snap' = [snap EXCEPT ![c] = canon]
      BY <2>1 DEF RollbackRevoke
    <2>5. 0 # Len(cand) + 1 BY Domain
    <2> QED BY <2>2, <2>3, <2>4, <2>5
  <1>9. CASE Opens
    <2>1. PICK Ended \in SUBSET (DOMAIN cand), epoch \in Nat, prior \in 0 .. Len(cand) :
             OpenSession(Ended, epoch, prior)
      BY <1>9, OpensSession
    <2> QED BY <1>9, <2>1, OpensSession DEF OpenSession, files
  <1>10. CASE AdmitInsert BY <1>10 DEF AdmitInsert, files
  <1> QED BY <1>1, <1>2, <1>3, <1>4, <1>5, <1>6, <1>7, <1>8, <1>9, <1>10, NextKinds
      DEF Reads, Rewrites

LEMMA NextNames ==
    ASSUME TypeOK, ActInv, EpochInv, [Next]_vars
    PROVE  /\ worker' \in 0 .. Len(cand') /\ lease' \in 0 .. Len(cand')
           /\ candidate' \in 0 .. Len(cand')
           /\ request' \in [state: {"none", "awaiting", "completed"}, prior: 0 .. Len(cand')]
           /\ snap' \in [Cand -> 0 .. MaxEvents]
  <1>0. /\ 0 .. Len(cand) \subseteq 0 .. Len(cand') /\ Len(cand') \in Nat
        /\ DOMAIN cand \subseteq 0 .. Len(cand') /\ Admitted \subseteq DOMAIN cand
    BY NextRows, Wider, Domain
  <1>1. /\ worker \in 0 .. Len(cand) /\ lease \in 0 .. Len(cand)
        /\ candidate \in 0 .. Len(cand)
        /\ request \in [state: {"none", "awaiting", "completed"}, prior: 0 .. Len(cand)]
        /\ snap \in [Cand -> 0 .. MaxEvents] /\ canon \in 0 .. MaxEvents
    BY DEF TypeOK
  <1>2. lease' \in 0 .. Len(cand')
    BY <1>0, <1>1, NamesChange DEF ActInv, At
  <1>3. candidate' \in 0 .. Len(cand')
    BY <1>0, <1>1, NamesChange DEF ActInv, At
  <1>4. worker' \in 0 .. Len(cand')
    <2>1. CASE Opens
      <3>1. PICK Ended \in SUBSET (DOMAIN cand), epoch \in Nat, prior \in 0 .. Len(cand) :
               OpenSession(Ended, epoch, prior)
        BY <2>1, OpensSession
      <3>2. Len(cand') = Len(cand) + 1 BY <2>1, <3>1, OpensSession, OpenSessionRows
      <3>3. worker' = Len(cand) + 1 BY <3>1 DEF OpenSession
      <3> QED BY <1>0, <3>2, <3>3
    <2>2. CASE ~Opens
      <3>1. worker' = worker \/ worker' = 0 BY <2>2, NamesChange
      <3> QED BY <1>0, <1>1, <3>1
    <2> QED BY <2>1, <2>2
  <1>5. request' \in [state: {"none", "awaiting", "completed"}, prior: 0 .. Len(cand')]
    <2>1. request \in [state: {"none", "awaiting", "completed"}, prior: 0 .. Len(cand')]
      BY <1>0, <1>1
    <2>2. CASE request' = request BY <2>1, <2>2
    <2>3. CASE TickComplete BY <2>1, <2>3 DEF TickComplete
    <2>4. CASE TickRestart
      <3>1. act["tick"].c \in 0 .. Len(cand') BY <1>0, <2>4 DEF TickRestart, At, ActInv
      <3> QED BY <2>4, <3>1 DEF TickRestart
    <2> QED BY <2>2, <2>3, <2>4, NamesChange
  <1>6. snap' \in [Cand -> 0 .. MaxEvents]
    <2>1. CASE snap' = snap BY <1>1, <2>1
    <2>2. CASE \E c : snap' = [snap EXCEPT ![c] = canon] BY <1>1, <2>2
    <2> QED BY <2>1, <2>2, NamesChange
  <1> QED BY <1>2, <1>3, <1>4, <1>5, <1>6

\* The counters and the mandate.
LEMMA NextCounters ==
    ASSUME TypeOK, EpochInv, CanonInv, [Next]_vars
    PROVE  /\ mandate' \in {"active", "completed"} /\ canon' \in 0 .. MaxEvents
           /\ events' \in 0 .. MaxEvents /\ CanonInv'
  <1>0. /\ mandate \in {"active", "completed"} /\ canon \in 0 .. MaxEvents
        /\ events \in 0 .. MaxEvents /\ canon <= events
    BY DEF TypeOK, CanonInv
  <1>1. ASSUME mandate' \in {mandate, "completed"},
               \/ canon' = canon /\ events' = events
               \/ canon' \in {canon, canon + 1} /\ Event
        PROVE  /\ mandate' \in {"active", "completed"} /\ canon' \in 0 .. MaxEvents
               /\ events' \in 0 .. MaxEvents /\ CanonInv'
    <2>1. CASE canon' = canon /\ events' = events BY <1>0, <1>1, <2>1 DEF CanonInv
    <2>2. CASE canon' \in {canon, canon + 1} /\ Event
      BY <1>0, <1>1, <2>2, Bounds DEF CanonInv, Event
    <2> QED BY <1>1, <2>1, <2>2
  <1>2. CASE TickStep
    BY <1>1, <1>2 DEF TickStep, TickStart, TickJudge, TickLease, TickRequest,
                TickEpochReceipt, TickComplete, TickIntent, TickRestart, rows
  <1>3. CASE CommandStep
    BY <1>1, <1>3 DEF CommandStep, WriteCandidate, AdmitLease, AdmitBinding,
                PrepareRecoveryAgain, rows
  <1>4. CASE QuietStep \/ OperatorRollback
    BY <1>1, <1>4 DEF QuietStep, CompleteVerification, LockReleased, WorkspaceWrite,
                OperatorRollback, rows, vars
  <1>5. CASE \E a \in Roller : RollStep(a)
    BY <1>1, <1>5 DEF RollStep, RollbackLoad, RollbackQuiesce, RollbackArchive,
                RollbackPointer, RollbackProbe, RollbackReceipt, rows
  <1>6. CASE \E p \in Launch : ProcStep(p)
    BY <1>1, <1>6 DEF ProcStep, LaunchRuntime, CreateWorkspaceBinding, MigrateCursor,
                ReceiptCursor, TakeRuntimeLock, Bind, Serve, ProcessDies, rows
  <1>7. CASE \E a \in Actor : Crash(a) BY <1>1, <1>7 DEF Crash, rows
  <1>8. CASE Rewrites BY <1>1, <1>8 DEF Rewrites, TickRenew, RollbackRevoke, LeaseLapses
  <1>9. CASE Opens BY <1>1, <1>9, OpensSession
  <1>10. CASE AdmitInsert BY <1>1, <1>10 DEF AdmitInsert
  <1> QED BY <1>2, <1>3, <1>4, <1>5, <1>6, <1>7, <1>8, <1>9, <1>10, NextKinds DEF Reads

LEMMA NextType ==
    ASSUME TypeOK, ActInv, EpochInv, LockInv, CanonInv, [Next]_vars
    PROVE  TypeOK'
  <1>1. cand' \in Seq(CandRow) /\ Len(cand') <= MaxCand BY NextRows DEF RowsStep
  <1>2. act' \in [Actor -> [pc: ActPc, c: 0 .. Len(cand')]] BY NextAct DEF ActRow
  <1>3. active' \in [kind: {"missing", "binding"} \union Archive, c: 0 .. Len(cand')]
    BY NextPointer DEF Pointer, Archive
  <1>4. once' \in [Artifact -> [Cand -> {"none", "torn", "done"}]] BY NextOnce DEF OnceType
  <1>5. home' \in [empty: BOOLEAN, workspace: BOOLEAN, target: BOOLEAN, receipt: BOOLEAN]
    BY HomeChanges DEF HomeType
  <1>6. bootstrap' \in 0 .. MaxLaunch
    <2>1. bootstrap \in 0 .. MaxLaunch /\ Launch \subseteq 0 .. MaxLaunch
      BY Bounds DEF TypeOK, Launch
    <2> QED BY <2>1, HomeChanges, ProcMoves
  <1> QED
    BY <1>1, <1>2, <1>3, <1>4, <1>5, <1>6, NextPriors, NextNames, NextLock, NextCounters
    DEF TypeOK

\* The state directory.
LEMMA NextHome ==
    ASSUME TypeOK, ActInv, EpochInv, HomeInv, [Next]_vars
    PROVE  HomeInv'
  <1>0. /\ HomeStep /\ (Whole => Whole')
        /\ 0 \notin Launch /\ Admitted \subseteq DOMAIN cand
    BY HomeChanges, Domain DEF HomeStep, Whole, Launch
  <1>1. bootstrap' # 0 => Whole'
    <2>1. CASE bootstrap' = bootstrap BY <1>0, <2>1 DEF HomeInv
    <2>2. CASE \E p \in Launch : ProcStep(p)
      <3>1. PICK p \in Launch : ProcStep(p) BY <2>2
      <3>2. bootstrap' = bootstrap \/ proc[p] = "ready" BY <3>1, ProcMoves
      <3> QED BY <1>0, <2>1, <3>2 DEF HomeInv
    <2> QED BY <2>1, <2>2, HomeChanges
  <1>2. bootstrap # 0 => bootstrap' # 0 BY <1>0, HomeChanges, ProcMoves
  <1>3. DOMAIN cand' # {} => bootstrap' # 0
    <2>1. CASE Opens BY <1>2, <2>1, OpensSession DEF BootstrapHeld
    <2>2. CASE ~Opens
      <3>1. Reads \/ Rewrites \/ AdmitInsert BY <2>2, NextKinds
      <3>2. DOMAIN cand' = DOMAIN cand
        BY <3>1, ReadsKeepRows, RewriteRows, AdmitRows DEF NoneAdmitted
      <3> QED BY <1>2, <3>2 DEF HomeInv
    <2> QED BY <2>1, <2>2
  <1>4. request' # NoRequest => Whole'
    <2>1. CASE request' = request BY <1>0, <2>1 DEF HomeInv
    <2>2. CASE TickComplete \/ TickRestart
      <3>1. act["tick"].c \in DOMAIN cand
        BY <1>0, <2>2 DEF TickComplete, TickRestart, At, ActInv
      <3> QED BY <1>0, <3>1 DEF HomeInv
    <2> QED BY <2>1, <2>2, NamesChange
  <1>5. ASSUME NEW p \in Launch
        PROVE  /\ proc'[p] \in {"placed", "moved"} => home'.workspace /\ ~home'.empty
               /\ proc'[p] = "moved" => home'.target
               /\ proc'[p] \in {"ready"} \union LockPc => Whole'
    <2>1. CASE proc'[p] = proc[p] BY <1>0, <2>1 DEF HomeInv, HomeStep
    <2>2. CASE proc'[p] = "dead" BY <2>2 DEF LockPc
    <2>3. CASE ProcStep(p)
      <3>0. proc \in [Launch -> ProcPc] /\ home \in HomeType BY DEF TypeOK, HomeType
      <3>1. CASE LaunchRuntime(p)
        <4>1. CASE proc'[p] = "empty" BY <4>1 DEF LockPc
        <4>2. CASE request.state = "awaiting" /\ proc'[p] = "ready"
          <5>1. request # NoRequest BY <4>2 DEF NoRequest
          <5> QED BY <1>0, <4>2, <5>1 DEF HomeInv
        <4> QED BY <3>0, <3>1, <4>1, <4>2 DEF LaunchRuntime
      <3>2. CASE CreateWorkspaceBinding(p)
        <4>1. home'.workspace /\ ~home'.empty
          BY <3>0, <3>2 DEF CreateWorkspaceBinding, HomeType
        <4>2. proc'[p] \in {"dead", "placed"} BY <3>0, <3>2 DEF CreateWorkspaceBinding
        <4> QED BY <4>1, <4>2 DEF LockPc
      <3>3. CASE MigrateCursor(p)
        <4>1. CASE proc'[p] = "dead" BY <2>2, <4>1
        <4>2. CASE proc'[p] = "moved" /\ home' = [home EXCEPT !.target = TRUE]
          BY <1>0, <3>0, <3>3, <4>2 DEF MigrateCursor, HomeInv, HomeStep, HomeType, LockPc
        <4> QED BY <3>0, <3>3, <4>1, <4>2 DEF MigrateCursor
      <3>4. CASE ReceiptCursor(p)
        <4>1. home.workspace /\ ~home.empty /\ home.target
          BY <3>4 DEF ReceiptCursor, HomeInv
        <4>2. Whole' BY <3>0, <3>4, <4>1 DEF ReceiptCursor, Whole, HomeType
        <4> QED BY <4>2 DEF Whole
      <3>5. CASE TakeRuntimeLock(p)
        <4>1. Whole' BY <1>0, <3>5 DEF TakeRuntimeLock, HomeInv
        <4> QED BY <4>1 DEF Whole
      <3>6. CASE Bind(p) \/ Serve(p)
        <4>1. Whole' BY <1>0, <3>6 DEF Bind, Serve, HomeInv, LockPc
        <4> QED BY <4>1 DEF Whole
      <3>7. CASE ProcessDies(p) BY <2>2, <3>0, <3>7 DEF ProcessDies
      <3> QED BY <2>3, <3>1, <3>2, <3>3, <3>4, <3>5, <3>6, <3>7 DEF ProcStep
    <2>4. CASE \E q \in Launch : q # p /\ ProcStep(q) BY <2>1, <2>4, ProcMoves
    <2>5. CASE \E a \in Roller : RollbackQuiesce(a)
      BY <2>1, <2>2, <2>5, QuiesceMoves
    <2>6. CASE LockReleased \/ UNCHANGED <<proc, holder>> BY <2>1, <2>6 DEF LockReleased
    <2> QED BY <2>3, <2>4, <2>5, <2>6, ProcsChange
  <1> QED BY <1>1, <1>3, <1>4, <1>5 DEF HomeInv

-----------------------------------------------------------------------------
(* Evidence: receipts, intents and the rollbacks that make them.           *)

\* What has ended stays so, in rows, artifacts and processes.
Forward ==
    /\ RowsStep /\ OnceStep
    /\ \A p \in Launch : proc[p] = "dead" => proc'[p] = "dead"

LEMMA NextForward ==
    ASSUME TypeOK, ActInv, EpochInv, LockInv, [Next]_vars
    PROVE  Forward
  BY NextRows, NextOnce, NextLock DEF Forward

LEMMA OverStays ==
    ASSUME TypeOK, Forward, NEW c \in DOMAIN cand
    PROVE  /\ Closed(c) => Closed(c)'
           /\ Stopped(c) => Stopped(c)'
           /\ \A d \in Archive : once[d][c] = "done" => once'[d][c] = "done"
           /\ \A a \in Roller : Over(a, c) => Over(a, c)'
  <1>1. c \in Cand /\ cand[c] \in CandRow /\ Archive \subseteq Artifact
    BY Domain DEF Artifact, Archive
  <1>2. cand[c].proc \in Launch BY <1>1 DEF CandRow
  <1>3. cand'[c].proc = cand[c].proc /\ (Closed(c) => Closed(c)')
    BY DEF Closed, Forward, RowsStep, RowStep
  <1>4. Stopped(c) => Stopped(c)' BY <1>2, <1>3 DEF Stopped, Forward
  <1>5. \A d \in Archive : once[d][c] = "done" => once'[d][c] = "done"
    BY <1>1 DEF Forward, OnceStep
  <1>6. \A a \in Roller : Over(a, c) => Over(a, c)'
    BY <1>4, <1>5 DEF Over, ArchivesOf, Archive
  <1> QED BY <1>3, <1>4, <1>5, <1>6

\* The actors' records after one of them has moved.
LEMMA After ==
    ASSUME TypeOK, NEW a \in Actor
    PROVE  /\ Raise(a) => act'[a] = Idle
           /\ \A pc : Go(a, pc) => act'[a].pc = pc /\ act'[a].c = act[a].c
           /\ (\/ Raise(a) \/ \E pc : Go(a, pc)
               \/ \E rec : act' = [act EXCEPT ![a] = rec])
              => \A b \in Actor : b # a => act'[b] = act[b]
  <1>1. act \in [Actor -> ActRow] /\ act[a] \in ActRow BY DEF TypeOK, ActRow
  <1>2. Raise(a) => act'[a] = Idle BY <1>1 DEF Raise
  <1>3. \A pc : Go(a, pc) => act'[a].pc = pc /\ act'[a].c = act[a].c
    BY <1>1 DEF Go, ActRow
  <1>4. (\/ Raise(a) \/ \E pc : Go(a, pc) \/ \E rec : act' = [act EXCEPT ![a] = rec])
        => \A b \in Actor : b # a => act'[b] = act[b]
    BY <1>1 DEF Raise, Go
  <1> QED BY <1>2, <1>3, <1>4

\* Where a roller relies on nothing that it has made.
QuietPc == {"idle", "judge", "renew", "lease", "request", "epoch", "complete",
            "load", "revoke"}

\* A roller's own steps of the rollback, up to the restart.
Rolls(a) == RollStep(a) \/ RollbackRevoke(a) \/ (a = "tick" /\ TickIntent)

\* Whoever else moves leaves the record of a alone.
LEMMA OthersMove ==
    ASSUME TypeOK, EpochInv, [Next]_vars, NEW a \in Roller, ~Rolls(a),
           a = "tick" => ~TickStep /\ ~TickRenew
    PROVE  act'[a] = act[a] \/ Raise(a) \/ (a = "operator" /\ Go(a, "load"))
  <1>0. /\ a \in Actor /\ a # "command" /\ Roller \subseteq Actor
        /\ "command" \in Actor /\ "tick" \in Actor /\ "operator" \in Actor
        /\ a \in {"tick", "operator"}
    BY DEF Actor, Roller
  <1>1. CASE TickStep \/ TickRenew
    <2>1. \/ Raise("tick") \/ \E pc : Go("tick", pc)
          \/ \E rec : act' = [act EXCEPT !["tick"] = rec]
      BY <1>1 DEF TickStep, TickStart, TickJudge, TickLease, TickRequest, TickEpochReceipt,
                  TickComplete, TickIntent, TickRestart, TickRenew, WriteOnce
    <2> QED BY <1>0, <1>1, <2>1, After
  <1>2. CASE CommandStep
    <2>1. \/ Raise("command") \/ Go("command", "admitBinding")
          \/ \E rec : act' = [act EXCEPT !["command"] = rec]
      BY <1>2 DEF CommandStep, WriteCandidate, AdmitLease, AdmitBinding, PrepareRecoveryAgain
    <2> QED BY <1>0, <2>1, After
  <1>3. CASE QuietStep \/ (\E c \in DOMAIN cand : LeaseLapses(c)) \/ \E p \in Launch : ProcStep(p)
    <2>1. act' = act
      BY <1>3 DEF QuietStep, CompleteVerification, LockReleased, WorkspaceWrite, vars,
                  LeaseLapses, ProcStep, LaunchRuntime, CreateWorkspaceBinding,
                  MigrateCursor, ReceiptCursor, TakeRuntimeLock, Bind, Serve, ProcessDies
    <2> QED BY <2>1
  <1>4. CASE OperatorRollback BY <1>0, <1>4, After DEF OperatorRollback
  <1>5. CASE \E b \in Roller : RollStep(b) \/ RollbackRevoke(b)
    <2>1. PICK b \in Roller : RollStep(b) \/ RollbackRevoke(b) BY <1>5
    <2>2. b # a BY <2>1 DEF Rolls
    <2>3. \/ Raise(b) \/ \E pc : Go(b, pc)
          \/ \E rec : act' = [act EXCEPT ![b] = rec]
      BY <2>1 DEF RollStep, RollbackLoad, RollbackQuiesce, RollbackArchive,
                  RollbackPointer, RollbackProbe, RollbackReceipt, RollbackRevoke, WriteOnce
    <2> QED BY <1>0, <2>2, <2>3, After
  <1>6. CASE Opens \/ AdmitInsert
    <2>1. \E rec : act' = [act EXCEPT !["command"] = rec]
      BY <1>6, OpensSession DEF AdmitInsert, OpenSession
    <2> QED BY <1>0, <2>1, After
  <1>7. CASE \E b \in Actor : Crash(b) BY <1>0, <1>7, After DEF Crash
  <1> QED BY <1>1, <1>2, <1>3, <1>4, <1>5, <1>6, <1>7, NextKinds DEF Reads, Rewrites

\* The rollback of a moves by its own steps only.
LEMMA RollerMoves ==
    ASSUME TypeOK, EpochInv, [Next]_vars, NEW a \in Roller
    PROVE  act'[a] = act[a] \/ act'[a].pc \in QuietPc \/ Rolls(a)
  <1>0. a \in Actor /\ "tick" \in Actor BY DEF Actor, Roller
  <1>1. Raise(a) => act'[a].pc \in QuietPc BY <1>0, After DEF Idle, QuietPc
  <1>2. \A pc \in QuietPc : Go(a, pc) => act'[a].pc \in QuietPc BY <1>0, After
  <1>3. CASE a = "tick" /\ TickStart
    <2>1. act \in [Actor -> ActRow] BY DEF TypeOK, ActRow
    <2>2. act'["tick"].pc \in QuietPc BY <1>0, <1>3, <2>1 DEF TickStart, Idle, QuietPc
    <2> QED BY <1>3, <2>2
  <1>4. CASE a = "tick" /\ TickIntent BY <1>4 DEF Rolls
  <1>5. CASE a = "tick" /\ (TickStep \/ TickRenew) /\ ~TickStart /\ ~TickIntent
    <2>1. Raise("tick") \/ \E pc \in QuietPc : Go("tick", pc)
      BY <1>5 DEF TickStep, TickJudge, TickLease, TickRequest, TickEpochReceipt,
                  TickComplete, TickRestart, TickRenew, WriteOnce, QuietPc
    <2> QED BY <1>1, <1>2, <1>5, <2>1
  <1>6. CASE a = "tick" => ~TickStep /\ ~TickRenew
    BY <1>1, <1>2, <1>6, OthersMove DEF QuietPc
  <1> QED BY <1>3, <1>4, <1>5, <1>6

\* The roller stays where it was, or where it relies on nothing.
LEMMA UnderwayStays ==
    ASSUME TypeOK, ActInv, Forward, NEW a \in Roller, Underway(a),
           act'[a] = act[a] \/ act'[a].pc \in QuietPc
    PROVE  Underway(a)'
  <1>1. CASE act'[a].pc \in QuietPc BY <1>1 DEF Underway, QuietPc, Archive
  <1>2. CASE act'[a] = act[a]
    <2>1. PICK u : u = act[a] OBVIOUS
    <2>2. act'[a] = u /\ act[a] = u BY <1>2, <2>1
    <2>3. u.pc \in RollbackPc \union {"intent", "restart"} => u.c \in DOMAIN cand /\ u.c \in Cand
      BY <2>2, Domain DEF ActInv, Roller, RollbackPc, OperatorPc, Archive
    <2>4. u.pc = "quiesce" => Closed(u.c)'
      BY <2>2, <2>3, OverStays DEF Underway, RollbackPc, Archive
    <2>5. u.pc = "archive" => Stopped(u.c)'
      BY <2>2, <2>3, OverStays DEF Underway, RollbackPc, Archive
    <2>6. u.pc \in {"probe", "write", "intent", "restart"} => Over(a, u.c)'
      BY <2>2, <2>3, OverStays DEF Underway, RollbackPc, Archive
    <2>8. u.pc \in Archive =>
              Stopped(u.c)' /\ u.pc \in ArchivesOf(a) /\ once'[u.pc][u.c] = "done"
      BY <2>2, <2>3, OverStays DEF Underway, RollbackPc, Archive
    <2>7. u.pc \in {"intent", "restart"} => once'["tick"][u.c] = "done"
      BY <2>2, <2>3 DEF Underway, RollbackPc, Forward, OnceStep, Artifact, Roller, Archive
    <2> QED BY <2>2, <2>4, <2>5, <2>6, <2>7, <2>8 DEF Underway, Over, Stopped, Closed
  <1> QED BY <1>1, <1>2

\* Each step of a rollback makes what the next one relies on.
LEMMA UnderwayRolls ==
    ASSUME TypeOK, ActInv, EpochInv, Forward, Artifacts, NEW a \in Roller, Underway(a),
           Rolls(a), [Next]_vars
    PROVE  Underway(a)'
  <1>0. /\ a \in Actor /\ a \in Artifact /\ "tick" \in Actor /\ "tick" \in Artifact
        /\ Archive \union {"intent"} \subseteq Artifact
        /\ a \in {"tick", "operator"} /\ once \in OnceType
    BY DEF Actor, Roller, Artifact, TypeOK, OnceType, Archive
  <1>1. act'[a].pc \in QuietPc => Underway(a)' BY UnderwayStays
  <1>2. Raise(a) => Underway(a)' BY <1>0, <1>1, After DEF Idle, QuietPc
  <1>3. CASE RollbackLoad(a)
    <2>1. active.kind # "missing" BY <1>3 DEF RollbackLoad, At, ActInv, Roller
    <2>2. PICK c \in DOMAIN cand : c = active.c /\ c \in Cand
      BY <2>1, Domain DEF ActInv
    <2>3. once[a][c] \in {"none", "torn", "done"} BY <1>0, <2>2 DEF OnceType
    <2>4. act \in [Actor -> ActRow] BY DEF TypeOK, ActRow
    <2>5. CASE once[a][c] = "done"
      <3>1. act'[a].pc = "archive" /\ act'[a].c = c
        BY <1>0, <1>3, <2>2, <2>4, <2>5 DEF RollbackLoad
      <3>2. Over(a, c) BY <2>2, <2>5 DEF Artifacts
      <3>3. Stopped(c)' BY <3>2, OverStays DEF Over
      <3> QED BY <3>1, <3>3 DEF Underway, Stopped, Closed, Archive
    <2>6. CASE once[a][c] = "none"
      <3>1. act'[a].pc = "revoke" BY <1>0, <1>3, <2>2, <2>4, <2>6 DEF RollbackLoad
      <3> QED BY <1>1, <3>1 DEF QuietPc
    <2>7. CASE once[a][c] = "torn"
      <3>1. act'[a].pc = "idle" BY <1>0, <1>3, <2>2, <2>4, <2>7 DEF RollbackLoad
      <3> QED BY <1>1, <3>1 DEF QuietPc
    <2> QED BY <2>3, <2>5, <2>6, <2>7
  <1>4. CASE ~RollbackLoad(a)
    <2>1. act[a].pc \in RollbackPc \union {"intent"}
      BY <1>4 DEF Rolls, RollStep, RollbackQuiesce, RollbackArchive, RollbackPointer,
                  RollbackProbe, RollbackReceipt, RollbackRevoke, TickIntent, At, RollbackPc, Archive
    <2>2. PICK c \in DOMAIN cand : c = act[a].c /\ c \in Cand
      BY <2>1, Domain DEF ActInv, Roller, RollbackPc, OperatorPc, Archive
    <2>3. cand \in Seq(CandRow) /\ cand[c] \in CandRow BY Domain DEF TypeOK
    <2>4. ASSUME NEW pc, Go(a, pc) PROVE act'[a].pc = pc /\ act'[a].c = c
      BY <1>0, <2>2, <2>4, After
    <2>5. CASE RollbackRevoke(a)
      <3>1. act'[a].pc = "quiesce" /\ act'[a].c = c BY <2>4, <2>5 DEF RollbackRevoke
      <3>2. cand' = [cand EXCEPT ![c].adm = "revoked", ![c].session = "ended"]
        BY <2>2, <2>5 DEF RollbackRevoke
      <3>3. Closed(c)' BY <2>3, <3>2 DEF Closed, CandRow
      <3> QED BY <3>1, <3>3 DEF Underway, Closed, Archive
    <2>6. CASE RollbackQuiesce(a)
      <3>1. act'[a].pc = "archive" /\ act'[a].c = c BY <2>4, <2>6 DEF RollbackQuiesce
      <3>2. Closed(c)' BY <2>2, <2>6, OverStays DEF Underway, RollbackQuiesce, At
      <3>3. proc'[cand[c].proc] = "dead" /\ cand' = cand BY <2>2, <2>6, QuiesceMoves
      <3> QED BY <3>1, <3>2, <3>3 DEF Underway, Closed, Stopped, Archive
    <2>7. ASSUME NEW d \in Archive, RollbackArchive(a, d) PROVE Underway(a)'
      <3>1. Stopped(c)' BY <2>2, <2>7, OverStays DEF Underway, RollbackArchive, At
      <3>0. d \in ArchivesOf(a) BY <2>7 DEF RollbackArchive
      <3>2. CASE Go(a, "probe") /\ active = [kind |-> d, c |-> c] /\ once' = once
        <4>1. once[d][c] = "done" BY <3>2 DEF Artifacts
        <4>2. act'[a].pc = "probe" /\ act'[a].c = c BY <2>4, <3>2
        <4>3. "probe" \notin Archive BY DEF Archive
        <4> QED BY <3>0, <3>1, <3>2, <4>1, <4>2, <4>3 DEF Underway, Over, Stopped, Closed
      <3>3. CASE WriteOnce(a, d, d)
        <4>1. \/ Raise(a)
              \/ Go(a, d) /\ once'[d][c] = "done"
          BY <1>0, <2>2, <3>3, WriteOnceStep
        <4>2. CASE Go(a, d) /\ once'[d][c] = "done"
          <5>1. act'[a].pc = d /\ act'[a].c = c BY <2>4, <4>2
          <5>2. d \notin {"quiesce", "archive", "probe", "write", "intent", "restart"}
            BY DEF Archive
          <5> QED BY <3>0, <3>1, <4>2, <5>1, <5>2 DEF Underway, Over, Stopped, Closed
        <4> QED BY <1>2, <4>1, <4>2
      <3>4. \/ Go(a, "probe") /\ active = [kind |-> d, c |-> c] /\ once' = once
            \/ WriteOnce(a, d, d) \/ Raise(a)
        BY <2>2, <2>7 DEF RollbackArchive
      <3> QED BY <1>2, <3>2, <3>3, <3>4
    <2>8. ASSUME NEW d \in Archive, RollbackPointer(a, d) PROVE Underway(a)'
      <3>1. act'[a].pc = "probe" /\ act'[a].c = c BY <2>4, <2>8 DEF RollbackPointer
      <3>2. Stopped(c) /\ d \in ArchivesOf(a) /\ once[d][c] = "done"
        BY <2>2, <2>8 DEF Underway, RollbackPointer, At
      <3>3. Over(a, c)' BY <3>2, OverStays DEF Over
      <3>4. "probe" \notin Archive BY DEF Archive
      <3> QED BY <3>1, <3>3, <3>4 DEF Underway, Over, Stopped, Closed
    <2>9. CASE RollbackProbe(a)
      <3>1. Over(a, c)' BY <2>2, <2>9, OverStays DEF Underway, RollbackProbe, At
      <3>2. CASE Go(a, "write")
        <4>1. act'[a].pc = "write" /\ act'[a].c = c BY <2>4, <3>2
        <4> QED BY <3>1, <4>1 DEF Underway, Over, Stopped, Closed, Archive
      <3>3. CASE a = "tick" /\ Go(a, "intent") /\ once[a][c] = "done"
        <4>1. act'[a].pc = "intent" /\ act'[a].c = c BY <2>4, <3>3
        <4>2. once'["tick"][c] = "done" BY <1>0, <2>2, <3>3 DEF Forward, OnceStep
        <4> QED BY <3>1, <4>1, <4>2 DEF Underway, Over, Stopped, Closed, Archive
      <3>4. \/ Raise(a) \/ Go(a, "write")
            \/ a = "tick" /\ Go(a, "intent") /\ once[a][c] = "done"
        BY <2>2, <2>9 DEF RollbackProbe
      <3> QED BY <1>2, <3>2, <3>3, <3>4
    <2>10. CASE RollbackReceipt(a)
      <3>1. Over(a, c)' BY <2>2, <2>10, OverStays DEF Underway, RollbackReceipt, At
      <3>2. CASE a = "tick" /\ WriteOnce(a, "tick", "intent")
        <4>1. Raise(a) \/ (Go(a, "intent") /\ once'["tick"][c] = "done")
          BY <1>0, <2>2, <3>2, WriteOnceStep
        <4>2. CASE Go(a, "intent") /\ once'["tick"][c] = "done"
          <5>1. act'[a].pc = "intent" /\ act'[a].c = c BY <2>4, <4>2
          <5> QED BY <3>1, <4>2, <5>1 DEF Underway, Over, Stopped, Closed, Archive
        <4> QED BY <1>2, <4>1, <4>2
      <3> QED BY <1>2, <2>10, <3>2 DEF RollbackReceipt
    <2>11. CASE a = "tick" /\ TickIntent
      <3>1. Over(a, c)' BY <2>2, <2>11, OverStays DEF Underway, TickIntent, At
      <3>2. once'["tick"][c] = "done"
        BY <1>0, <2>2, <2>11 DEF Underway, TickIntent, At, Forward, OnceStep
      <3>3. Raise(a) \/ Go(a, "restart") BY <2>11 DEF TickIntent, WriteOnce
      <3>4. CASE Go(a, "restart")
        <4>1. act'[a].pc = "restart" /\ act'[a].c = c BY <2>4, <3>4
        <4> QED BY <3>1, <3>2, <4>1 DEF Underway, Over, Stopped, Closed, Archive
      <3> QED BY <1>2, <3>3, <3>4
    <2> QED
      BY <1>4, <2>5, <2>6, <2>7, <2>8, <2>9, <2>10, <2>11 DEF Rolls, RollStep
  <1> QED BY <1>3, <1>4

LEMMA NextUnderway ==
    ASSUME TypeOK, ActInv, EpochInv, LockInv, Artifacts, NEW a \in Roller, Underway(a),
           [Next]_vars
    PROVE  Underway(a)'
  BY NextForward, RollerMoves, UnderwayStays, UnderwayRolls

\* A new receipt is that of an epoch that is over, and a new intent has one.
LEMMA NextArtifacts ==
    ASSUME TypeOK, ActInv, EpochInv, LockInv, Artifacts, Underway("tick"),
           Underway("operator"), [Next]_vars
    PROVE  Artifacts'
  <1>0. /\ Roller = {"tick", "operator"} /\ Roller \subseteq Artifact
        /\ Archive \union {"intent", "epoch"} \subseteq Artifact
        /\ \A d \in Archive : d \notin Roller /\ d # "intent"
        /\ "intent" \notin Roller /\ "epoch" \notin Roller
    BY DEF Roller, Artifact, Archive
  <1>1. Forward BY NextForward
  <1>2. DOMAIN cand \subseteq DOMAIN cand' BY <1>1 DEF Forward, RowsStep
  <1>3. ASSUME NEW a \in Roller, NEW c \in Cand, once'[a][c] = "done"
        PROVE  c \in DOMAIN cand' /\ Over(a, c)'
    <2>1. CASE once[a][c] = "done"
      BY <1>1, <1>2, <2>1, OverStays DEF Artifacts
    <2>2. CASE once[a][c] # "done"
      <3>1. RollbackReceipt(a) /\ c = act[a].c
        BY <1>0, <1>3, <2>2, NextOnce DEF OnlyNew
      <3>2. c \in DOMAIN cand
        BY <1>0, <3>1, Domain DEF RollbackReceipt, At, ActInv, RollbackPc, Archive
      <3>3. Over(a, c) BY <1>0, <3>1 DEF RollbackReceipt, At, Underway
      <3> QED BY <1>1, <1>2, <3>2, <3>3, OverStays
    <2> QED BY <2>1, <2>2
  <1>4. ASSUME NEW c \in Cand, once'["intent"][c] = "done" PROVE once'["tick"][c] = "done"
    <2>1. CASE once["intent"][c] = "done"
      BY <1>0, <1>1, <2>1 DEF Artifacts, Forward, OnceStep
    <2>2. CASE once["intent"][c] # "done"
      <3>1. TickIntent /\ c = act["tick"].c
        BY <1>0, <1>4, <2>2, NextOnce DEF OnlyNew
      <3>2. once["tick"][c] = "done" BY <3>1 DEF TickIntent, At, Underway
      <3> QED BY <1>0, <1>1, <3>2 DEF Forward, OnceStep
    <2> QED BY <2>1, <2>2
  <1>5. ASSUME active'.kind \in Archive PROVE once'[active'.kind][active'.c] = "done"
    <2>0. /\ active.kind \in Archive => active.c \in Cand
          /\ "binding" \notin Archive /\ "missing" \notin Archive
      BY Domain DEF ActInv, Archive
    <2>1. CASE active' = active
      BY <1>0, <1>1, <1>5, <2>0, <2>1 DEF Artifacts, Forward, OnceStep
    <2>2. CASE TickStart BY <1>5, <2>0, <2>1, <2>2 DEF TickStart
    <2>3. CASE AdmitBinding BY <1>5, <2>0, <2>3 DEF AdmitBinding
    <2>4. ASSUME NEW a \in Roller, NEW d \in Archive, RollbackPointer(a, d)
          PROVE  once'[active'.kind][active'.c] = "done"
      <3>1. active'.kind = d /\ active'.c = act[a].c BY <2>4 DEF RollbackPointer
      <3>2. act[a].c \in Cand
        BY <1>0, <2>4, Domain DEF RollbackPointer, At, ActInv, RollbackPc, Archive
      <3>3. once[d][act[a].c] = "done" BY <1>0, <2>4 DEF RollbackPointer, At, Underway
      <3>4. OnceStep /\ d \in Artifact BY <1>0, <1>1 DEF Forward
      <3>5. PICK c \in Cand : c = act[a].c BY <3>2
      <3>6. once'[d][c] = "done" BY <3>3, <3>4, <3>5 DEF OnceStep
      <3> QED BY <3>1, <3>5, <3>6
    <2> QED BY <2>1, <2>2, <2>3, <2>4, PointerChanges
  <1> QED BY <1>3, <1>4, <1>5 DEF Artifacts

\* What completes a restart goes on doing so while that restart is requested.
LEMMA CompletesStays ==
    ASSUME TypeOK, ActInv, EpochInv, LockInv, [Next]_vars, request'.prior = request.prior,
           NEW c \in Admitted, Completes(c)
    PROVE  c \in Admitted' /\ Completes(c)'
  <1>1. Forward /\ Admitted \subseteq Admitted' BY NextForward, NextAdmitted
  <1>2. c \in DOMAIN cand /\ c \in Cand /\ "epoch" \in Artifact BY Domain DEF Artifact, Archive
  <1>3. cand'[c].prior = cand[c].prior /\ cand'[c].intent = "consumed"
    BY <1>1, <1>2 DEF Forward, RowsStep, RowStep, Completes
  <1>4. once'["epoch"][c] = "done" BY <1>1, <1>2 DEF Forward, OnceStep, Completes
  <1> QED BY <1>1, <1>3, <1>4 DEF Completes

LEMMA NextRestart ==
    ASSUME TypeOK, ActInv, EpochInv, LockInv, RestartInv, [Next]_vars
    PROVE  RestartInv'
  <1>0. "tick" \in Actor /\ "tick" \in Roller /\ "epoch" \in Artifact
    BY DEF Actor, Roller, Artifact, Archive
  <1>1. ASSUME act'["tick"].pc = "complete" PROVE Completes(act["tick"].c)'
    <2>1. CASE act'["tick"] = act["tick"]
      <3>1. PICK c \in Admitted : c = act["tick"].c BY <1>1, <2>1 DEF ActInv
      <3>2. Completes(c) BY <1>1, <2>1, <3>1 DEF RestartInv
      <3>3. ~TickComplete /\ ~TickRestart
        <4>1. Idle.pc # "complete" BY DEF Idle
        <4> QED BY <1>0, <1>1, <4>1, After DEF TickComplete, TickRestart
      <3>4. request' = request BY <3>3, NamesChange
      <3>5. Completes(c)' BY <3>2, <3>4, CompletesStays
      <3> QED BY <2>1, <3>1, <3>5 DEF Completes
    <2>2. CASE TickEpochReceipt
      <3>1. PICK c \in Admitted : c = act["tick"].c
        BY <2>2 DEF TickEpochReceipt, At, ActInv
      <3>2. c \in Cand BY Domain
      <3>3. ~Raise("tick") BY <1>0, <1>1, After DEF Idle
      <3>4. RestartExact(c) /\ WriteOnce("tick", "epoch", "complete")
        BY <2>2, <3>1, <3>3 DEF TickEpochReceipt
      <3>5. once'["epoch"][c] = "done" /\ Go("tick", "complete")
        BY <1>0, <3>1, <3>2, <3>3, <3>4, WriteOnceStep
      <3>6. act'["tick"].c = c BY <1>0, <3>1, <3>5, After
      <3>7. cand' = cand /\ request' = request BY <2>2 DEF TickEpochReceipt, rows
      <3>8. cand[c].prior = request.prior /\ cand[c].intent = "consumed"
        BY <3>4 DEF RestartExact
      <3>9. c \in Admitted' BY NextAdmitted
      <3> QED BY <3>5, <3>6, <3>7, <3>8, <3>9 DEF Completes
    <2>3. act'["tick"] = act["tick"] \/ TickEpochReceipt
      <3>1. ASSUME NEW pc, Go("tick", pc) PROVE pc = "complete"
        BY <1>0, <1>1, <3>1, After
      <3>2. ~Raise("tick") BY <1>0, <1>1, After DEF Idle
      <3>3. CASE TickStep
        <4>1. CASE TickStart
          <5>1. act \in [Actor -> ActRow] BY DEF TypeOK, ActRow
          <5>2. act'["tick"].pc # "complete" BY <1>0, <4>1, <5>1 DEF TickStart, Idle
          <5> QED BY <1>1, <5>2
        <4>2. CASE TickJudge
          <5>1. Go("tick", "renew") \/ Go("tick", "load") BY <4>2 DEF TickJudge
          <5> QED BY <3>1, <5>1
        <4> QED
          BY <3>1, <3>2, <3>3, <4>1, <4>2
          DEF TickStep, TickLease, TickRequest, TickComplete, TickIntent, TickRestart,
              WriteOnce
      <3>4. CASE TickRenew BY <3>1, <3>2, <3>4 DEF TickRenew
      <3>5. CASE Rolls("tick")
        <4>1. CASE RollbackLoad("tick")
          <5>1. act \in [Actor -> ActRow] /\ once \in OnceType
            BY DEF TypeOK, ActRow, OnceType
          <5>2. active.c \in Cand BY <4>1, Domain DEF RollbackLoad, At, ActInv
          <5>3. once["tick"][active.c] \in {"none", "torn", "done"}
            BY <1>0, <5>1, <5>2 DEF OnceType, Artifact, Archive
          <5>4. act'["tick"].pc # "complete" BY <1>0, <4>1, <5>1, <5>3 DEF RollbackLoad
          <5> QED BY <1>1, <5>4
        <4>2. CASE ~RollbackLoad("tick")
          <5>1. \/ Raise("tick")
                \/ \E pc \in {"quiesce", "archive", "probe", "write", "intent",
                              "restart"} \union Archive : Go("tick", pc)
            BY <3>5, <4>2 DEF Rolls, RollStep, RollbackQuiesce, RollbackArchive,
                  RollbackPointer, RollbackProbe, RollbackReceipt, RollbackRevoke,
                  TickIntent, WriteOnce
          <5> QED BY <3>1, <3>2, <5>1 DEF Archive
        <4> QED BY <4>1, <4>2
      <3>6. CASE ~TickStep /\ ~TickRenew /\ ~Rolls("tick")
        BY <1>0, <3>2, <3>6, OthersMove
      <3> QED BY <3>3, <3>4, <3>5, <3>6
    <2> QED BY <2>1, <2>2, <2>3
  <1>2. ASSUME request'.state = "completed" PROVE \E c \in Admitted' : Completes(c)'
    <2>1. CASE request' = request
      <3>1. PICK c \in Admitted : Completes(c) BY <1>2, <2>1 DEF RestartInv
      <3> QED BY <2>1, <3>1, CompletesStays
    <2>2. CASE TickRestart BY <1>2, <2>2 DEF TickRestart
    <2>3. CASE TickComplete
      <3>1. PICK c \in Admitted : c = act["tick"].c
        BY <2>3 DEF TickComplete, At, ActInv
      <3>2. Completes(c) BY <2>3, <3>1 DEF TickComplete, At, RestartInv
      <3>3. request'.prior = request.prior BY <2>3 DEF TickComplete, TypeOK
      <3> QED BY <3>2, <3>3, CompletesStays
    <2> QED BY <2>1, <2>2, <2>3, NamesChange
  <1>3. act'["tick"].pc = "complete" => Completes(act["tick"].c)' BY <1>1
  <1> QED BY <1>2, <1>3 DEF RestartInv

-----------------------------------------------------------------------------
(* Recoveries.                                                             *)

\* Rows that were there stay recoveries of what they recover.
LEMMA OldRecoveries ==
    ASSUME TypeOK, ActInv, EpochInv, LockInv, RowInv, [Next]_vars, NEW c \in DOMAIN cand
    PROVE  RecoveryRow(c)' /\ (Open(c)' => Open(c))
  <1>0. Forward BY NextForward
  <1>1. RowStep(cand[c], cand'[c]) /\ cand[c] \in CandRow
    BY <1>0, Domain DEF Forward, RowsStep
  <1>2. Open(c)' => Open(c) BY <1>1 DEF RowStep, Open
  <1>3. CASE cand[c].prior = 0 BY <1>1, <1>2, <1>3 DEF RowStep, RecoveryRow
  <1>4. CASE cand[c].prior # 0
    <2>1. cand[c].prior \in 0 .. MaxCand /\ cand[c].prior < c BY <1>1 DEF CandRow, TypeOK
    <2>2. PICK i \in DOMAIN cand : i = cand[c].prior BY <1>4, <2>1, Domain, Bounds
    <2>3. i \in Cand /\ "intent" \in Artifact BY Domain DEF Artifact, Archive
    <2>4. RowStep(cand[i], cand'[i]) BY <1>0 DEF Forward, RowsStep
    <2>5. /\ once["intent"][i] = "done" /\ cand[c].epoch = cand[i].epoch + 1
          /\ cand[c].adm # "none" => cand[c].intent = "consumed"
      BY <1>4, <2>2 DEF RowInv, RecoveryRow
    <2>6. once'["intent"][i] = "done" BY <1>0, <2>3, <2>5 DEF Forward, OnceStep
    <2>7. cand'[c].epoch = cand'[i].epoch + 1 /\ cand'[c].prior = i
      BY <1>1, <2>2, <2>4, <2>5 DEF RowStep
    <2>8. cand'[c].adm # "none" => cand'[c].intent = "consumed"
      <3>1. CASE cand[c].adm # "none" BY <1>1, <2>5, <3>1 DEF RowStep
      <3>2. CASE cand[c].adm = "none" /\ cand'[c].adm # "none"
        <4>1. c \in Admitted' /\ c \notin Admitted
          BY <1>0, <3>2 DEF Admitted, Forward, RowsStep
        <4>2. AdmitInsert BY <4>1, NextAdmitted
        <4>3. c = candidate BY <4>1, <4>2, AdmitRows
        <4>4. cand[c].intent = "prepared"
          BY <1>4, <3>2, <4>2, <4>3 DEF AdmitInsert, Insertable
        <4> QED BY <4>2, <4>3, <4>4, AdmitRows
      <3> QED BY <3>1, <3>2
    <2> QED BY <1>2, <2>6, <2>7, <2>8 DEF RecoveryRow
  <1> QED BY <1>3, <1>4

LEMMA NextRow ==
    ASSUME TypeOK, ActInv, EpochInv, LockInv, RowInv, [Next]_vars
    PROVE  RowInv'
  <1>0. Forward BY NextForward
  <1>1. \A c \in DOMAIN cand : RecoveryRow(c)' /\ (Open(c)' => Open(c)) BY OldRecoveries
  <1>2. \A c \in DOMAIN cand : cand'[c].prior = cand[c].prior
    BY <1>0 DEF Forward, RowsStep, RowStep
  <1>3. \A c, d \in DOMAIN cand :
            cand'[c].prior # 0 /\ cand'[d].prior = cand'[c].prior /\ Open(c)' /\ Open(d)' => d = c
    BY <1>1, <1>2 DEF RowInv
  <1>4. CASE DOMAIN cand' = DOMAIN cand BY <1>1, <1>3, <1>4 DEF RowInv
  <1>5. CASE Opens
    <2>1. PICK Ended \in SUBSET (DOMAIN cand), epoch \in Nat, prior \in 0 .. Len(cand) :
             /\ OpenSession(Ended, epoch, prior)
             /\ prior # 0 => Recovers(prior, Ended, epoch)
      BY <1>5, OpensSession
    <2>2. PICK n \in Nat : n = Len(cand) + 1 BY Domain
    <2>3. /\ DOMAIN cand' = DOMAIN cand \union {n} /\ n \notin DOMAIN cand
          /\ cand'[n] = NewCand(epoch, prior)
          /\ \A c \in DOMAIN cand :
                c \in Ended /\ prior # 0 /\ cand[c].intent = "prepared" =>
                    cand'[c].intent = "abandoned"
      BY <1>5, <2>1, <2>2, OpensSession, OpenSessionRows
    <2>4. cand'[n].prior = prior /\ cand'[n].epoch = epoch /\ cand'[n].adm = "none"
      BY <2>3 DEF NewCand
    <2>5. RecoveryRow(n)'
      <3>1. CASE prior = 0 BY <2>4, <3>1 DEF RecoveryRow
      <3>2. CASE prior # 0
        <4>1. PICK i \in DOMAIN cand : i = prior BY <2>1, <3>2 DEF Recovers
        <4>2. i \in Cand /\ "intent" \in Artifact BY Domain DEF Artifact, Archive
        <4>3. once'["intent"][i] = "done"
          BY <1>0, <2>1, <3>2, <4>1, <4>2 DEF Recovers, IntentLoads, Forward, OnceStep
        <4>4. cand'[i].epoch = cand[i].epoch BY <1>0 DEF Forward, RowsStep, RowStep
        <4> QED BY <2>1, <2>4, <3>2, <4>1, <4>3, <4>4 DEF RecoveryRow, Recovers
      <3> QED BY <3>1, <3>2
    <2>6. ASSUME NEW d \in DOMAIN cand, prior # 0, cand'[d].prior = prior PROVE ~Open(d)'
      <3>1. CASE d \in OpenIntents(prior)
        BY <2>1, <2>3, <2>6, <3>1 DEF Recovers, Open
      <3>2. CASE d \notin OpenIntents(prior)
        BY <1>1, <1>2, <2>6, <3>2 DEF OpenIntents, Open
      <3> QED BY <3>1, <3>2
    <2>7. ASSUME NEW c \in DOMAIN cand', NEW d \in DOMAIN cand', cand'[c].prior # 0,
                 cand'[d].prior = cand'[c].prior, Open(c)', Open(d)'
          PROVE  d = c
      BY <1>3, <2>3, <2>4, <2>6, <2>7
    <2>8. \A c \in DOMAIN cand' : RecoveryRow(c)' BY <1>1, <2>3, <2>5
    <2> QED BY <2>7, <2>8 DEF RowInv
  <1>6. CASE ~Opens
    <2>1. Reads \/ Rewrites \/ AdmitInsert BY <1>6, NextKinds
    <2>2. DOMAIN cand' = DOMAIN cand
      BY <2>1, ReadsKeepRows, RewriteRows, AdmitRows DEF NoneAdmitted
    <2> QED BY <1>4, <2>2
  <1> QED BY <1>5, <1>6

-----------------------------------------------------------------------------
(* The theorems.                                                           *)

LEMMA Initially ==
    ASSUME Init
    PROVE  Inv
  <1>1. Len(cand) = 0 /\ DOMAIN cand = {} /\ cand \in Seq(CandRow) BY DEF Init
  <1>2. act \in [Actor -> [pc: ActPc, c: 0 .. Len(cand)]]
    BY <1>1 DEF Init, Idle, ActPc, Archive
  <1>3. once \in [Artifact -> [Cand -> {"none", "torn", "done"}]] /\ snap \in [Cand -> 0 .. MaxEvents]
    BY Bounds DEF Init
  <1>4. active \in [kind: {"missing", "binding"} \union Archive, c: 0 .. Len(cand)]
    BY <1>1 DEF Init, Missing
  <1>5. request \in [state: {"none", "awaiting", "completed"}, prior: 0 .. Len(cand)]
    BY <1>1 DEF Init, NoRequest
  <1>6. proc \in [Launch -> ProcPc] BY DEF Init, ProcPc
  <1>7. home \in [empty: BOOLEAN, workspace: BOOLEAN, target: BOOLEAN, receipt: BOOLEAN]
    BY DEF Init
  <1>8. TypeOK
    BY <1>1, <1>2, <1>3, <1>4, <1>5, <1>6, <1>7, Bounds DEF Init, TypeOK
  <1>9. \A a \in Actor : act[a] = Idle BY DEF Init
  <1>10. Admitted = {} /\ Live = {} BY <1>1 DEF Admitted, Live
  <1>11. ActInv
    BY <1>9 DEF Init, ActInv, Idle, Missing, Actor, Roller, TickPc, OperatorPc, CommandPc,
                RollbackPc, Archive
  <1>12. \A k \in Artifact, c \in Cand : once[k][c] = "none" BY DEF Init
  <1>13. Artifacts BY <1>12 DEF Artifacts, Artifact, Roller, Init, Missing, Archive
  <1>14. Underway("tick") /\ Underway("operator")
    BY <1>9 DEF Underway, Idle, Actor, Roller, Archive
  <1>15. RestartInv BY <1>9 DEF RestartInv, Idle, Actor, Roller, Init, NoRequest
  <1>16. RowInv /\ EpochInv BY <1>1, <1>10 DEF RowInv, EpochInv
  <1>17. LockInv BY <1>1 DEF LockInv, LockPc, Init
  <1>18. HomeInv BY <1>1 DEF HomeInv, LockPc, Init
  <1>19. CanonInv BY DEF CanonInv, Init
  <1> QED BY <1>8, <1>11, <1>13, <1>14, <1>15, <1>16, <1>17, <1>18, <1>19 DEF Inv

LEMMA Inductive ==
    ASSUME Inv, [Next]_vars
    PROVE  Inv'
  <1>1. /\ TypeOK /\ ActInv /\ Artifacts /\ Underway("tick") /\ Underway("operator")
        /\ RestartInv /\ RowInv /\ LockInv /\ EpochInv /\ HomeInv /\ CanonInv
    BY DEF Inv
  <1>2. Underway("tick")' /\ Underway("operator")' BY <1>1, NextUnderway DEF Roller
  <1> QED
    BY <1>1, <1>2, NextType, NextAct, NextArtifacts, NextRestart, NextRow, NextLock,
       NextEpoch, NextHome, NextCounters
    DEF Inv

LEMMA Invariance == Spec => []Inv
  BY Initially, Inductive, PTL DEF Spec

\* Every file that a launch, a tick or a recovery relies on means what it says,
\* for any number of candidates, launches and crashes: rollback_live_scribe's
\* receipts are of epochs that are over, the migration of the first launch is
\* whole, and a completed restart has its epoch receipt.
THEOREM EvidenceSound == Spec => []EvidenceIsSound
  <1>1. ASSUME Inv PROVE EvidenceIsSound
    <2>1. TypeOK BY <1>1 DEF Inv
    <2>2. ReceiptMeansInactive
      <3>1. SUFFICES ASSUME NEW a \in Roller, NEW c \in DOMAIN cand, once[a][c] = "done"
                     PROVE  /\ cand[c].adm = "revoked" /\ cand[c].session = "ended"
                            /\ (\E d \in ArchivesOf(a) : once[d][c] = "done") /\ ~Alive(c)
        BY DEF ReceiptMeansInactive
      <3>2. c \in Cand BY <2>1, Domain
      <3>3. Over(a, c) BY <1>1, <3>1, <3>2 DEF Inv, Artifacts
      <3> QED BY <3>3 DEF Over, Stopped, Closed, Alive, Running
    <2>3. RecoveryFindsMigration
      BY <1>1 DEF Inv, HomeInv, Whole, RecoveryFindsMigration
    <2>4. CompletedRestartIsReceipted
      BY <1>1 DEF Inv, RestartInv, Completes, CompletedRestartIsReceipted
    <2> QED BY <2>1, <2>2, <2>3, <2>4 DEF EvidenceIsSound
  <1> QED BY <1>1, Invariance, PTL

\* create_live_admission with prepare_recovery_candidate: every admitted
\* recovery continues, as the very next epoch, one that the supervisor had
\* receipted, archived and intended to restart, and it is the only one.
THEOREM RecoveryEvidence == Spec => []RecoveryHasEvidence
  <1>1. ASSUME Inv PROVE RecoveryHasEvidence
    <2>0. TypeOK /\ Artifacts /\ RowInv BY <1>1 DEF Inv
    <2>1. SUFFICES ASSUME NEW c \in Admitted, NEW i, i = cand[c].prior, i # 0
                   PROVE  /\ cand[i].adm = "revoked" /\ once["tick"][i] = "done"
                          /\ once["revoked"][i] = "done" /\ once["intent"][i] = "done"
                          /\ cand[c].epoch = cand[i].epoch + 1
                          /\ \A d \in Admitted : cand[d].prior = i => d = c
      BY DEF RecoveryHasEvidence
    <2>2. c \in DOMAIN cand /\ cand[c] \in CandRow /\ cand[c].adm # "none"
      BY <2>0, Domain DEF Admitted
    <2>3. i \in Cand BY <2>1, <2>2, Bounds DEF CandRow, Cand
    <2>4. once["intent"][i] = "done" /\ cand[c].epoch = cand[i].epoch + 1
      BY <2>0, <2>1, <2>2 DEF RowInv, RecoveryRow
    <2>5. once["tick"][i] = "done" BY <2>0, <2>3, <2>4 DEF Artifacts
    <2>6. Over("tick", i) BY <2>0, <2>3, <2>5 DEF Artifacts, Roller
    <2>7. ASSUME NEW d \in Admitted, cand[d].prior = i PROVE d = c
      <3>1. d \in DOMAIN cand /\ cand[d].adm # "none" BY DEF Admitted
      <3>2. Open(c) /\ Open(d)
        BY <2>0, <2>1, <2>2, <2>7, <3>1 DEF RowInv, RecoveryRow, Open
      <3> QED BY <2>0, <2>1, <2>2, <2>7, <3>1, <3>2 DEF RowInv
    <2> QED BY <2>4, <2>5, <2>6, <2>7 DEF Over, Stopped, Closed, ArchivesOf
  <1> QED BY <1>1, Invariance, PTL

\* LocalAuthority.check: an authorized runtime has the last epoch and the lock,
\* and no other launched process is serving, whatever died or was left behind.
THEOREM ExclusiveAuthority == Spec => []AuthorityIsExclusive
  <1>1. ASSUME Inv PROVE AuthorityIsExclusive
    <2>0. TypeOK /\ ActInv /\ LockInv /\ EpochInv BY <1>1 DEF Inv
    <2>1. SUFFICES ASSUME NEW p \in Launch, Authorized(p)
                   PROVE  /\ cand[active.c].epoch = LastEpoch /\ holder = p
                          /\ \A q \in Launch \ {p} : proc[q] # "serving"
      BY DEF AuthorityIsExclusive
    <2>2. \A q \in Launch : proc[q] = "serving" => holder = q
      BY <2>0 DEF LockInv, LockPc
    <2>3. proc[p] = "serving" /\ active.kind = "binding" /\ cand[active.c].adm = "live"
      BY <2>1 DEF Authorized, Bindable
    <2>4. active.c \in Live /\ active.c \in Admitted /\ Admitted \subseteq DOMAIN cand
      BY <2>0, <2>3 DEF ActInv, Live, Admitted
    <2>5. PICK m \in Admitted : cand[m].epoch = LastEpoch BY <2>0, <2>4, LastEpochNat
    <2>6. cand[m].epoch <= cand[active.c].epoch BY <2>0, <2>4, <2>5 DEF EpochInv
    <2>7. cand[active.c].epoch <= LastEpoch BY <2>0, <2>4, LastEpochNat
    <2>8. cand[active.c].epoch \in Nat /\ LastEpoch \in Nat
      BY <2>0, <2>4, LastEpochNat, Domain DEF CandRow
    <2>9. cand[active.c].epoch = LastEpoch BY <2>5, <2>6, <2>7, <2>8
    <2> QED BY <2>2, <2>3, <2>9
  <1> QED BY <1>1, Invariance, PTL
=============================================================================
