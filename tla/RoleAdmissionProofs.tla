------------------------- MODULE RoleAdmissionProofs -------------------------
(***************************************************************************)
(* Proofs about RoleAdmission, for every number of candidates, launched    *)
(* processes and events of the environment.                                *)
(***************************************************************************)
EXTENDS RoleAdmission, SequenceTheorems, TLAPS

RollbackPc == {"revoke", "archive", "pointer", "receipt", "intent", "request"}
TickPc == {"idle", "judge", "renew", "load"} \union RollbackPc

\* A procedure that is under way knows its candidate, and ACTIVE.json is never
\* lost once a binding was published.
ActInv ==
    /\ active.kind # "missing" => active.c \in DOMAIN cand
    /\ act["tick"].pc \in TickPc /\ act["command"].pc \in {"idle", "file", "binding"}
    /\ act["tick"].pc # "idle" =>
           active.kind # "missing" /\ act["tick"].c \in DOMAIN cand
    /\ act["tick"].pc \in RollbackPc => act["tick"].r \in DOMAIN cand
    /\ act["command"].pc # "idle" => act["command"].c \in DOMAIN cand

\* The epoch of r is over and archived.
Closed(r) == cand[r].adm = "revoked" /\ cand[r].session = "ended"
Over(r) == r \in DOMAIN cand /\ Closed(r) /\ archive[r] = "done"

\* A whole receipt, wherever it lies, is the receipt of an epoch that is over,
\* and an intent lies beside the receipt of its own epoch.
Artifacts ==
    /\ \A c \in Cand : receipt[c] \in Cand => Over(receipt[c])
    /\ \A c \in Cand : intent[c] = "done" => receipt[c] = c
    /\ request # 0 => intent[request] = "done"

\* A rollback under way has already made what its next step relies on.
Underway ==
    LET t == act["tick"]
    IN  /\ t.pc = "archive" => Closed(t.r)
        /\ t.pc \in {"pointer", "receipt"} => Over(t.r)
        /\ t.pc = "intent" => receipt[t.c] = t.r
        /\ t.pc = "request" => intent[t.c] = "done"

\* A recovery row follows a fenced epoch, and is the only one that does.
RecoveryRow(c) ==
    LET i == cand[c].prior
    IN  i # 0 => /\ cand[c].intent \in {"prepared", "consumed"}
                 /\ intent[i] = "done"
                 /\ cand[c].epoch = cand[i].epoch + 1

RowInv ==
    /\ \A c \in DOMAIN cand : RecoveryRow(c)
    /\ \A c, d \in DOMAIN cand :
           cand[c].prior # 0 /\ cand[d].prior = cand[c].prior => d = c

\* The runtime lock belongs to a launch that took it and lives, or to the
\* children of one that took it and died; every candidate was prepared for a
\* launch that held the lock then.
LockPc == {"waiting", "bound", "serving"}
LockInv ==
    /\ \A p \in Launch : proc[p] \in LockPc => holder = p
    /\ holder # 0 => proc[holder] \in LockPc \union {"dead"}
    /\ \A c \in DOMAIN cand : proc[cand[c].proc] \in LockPc \union {"dead"}

\* At most one row is live, and it is the row of the process that serves.
LiveInv ==
    /\ \A c, d \in Live : c = d
    /\ \A p \in Launch : proc[p] \in {"bound", "serving"} =>
           \A c \in Live : cand[c].proc = p

\* An admitted row has the last epoch, so that LastEpoch is one.
EpochInv ==
    Admitted # {} =>
        \E m \in Admitted : \A c \in Admitted : cand[c].epoch <= cand[m].epoch

\* A process that did not hold the lock when the rollback measured it is dead.
FenceInv ==
    At("tick", "revoke") /\ ~act["tick"].holds =>
        proc[cand[act["tick"].r].proc] = "dead"

Inv ==
    /\ TypeOK /\ ActInv /\ Artifacts /\ Underway /\ RowInv
    /\ LockInv /\ LiveInv /\ EpochInv /\ FenceInv

-----------------------------------------------------------------------------
(* How the rows may change.                                                *)

\* One row: its identity is fixed, and what has ended stays ended.
RowStep(old, new) ==
    /\ new.epoch = old.epoch /\ new.proc = old.proc /\ new.prior = old.prior
    /\ old.session = "ended" => new.session = "ended"
    /\ old.adm = "revoked" => new.adm = "revoked"
    /\ \/ new.intent = old.intent
       \/ new.intent = "consumed" /\ old.intent = "prepared"

\* All rows: none is lost.
RowsStep ==
    /\ cand' \in Seq(CandRow) /\ Len(cand') <= MaxCand
    /\ Len(cand) <= Len(cand') /\ DOMAIN cand \subseteq DOMAIN cand'
    /\ \A c \in DOMAIN cand : RowStep(cand[c], cand'[c])

\* No row becomes live, and there is no new row.
NoneAdmitted ==
    /\ Len(cand') = Len(cand) /\ DOMAIN cand' = DOMAIN cand
    /\ \A c \in DOMAIN cand : cand'[c].adm = "live" => cand[c].adm = "live"
    /\ \/ Admitted' = Admitted
       \/ \E k \in DOMAIN cand : Admitted' = Admitted \union {k}

LEMMA Bounds == MaxCand \in Nat /\ MaxLaunch \in Nat /\ MaxEvents \in Nat
  BY BoundAssumption

\* The rows are a finite sequence.
LEMMA Domain ==
    ASSUME TypeOK
    PROVE  /\ Len(cand) \in Nat /\ DOMAIN cand = 1 .. Len(cand)
           /\ \A c \in DOMAIN cand :
                 /\ c \in Nat /\ c # 0 /\ c \in Cand /\ c \in 0 .. Len(cand)
                 /\ cand[c] \in CandRow
           /\ DOMAIN cand = Cand \intersect DOMAIN cand
  <1>1. Len(cand) \in Nat /\ DOMAIN cand = 1 .. Len(cand) BY DEF TypeOK
  <1>2. ASSUME NEW c \in DOMAIN cand
        PROVE  /\ c \in Nat /\ c # 0 /\ c \in Cand /\ c \in 0 .. Len(cand)
               /\ cand[c] \in CandRow
    BY <1>1, <1>2, Bounds DEF TypeOK, Cand
  <1> QED BY <1>1, <1>2

\* Replacing one row.
LEMMA ReplaceRow ==
    ASSUME TypeOK, NEW c \in DOMAIN cand, NEW row \in CandRow,
           RowStep(cand[c], row), cand' = [cand EXCEPT ![c] = row]
    PROVE  /\ RowsStep /\ cand'[c] = row
           /\ Len(cand') = Len(cand) /\ DOMAIN cand' = DOMAIN cand
           /\ \A d \in DOMAIN cand : d # c => cand'[d] = cand[d]
  <1>1. cand \in Seq(CandRow) /\ Len(cand) <= MaxCand BY DEF TypeOK
  <1>2. /\ cand' \in Seq(CandRow) /\ Len(cand') = Len(cand)
        /\ cand'[c] = row /\ DOMAIN cand' = DOMAIN cand
        /\ \A d \in DOMAIN cand : d # c => cand'[d] = cand[d]
    BY <1>1
  <1>3. \A d \in DOMAIN cand : RowStep(cand[d], cand'[d])
    BY <1>2 DEF RowStep
  <1> QED BY <1>1, <1>2, <1>3, Domain DEF RowsStep

\* Leaving all rows alone.
LEMMA SameRows ==
    ASSUME TypeOK, cand' = cand
    PROVE  RowsStep /\ NoneAdmitted
  <1>1. Len(cand) \in Nat BY Domain
  <1> QED BY <1>1 DEF RowsStep, RowStep, NoneAdmitted, TypeOK, Admitted

\* Opening a session: lapsed sessions end, and one candidate is added.
LEMMA OpenSessionRows ==
    ASSUME TypeOK, NEW epoch \in Nat, NEW prior \in 0 .. Len(cand),
           bootstrap \in Launch, OpenSession(epoch, prior)
    PROVE  /\ RowsStep /\ Len(cand') = Len(cand) + 1
           /\ DOMAIN cand' = DOMAIN cand \union {Len(cand) + 1}
           /\ Len(cand) + 1 \notin DOMAIN cand
           /\ cand'[Len(cand) + 1] = NewCand(epoch, prior)
           /\ \A c \in DOMAIN cand :
                 /\ cand'[c].adm = cand[c].adm
                 /\ cand'[c].intent = cand[c].intent
  <1> DEFINE f == [c \in DOMAIN cand |->
                     IF cand[c].lease \in Expired
                     THEN [cand[c] EXCEPT !.session = "ended"] ELSE cand[c]]
             new == NewCand(epoch, prior)
             n == Len(cand)
  <1>0. n \in Nat /\ DOMAIN cand = 1 .. n /\ n < MaxCand
    BY Domain DEF OpenSession
  <1>1. ASSUME NEW c \in DOMAIN cand
        PROVE  /\ f[c] \in CandRow /\ RowStep(cand[c], f[c])
               /\ f[c].adm = cand[c].adm /\ f[c].intent = cand[c].intent
    <2>1. cand[c] \in CandRow BY Domain
    <2> QED BY <2>1 DEF CandRow, RowStep
  <1>2. new \in CandRow
    BY <1>0, Bounds DEF NewCand, CandRow, LeaseState
  <1>3. f \in Seq(CandRow) /\ Len(f) = n
    <2>1. f \in [1 .. n -> CandRow] BY <1>0, <1>1
    <2> HIDE DEF f
    <2> QED BY <1>0, <2>1, SeqDef
  <1> HIDE DEF f, new
  <1>4. /\ Append(f, new) \in Seq(CandRow) /\ Len(Append(f, new)) = n + 1
        /\ Append(f, new)[n + 1] = new
        /\ \A c \in 1 .. n : Append(f, new)[c] = f[c]
        /\ DOMAIN Append(f, new) = 1 .. n + 1
    BY <1>0, <1>2, <1>3
  <1>5. cand' = Append(f, new) BY DEF OpenSession, f, new
  <1>6. /\ DOMAIN cand' = DOMAIN cand \union {n + 1}
        /\ n + 1 \notin DOMAIN cand /\ DOMAIN cand \subseteq DOMAIN cand'
    BY <1>0, <1>4, <1>5
  <1>7. \A c \in DOMAIN cand : cand'[c] = f[c] BY <1>0, <1>4, <1>5
  <1>8. RowsStep
    BY <1>0, <1>1, <1>4, <1>5, <1>6, <1>7, Bounds DEF RowsStep
  <1> QED BY <1>1, <1>4, <1>5, <1>6, <1>7, <1>8 DEF new

\* The transactions that rewrite one row admit nothing.
LEMMA RewriteRows ==
    ASSUME TypeOK, ActInv,
           \/ TickRenew \/ TickRenewsTooLate \/ RollbackRevoke
           \/ \E c \in DOMAIN cand : LeaseLapses(c)
    PROVE  RowsStep /\ NoneAdmitted
  <1>1. ASSUME NEW c \in DOMAIN cand, NEW l \in LeaseState,
               cand' = [cand EXCEPT ![c].lease = l]
        PROVE  RowsStep /\ NoneAdmitted
    <2> DEFINE row == [cand[c] EXCEPT !.lease = l]
    <2>1. cand[c] \in CandRow BY Domain
    <2>2. row \in CandRow /\ RowStep(cand[c], row) /\ row.adm = cand[c].adm
      BY <2>1 DEF CandRow, RowStep
    <2>3. cand' = [cand EXCEPT ![c] = row] BY <1>1
    <2> HIDE DEF row
    <2>4. /\ RowsStep /\ cand'[c] = row
          /\ Len(cand') = Len(cand) /\ DOMAIN cand' = DOMAIN cand
          /\ \A d \in DOMAIN cand : d # c => cand'[d] = cand[d]
      BY <2>2, <2>3, ReplaceRow
    <2>5. Admitted' = Admitted BY <2>2, <2>4 DEF Admitted
    <2> QED BY <2>2, <2>4, <2>5 DEF NoneAdmitted
  <1>2. CASE \E c \in DOMAIN cand : LeaseLapses(c)
    BY <1>1, <1>2 DEF LeaseLapses, LeaseState
  <1>3. CASE TickRenewsTooLate
    BY <1>1, <1>3 DEF TickRenewsTooLate, LeaseState, ActInv, At
  <1>4. CASE TickRenew
    <2> DEFINE c == act["tick"].c
               l == CASE cand[c].lease = "lapsed" -> "late"
                      [] cand[c].lease = "late" -> "held"
                      [] OTHER -> cand[c].lease
    <2>1. c \in DOMAIN cand BY <1>4 DEF TickRenew, At, ActInv
    <2>2. cand[c].lease \in LeaseState BY <2>1, Domain DEF CandRow
    <2>3. l \in LeaseState BY <2>2 DEF LeaseState
    <2>4. cand' = cand \/ cand' = [cand EXCEPT ![c].lease = l]
      BY <1>4 DEF TickRenew
    <2> HIDE DEF l, c
    <2> QED BY <1>1, <2>1, <2>3, <2>4, SameRows
  <1>5. CASE RollbackRevoke
    <2>1. CASE cand' = cand BY <2>1, SameRows
    <2>2. CASE cand' # cand
      <3> DEFINE c == act["tick"].r
                 row == [cand[c] EXCEPT !.adm = "revoked", !.session = "ended"]
      <3>1. c \in DOMAIN cand
        BY <1>5 DEF RollbackRevoke, At, ActInv, RollbackPc
      <3>2. cand[c] \in CandRow BY <3>1, Domain
      <3>3. row \in CandRow /\ RowStep(cand[c], row) /\ row.adm = "revoked"
        BY <3>2 DEF CandRow, RowStep
      <3>4. cand' = [cand EXCEPT ![c] = row]
        BY <1>5, <2>2 DEF RollbackRevoke
      <3> HIDE DEF row, c
      <3>5. /\ RowsStep /\ cand'[c] = row
            /\ Len(cand') = Len(cand) /\ DOMAIN cand' = DOMAIN cand
            /\ \A d \in DOMAIN cand : d # c => cand'[d] = cand[d]
        BY <3>1, <3>3, <3>4, ReplaceRow
      <3>6. PICK k \in DOMAIN cand : k = c BY <3>1
      <3>7. Admitted' = Admitted \union {k} BY <3>3, <3>5, <3>6 DEF Admitted
      <3> QED BY <3>3, <3>5, <3>6, <3>7 DEF NoneAdmitted
    <2> QED BY <2>1, <2>2
  <1> QED BY <1>2, <1>3, <1>4, <1>5

\* The insert admits its candidate and no other.
LEMMA AdmitRows ==
    ASSUME TypeOK, AdmitInsert
    PROVE  /\ RowsStep /\ candidate \in DOMAIN cand
           /\ Len(cand') = Len(cand) /\ DOMAIN cand' = DOMAIN cand
           /\ \A c \in DOMAIN cand : c # candidate => cand'[c] = cand[c]
  <1> DEFINE k == candidate
             i == IF cand[k].intent = "prepared" THEN "consumed"
                  ELSE cand[k].intent
             row == [cand[k] EXCEPT !.adm = "live", !.intent = i]
  <1>1. k \in DOMAIN cand BY Domain DEF AdmitInsert, TypeOK
  <1>2. cand[k] \in CandRow /\ cand[k].adm = "none"
    BY <1>1, Domain DEF AdmitInsert
  <1>3. row \in CandRow /\ RowStep(cand[k], row)
    BY <1>2 DEF CandRow, RowStep
  <1>4. cand' = [cand EXCEPT ![k] = row] BY DEF AdmitInsert
  <1> HIDE DEF row
  <1> QED BY <1>1, <1>3, <1>4, ReplaceRow

\* LastEpoch is a number, and no admitted row is past it.
LEMMA LastEpochNat ==
    ASSUME TypeOK, EpochInv
    PROVE  LastEpoch \in Nat /\ \A c \in Admitted : cand[c].epoch <= LastEpoch
  <1>1. \A c \in Admitted : cand[c].epoch \in Nat
    BY Domain DEF Admitted, CandRow
  <1>2. CASE Admitted = {} BY <1>2 DEF LastEpoch
  <1>3. CASE Admitted # {}
    <2> DEFINE E == {cand[c].epoch : c \in Admitted}
               P(e) == \A c \in Admitted : cand[c].epoch <= e
    <2>1. \E e \in E : P(e) BY <1>3 DEF EpochInv
    <2>2. LastEpoch = CHOOSE e \in E : P(e) BY <1>3 DEF LastEpoch
    <2> HIDE DEF P
    <2>3. LastEpoch \in E /\ P(LastEpoch) BY <2>1, <2>2
    <2> QED BY <1>1, <2>3 DEF P
  <1> QED BY <1>2, <1>3

\* One more admitted row, or none, leaves a row with the last epoch.
LEMMA OneMoreEpoch ==
    ASSUME TypeOK, EpochInv, RowsStep, NEW k \in DOMAIN cand,
           Admitted' \in {Admitted, Admitted \union {k}}
    PROVE  EpochInv'
  <1>1. \A c \in DOMAIN cand : cand[c].epoch \in Nat /\ cand'[c].epoch = cand[c].epoch
    BY Domain DEF CandRow, RowsStep, RowStep
  <1>2. Admitted \subseteq DOMAIN cand BY DEF Admitted
  <1>3. CASE Admitted' = {} BY <1>3 DEF EpochInv
  <1>4. CASE Admitted' # {}
    <2>1. CASE Admitted' = Admitted
      <3>1. PICK m \in Admitted : \A c \in Admitted : cand[c].epoch <= cand[m].epoch
        BY <1>4, <2>1 DEF EpochInv
      <3> QED BY <1>1, <1>2, <2>1, <3>1 DEF EpochInv
    <2>2. CASE Admitted' = Admitted \union {k} /\ Admitted = {}
      BY <1>1, <2>2 DEF EpochInv
    <2>3. CASE Admitted' = Admitted \union {k} /\ Admitted # {}
      <3>1. PICK m \in Admitted : \A c \in Admitted : cand[c].epoch <= cand[m].epoch
        BY <2>3 DEF EpochInv
      <3>2. CASE cand[k].epoch <= cand[m].epoch
        BY <1>1, <1>2, <2>3, <3>1, <3>2 DEF EpochInv
      <3>3. CASE ~(cand[k].epoch <= cand[m].epoch)
        <4>1. \A c \in Admitted : cand[c].epoch <= cand[k].epoch
          BY <1>1, <1>2, <3>1, <3>3
        <4> QED BY <1>1, <1>2, <2>3, <4>1 DEF EpochInv
      <3> QED BY <3>2, <3>3
    <2> QED BY <2>1, <2>2, <2>3
  <1> QED BY <1>3, <1>4

-----------------------------------------------------------------------------
(* What every step does to the rows.                                       *)

Opens == PrepareInitial \/ \E i \in DOMAIN cand : PrepareRecovery(i)
Rewrites ==
    \/ TickRenew \/ TickRenewsTooLate \/ RollbackRevoke
    \/ \E c \in DOMAIN cand : LeaseLapses(c)

\* A prepare opens a session for the launch that holds the lock.
LEMMA OpensSession ==
    ASSUME TypeOK, EpochInv, Opens
    PROVE  /\ bootstrap \in Launch /\ BootstrapHeld /\ Live = {}
           /\ \E epoch \in Nat, prior \in 0 .. Len(cand) :
                 /\ OpenSession(epoch, prior)
                 /\ prior # 0 =>
                       /\ prior \in DOMAIN cand /\ IntentLoads(prior)
                       /\ OpenIntents(prior) = {}
                       /\ epoch = cand[prior].epoch + 1
           /\ UNCHANGED <<mandate, files, procs, events>>
  <1>1. bootstrap \in 0 .. MaxLaunch BY DEF TypeOK
  <1>2. CASE PrepareInitial
    <2>1. bootstrap \in Launch /\ BootstrapHeld /\ Live = {}
      BY <1>1, <1>2, Bounds DEF PrepareInitial, BootstrapHeld, Launch
    <2>2. LastEpoch + 1 \in Nat BY LastEpochNat
    <2>3. OpenSession(LastEpoch + 1, 0) BY <1>2 DEF PrepareInitial
    <2>4. 0 \in 0 .. Len(cand) BY Domain
    <2>5. UNCHANGED <<mandate, files, procs, events>> BY <1>2 DEF PrepareInitial
    <2> QED BY <2>1, <2>2, <2>3, <2>4, <2>5
  <1>3. CASE \E i \in DOMAIN cand : PrepareRecovery(i)
    <2>1. PICK i \in DOMAIN cand : PrepareRecovery(i) BY <1>3
    <2>2. bootstrap \in Launch /\ BootstrapHeld /\ Live = {}
      BY <1>1, <2>1, Bounds DEF PrepareRecovery, BootstrapHeld, Launch
    <2>3. i \in 0 .. Len(cand) /\ cand[i].epoch \in Nat BY Domain DEF CandRow
    <2>4. /\ OpenSession(cand[i].epoch + 1, i) /\ IntentLoads(i)
          /\ OpenIntents(i) = {} /\ UNCHANGED <<mandate, files, procs, events>>
      BY <2>1 DEF PrepareRecovery
    <2>5. cand[i].epoch + 1 \in Nat BY <2>3
    <2> QED BY <2>2, <2>3, <2>4, <2>5
  <1> QED BY <1>2, <1>3 DEF Opens

\* Steps that change no row.
Reads ==
    \/ TickStart \/ TickJudge \/ RollbackLoad \/ RollbackArchive
    \/ RollbackPointer \/ RollbackReceipt \/ TickIntent \/ TickRequest
    \/ WriteCandidate \/ AdmitBinding
    \/ \E i \in DOMAIN cand : PrepareRecoveryAgain(i)
    \/ \E p \in Launch :
         \/ LaunchRuntime(p) \/ CreateWorkspaceBinding(p) \/ TakeRuntimeLock(p)
         \/ Bind(p) \/ Serve(p) \/ ProcessDies(p)
    \/ LockReleased \/ MandateCompletes
    \/ \E a \in Actor : Crash(a)
    \/ UNCHANGED vars

LEMMA NextKinds ==
    ASSUME [Next]_vars
    PROVE  Reads \/ Rewrites \/ Opens \/ AdmitInsert
  BY DEF Next, Tick, Started, Reads, Rewrites, Opens

LEMMA ReadsKeepRows ==
    ASSUME Reads
    PROVE  cand' = cand
  BY DEF Reads, TickStart, TickJudge, RollbackLoad, RollbackArchive,
         RollbackPointer, RollbackReceipt, TickIntent, TickRequest,
         WriteCandidate, AdmitBinding, PrepareRecoveryAgain, LaunchRuntime,
         CreateWorkspaceBinding, TakeRuntimeLock, Bind, Serve, ProcessDies,
         LockReleased, MandateCompletes, Crash, vars, rows

LEMMA NextRows ==
    ASSUME TypeOK, ActInv, EpochInv, [Next]_vars
    PROVE  RowsStep
  <1>1. CASE Reads BY <1>1, ReadsKeepRows, SameRows
  <1>2. CASE Rewrites BY <1>2, RewriteRows DEF Rewrites
  <1>3. CASE AdmitInsert BY <1>3, AdmitRows
  <1>4. CASE Opens
    <2>1. PICK epoch \in Nat, prior \in 0 .. Len(cand) : OpenSession(epoch, prior)
      BY <1>4, OpensSession
    <2> QED BY <1>4, <2>1, OpensSession, OpenSessionRows
  <1> QED BY <1>1, <1>2, <1>3, <1>4, NextKinds

\* No row follows the candidates after it.
LEMMA NextPriors ==
    ASSUME TypeOK, ActInv, EpochInv, [Next]_vars
    PROVE  \A c \in DOMAIN cand' : cand'[c].prior < c
  <1>1. ASSUME DOMAIN cand' = DOMAIN cand
        PROVE  \A c \in DOMAIN cand' : cand'[c].prior < c
    BY <1>1, NextRows DEF RowsStep, RowStep, TypeOK
  <1>2. CASE Reads BY <1>1, <1>2, ReadsKeepRows
  <1>3. CASE Rewrites BY <1>1, <1>3, RewriteRows DEF Rewrites, NoneAdmitted
  <1>4. CASE AdmitInsert BY <1>1, <1>4, AdmitRows
  <1>5. CASE Opens
    <2>1. PICK epoch \in Nat, prior \in 0 .. Len(cand) : OpenSession(epoch, prior)
      BY <1>5, OpensSession
    <2>2. /\ DOMAIN cand' = DOMAIN cand \union {Len(cand) + 1}
          /\ cand'[Len(cand) + 1] = NewCand(epoch, prior)
          /\ RowsStep
      BY <1>5, <2>1, OpensSession, OpenSessionRows
    <2>3. cand'[Len(cand) + 1].prior < Len(cand) + 1
      BY <2>2, Domain DEF NewCand
    <2> QED BY <2>2, <2>3 DEF RowsStep, RowStep, TypeOK
  <1> QED BY <1>2, <1>3, <1>4, <1>5, NextKinds

-----------------------------------------------------------------------------
(* The actors, the pointer and the types of the rest.                      *)

ActRow ==
    [pc: ActPc, c: 0 .. Len(cand), r: 0 .. Len(cand), lost: BOOLEAN, holds: BOOLEAN]
Pointer == [kind: {"missing", "binding", "revoked"}, c: 0 .. Len(cand)]

\* What named a candidate still does.
LEMMA Wider ==
    ASSUME TypeOK, RowsStep
    PROVE  /\ 0 .. Len(cand) \subseteq 0 .. Len(cand') /\ Len(cand') \in Nat
           /\ act \in [Actor -> ActRow] /\ ActRow \subseteq ActRow'
           /\ active \in Pointer /\ Pointer \subseteq Pointer'
           /\ Idle \in ActRow'
           /\ DOMAIN cand \subseteq DOMAIN cand' /\ DOMAIN cand' \subseteq 0 .. Len(cand')
  <1>1. Len(cand) \in Nat /\ Len(cand') \in Nat /\ Len(cand) <= Len(cand')
    BY Domain DEF RowsStep
  <1>2. 0 .. Len(cand) \subseteq 0 .. Len(cand') BY <1>1
  <1>3. act \in [Actor -> ActRow] /\ active \in Pointer BY DEF TypeOK, ActRow, Pointer
  <1>4. ActRow \subseteq ActRow' BY <1>2 DEF ActRow
  <1>5. Pointer \subseteq Pointer' BY <1>2 DEF Pointer
  <1>6. Idle \in ActRow' BY <1>1 DEF ActRow, Idle, ActPc
  <1>7. DOMAIN cand \subseteq DOMAIN cand' /\ DOMAIN cand' \subseteq 0 .. Len(cand')
    BY <1>1 DEF RowsStep
  <1> QED BY <1>1, <1>2, <1>3, <1>4, <1>5, <1>6, <1>7

\* One actor moves to a state of its procedure.
LEMMA SetAct ==
    ASSUME TypeOK, RowsStep, NEW a \in Actor, NEW rec, rec \in ActRow',
           act' = [act EXCEPT ![a] = rec]
    PROVE  /\ act' \in [Actor -> ActRow'] /\ act'[a] = rec
           /\ \A b \in Actor : b # a => act'[b] = act[b]
  <1>1. act \in [Actor -> ActRow'] BY Wider
  <1> QED BY <1>1

LEMMA KeepAct ==
    ASSUME TypeOK, RowsStep, act' = act
    PROVE  act' \in [Actor -> ActRow']
  BY Wider

\* A procedure of the tick and the command know their candidates.
TickOK ==
    LET t == act["tick"]
    IN  /\ t.pc \in TickPc
        /\ t.pc # "idle" => active.kind # "missing" /\ t.c \in DOMAIN cand
        /\ t.pc \in RollbackPc => t.r \in DOMAIN cand
CommandOK ==
    LET t == act["command"]
    IN  /\ t.pc \in {"idle", "file", "binding"}
        /\ t.pc # "idle" => t.c \in DOMAIN cand
PointerOK == active.kind # "missing" => active.c \in DOMAIN cand

\* Steps in which no procedure moves.
LEMMA ActStays ==
    ASSUME TypeOK, ActInv, RowsStep, act' = act, active' = active
    PROVE  ActInv' /\ act' \in [Actor -> ActRow'] /\ active' \in Pointer'
  <1>1. DOMAIN cand \subseteq DOMAIN cand' BY DEF RowsStep
  <1> QED BY <1>1, KeepAct, Wider DEF ActInv

\* Steps of the tick.
LEMMA ActTick ==
    ASSUME TypeOK, ActInv, RowsStep, NEW rec, rec \in ActRow',
           act' = [act EXCEPT !["tick"] = rec],
           rec.pc \in TickPc,
           rec.pc # "idle" => active'.kind # "missing" /\ rec.c \in DOMAIN cand',
           rec.pc \in RollbackPc => rec.r \in DOMAIN cand',
           PointerOK', active' \in Pointer'
    PROVE  ActInv' /\ act' \in [Actor -> ActRow'] /\ active' \in Pointer'
  <1>1. "tick" \in Actor /\ "command" \in Actor BY DEF Actor
  <1>2. /\ act' \in [Actor -> ActRow'] /\ act'["tick"] = rec
        /\ act'["command"] = act["command"]
    BY <1>1, SetAct
  <1>3. TickOK' BY <1>2 DEF TickOK
  <1>4. CommandOK' BY <1>2, Wider DEF ActInv, CommandOK
  <1> QED BY <1>2, <1>3, <1>4 DEF ActInv, TickOK, CommandOK, PointerOK

\* Steps of the command.
LEMMA ActCommand ==
    ASSUME TypeOK, ActInv, RowsStep, NEW rec, rec \in ActRow',
           act' = [act EXCEPT !["command"] = rec],
           rec.pc \in {"idle", "file", "binding"},
           rec.pc # "idle" => rec.c \in DOMAIN cand',
           active.kind # "missing" => active'.kind # "missing",
           PointerOK', active' \in Pointer'
    PROVE  ActInv' /\ act' \in [Actor -> ActRow'] /\ active' \in Pointer'
  <1>1. "tick" \in Actor /\ "command" \in Actor BY DEF Actor
  <1>2. /\ act' \in [Actor -> ActRow'] /\ act'["command"] = rec
        /\ act'["tick"] = act["tick"]
    BY <1>1, SetAct
  <1>3. CommandOK' BY <1>2 DEF CommandOK
  <1>4. TickOK' BY <1>2, Wider DEF ActInv, TickOK
  <1> QED BY <1>2, <1>3, <1>4 DEF ActInv, TickOK, CommandOK, PointerOK

\* An actor is idle again.
LEMMA ActRaise ==
    ASSUME TypeOK, ActInv, RowsStep, NEW a \in Actor, Raise(a),
           active.kind # "missing" => active'.kind # "missing",
           PointerOK', active' \in Pointer'
    PROVE  ActInv' /\ act' \in [Actor -> ActRow'] /\ active' \in Pointer'
  <1>1. Idle \in ActRow' /\ Idle.pc = "idle" BY Wider DEF Idle
  <1>2. CASE a = "tick"
    BY <1>1, <1>2, ActTick DEF Raise, TickPc, RollbackPc
  <1>3. CASE a = "command" BY <1>1, <1>3, ActCommand DEF Raise
  <1> QED BY <1>2, <1>3 DEF Actor

\* The tick goes on in its procedure, with what it has.
LEMMA ActGo ==
    ASSUME TypeOK, ActInv, RowsStep, NEW pc \in TickPc, Go("tick", pc),
           ~At("tick", "idle"), pc \in RollbackPc => act["tick"].r \in DOMAIN cand,
           active'.kind # "missing", PointerOK', active' \in Pointer'
    PROVE  ActInv' /\ act' \in [Actor -> ActRow'] /\ active' \in Pointer'
  <1> DEFINE rec == [act["tick"] EXCEPT !.pc = pc]
  <1>1. act["tick"] \in ActRow' BY Wider DEF Actor
  <1>2. /\ rec \in ActRow' /\ rec.pc = pc /\ rec.c = act["tick"].c
        /\ rec.r = act["tick"].r
    BY <1>1 DEF ActRow, ActPc, TickPc, RollbackPc
  <1>3. act' = [act EXCEPT !["tick"] = rec] BY DEF Go
  <1>4. rec.c \in DOMAIN cand' BY <1>2, Wider DEF ActInv, At
  <1>5. rec.pc \in RollbackPc => rec.r \in DOMAIN cand' BY <1>2, Wider
  <1> HIDE DEF rec
  <1> QED BY <1>2, <1>3, <1>4, <1>5, ActTick

\* The steps that leave both actors and the pointer alone.
LEMMA NextActQuiet ==
    ASSUME TypeOK, ActInv, RowsStep,
           \/ UNCHANGED vars \/ LockReleased \/ MandateCompletes
           \/ \E c \in DOMAIN cand : LeaseLapses(c)
           \/ \E p \in Launch :
                \/ LaunchRuntime(p) \/ CreateWorkspaceBinding(p)
                \/ TakeRuntimeLock(p) \/ Bind(p) \/ Serve(p) \/ ProcessDies(p)
    PROVE  ActInv' /\ act' \in [Actor -> ActRow'] /\ active' \in Pointer'
  <1>1. act' = act /\ active' = active
    BY DEF vars, files, LockReleased, MandateCompletes, LeaseLapses, LaunchRuntime,
           CreateWorkspaceBinding, TakeRuntimeLock, Bind, Serve, ProcessDies
  <1> QED BY <1>1, ActStays

\* The tick's steps.
LEMMA NextActTick ==
    ASSUME TypeOK, ActInv, RowsStep, Tick \/ TickRenewsTooLate
    PROVE  ActInv' /\ act' \in [Actor -> ActRow'] /\ active' \in Pointer'
  <1> DEFINE t == act["tick"]
             Goal == ActInv' /\ act' \in [Actor -> ActRow'] /\ active' \in Pointer'
  <1>0. t \in ActRow /\ t \in ActRow' /\ "tick" \in Actor BY Wider DEF Actor
  <1>1. PointerOK /\ TickOK BY DEF ActInv, PointerOK, TickOK
  <1>2. ASSUME active' = active PROVE PointerOK' /\ active' \in Pointer'
    BY <1>1, <1>2, Wider DEF PointerOK
  <1>3. ASSUME active' = active, Raise("tick") PROVE Goal
    BY <1>0, <1>2, <1>3, ActRaise
  <1>4. ASSUME NEW pc \in RollbackPc, active' = active, Go("tick", pc),
               t.pc \in RollbackPc
        PROVE  Goal
    BY <1>1, <1>2, <1>4, ActGo DEF TickOK, TickPc, At, RollbackPc
  <1>5. CASE TickStart
    <2> DEFINE rec == CASE active.kind = "binding" ->
                             [Idle EXCEPT !.pc = "judge", !.c = active.c]
                        [] active.kind = "revoked" ->
                             [Idle EXCEPT !.pc = "load", !.c = active.c, !.lost = TRUE]
                        [] active.kind = "missing" -> Idle
    <2>1. active' = active /\ act' = [act EXCEPT !["tick"] = rec]
      BY <1>5 DEF TickStart, files
    <2>2. active \in Pointer /\ Idle \in ActRow' /\ Pointer \subseteq Pointer' BY Wider
    <2>3. /\ rec \in ActRow' /\ rec.pc \in {"idle", "judge", "load"}
          /\ rec.pc # "idle" => active.kind # "missing" /\ rec.c = active.c
      <3>1. CASE active.kind = "binding"
        BY <2>2, <3>1 DEF ActRow, Idle, Pointer, ActPc
      <3>2. CASE active.kind = "revoked"
        BY <2>2, <3>2 DEF ActRow, Idle, Pointer, ActPc
      <3>3. CASE active.kind = "missing"
        BY <2>2, <3>3 DEF ActRow, Idle, Pointer, ActPc
      <3> QED BY <2>2, <3>1, <3>2, <3>3 DEF Pointer
    <2> HIDE DEF rec
    <2>4. rec.pc # "idle" => active'.kind # "missing" /\ rec.c \in DOMAIN cand'
      BY <1>1, <2>1, <2>3, Wider DEF PointerOK
    <2> QED BY <1>2, <2>1, <2>3, <2>4, ActTick DEF TickPc, RollbackPc
  <1>6. CASE TickJudge
    <2> DEFINE h == HoldsLock(t.c)
               q == IF h /\ ~LineageBroken(t.c) THEN "renew" ELSE "load"
               rec == [t EXCEPT !.pc = q, !.lost = h]
    <2>1. active' = active /\ act' = [act EXCEPT !["tick"] = rec]
      BY <1>0, <1>6 DEF TickJudge, files
    <2>2. h \in BOOLEAN BY DEF HoldsLock, Running
    <2>3. q \in {"renew", "load"} OBVIOUS
    <2> HIDE DEF h, q
    <2>4. rec \in ActRow' /\ rec.pc = q /\ rec.c = t.c
      BY <1>0, <2>2, <2>3 DEF ActRow, ActPc
    <2> HIDE DEF rec
    <2>5. active.kind # "missing" /\ t.c \in DOMAIN cand'
      BY <1>1, <1>6, Wider DEF TickJudge, At, TickOK
    <2> QED BY <1>2, <2>1, <2>3, <2>4, <2>5, ActTick DEF TickPc, RollbackPc
  <1>7. CASE TickRenew \/ TickRenewsTooLate
    BY <1>3, <1>7 DEF TickRenew, TickRenewsTooLate, files
  <1>8. CASE RollbackLoad
    <2> DEFINE h == HoldsLock(active.c)
               rec == [t EXCEPT !.pc = "revoke", !.r = active.c, !.holds = h]
    <2>1. active' = active BY <1>8 DEF RollbackLoad, files
    <2>2. h \in BOOLEAN BY DEF HoldsLock, Running
    <2>3. Raise("tick") \/ act' = [act EXCEPT !["tick"] = rec]
      BY <1>0, <1>8 DEF RollbackLoad
    <2> HIDE DEF h
    <2>4. /\ active.kind # "missing" /\ t.c \in DOMAIN cand'
          /\ active.c \in DOMAIN cand' /\ active.c \in 0 .. Len(cand')
      BY <1>1, <1>8, Wider DEF RollbackLoad, At, TickOK, PointerOK
    <2>5. rec \in ActRow' /\ rec.pc = "revoke" /\ rec.c = t.c /\ rec.r = active.c
      BY <1>0, <2>2, <2>4 DEF ActRow, ActPc
    <2> HIDE DEF rec
    <2>6. ASSUME act' = [act EXCEPT !["tick"] = rec] PROVE Goal
      BY <1>2, <2>1, <2>4, <2>5, <2>6, ActTick DEF TickPc, RollbackPc
    <2> QED BY <1>3, <2>1, <2>3, <2>6
  <1>9. CASE RollbackRevoke
    BY <1>3, <1>4, <1>9 DEF RollbackRevoke, files, At, RollbackPc
  <1>10. CASE RollbackArchive
    BY <1>3, <1>4, <1>10 DEF RollbackArchive, At, RollbackPc
  <1>11. CASE RollbackPointer
    <2>1. t.r \in DOMAIN cand BY <1>1, <1>11 DEF RollbackPointer, At, TickOK, RollbackPc
    <2>2. active' = [kind |-> "revoked", c |-> t.r] BY <1>11 DEF RollbackPointer
    <2>3. PointerOK' /\ active' \in Pointer' /\ active'.kind # "missing"
      BY <2>1, <2>2, Wider DEF PointerOK, Pointer
    <2> QED BY <1>11, <2>1, <2>3, ActGo DEF RollbackPointer, At, TickPc, RollbackPc
  <1>12. CASE RollbackReceipt
    BY <1>3, <1>4, <1>12 DEF RollbackReceipt, At, RollbackPc
  <1>13. CASE TickIntent BY <1>3, <1>4, <1>13 DEF TickIntent, At, RollbackPc
  <1>14. CASE TickRequest BY <1>3, <1>14 DEF TickRequest
  <1> QED BY <1>5, <1>6, <1>7, <1>8, <1>9, <1>10, <1>11, <1>12, <1>13, <1>14 DEF Tick

\* The command's steps, and a crash.
LEMMA NextActCommand ==
    ASSUME TypeOK, ActInv, EpochInv, RowsStep,
           \/ Started \/ Opens \/ AdmitInsert
           \/ \E i \in DOMAIN cand : PrepareRecoveryAgain(i)
           \/ \E a \in Actor : Crash(a)
    PROVE  ActInv' /\ act' \in [Actor -> ActRow'] /\ active' \in Pointer'
  <1> DEFINE t == act["command"]
             Goal == ActInv' /\ act' \in [Actor -> ActRow'] /\ active' \in Pointer'
  <1>0. "command" \in Actor BY DEF Actor
  <1>1. PointerOK /\ CommandOK BY DEF ActInv, PointerOK, CommandOK
  <1>2. ASSUME active' = active PROVE PointerOK' /\ active' \in Pointer'
    BY <1>1, <1>2, Wider DEF PointerOK
  <1>3. ASSUME active' = active, NEW a \in Actor, Raise(a) PROVE Goal
    BY <1>2, <1>3, ActRaise
  <1>4. ASSUME NEW pc \in {"file", "binding"}, NEW c \in DOMAIN cand', active' = active,
               act' = [act EXCEPT !["command"] = [Idle EXCEPT !.pc = pc, !.c = c]]
        PROVE  Goal
    <2> DEFINE rec == [Idle EXCEPT !.pc = pc, !.c = c]
    <2>1. rec \in ActRow' /\ rec.pc = pc /\ rec.c = c
      BY Wider DEF ActRow, Idle, ActPc
    <2> HIDE DEF rec
    <2>2. act' = [act EXCEPT !["command"] = rec] BY <1>4 DEF rec
    <2> QED BY <1>2, <1>4, <2>1, <2>2, ActCommand
  <1>5. CASE WriteCandidate BY <1>0, <1>3, <1>5 DEF WriteCandidate
  <1>6. CASE AdmitBinding
    <2>1. t.c \in DOMAIN cand' BY <1>1, <1>6, Wider DEF AdmitBinding, At, CommandOK
    <2>2. active' = [kind |-> "binding", c |-> t.c] BY <1>6 DEF AdmitBinding
    <2>3. PointerOK' /\ active' \in Pointer' /\ active'.kind # "missing"
      BY <2>1, <2>2, Wider DEF PointerOK, Pointer
    <2> QED BY <1>0, <1>6, <2>3, ActRaise DEF AdmitBinding
  <1>7. CASE Opens
    <2>1. PICK epoch \in Nat, prior \in 0 .. Len(cand) : OpenSession(epoch, prior)
      BY <1>7, OpensSession
    <2>2. Len(cand) + 1 \in DOMAIN cand'
      BY <1>7, <2>1, OpensSession, OpenSessionRows
    <2>3. active' = active BY <1>7, OpensSession DEF files
    <2> QED BY <1>4, <2>1, <2>2, <2>3 DEF OpenSession
  <1>8. CASE AdmitInsert
    BY <1>4, <1>8, AdmitRows DEF AdmitInsert, files
  <1>9. CASE \E i \in DOMAIN cand : PrepareRecoveryAgain(i)
    BY <1>4, <1>9, Wider DEF PrepareRecoveryAgain, OpenIntents, files
  <1>10. CASE \E a \in Actor : Crash(a) BY <1>3, <1>10 DEF Crash
  <1> QED BY <1>5, <1>6, <1>7, <1>8, <1>9, <1>10 DEF Started

LEMMA NextAct ==
    ASSUME TypeOK, ActInv, EpochInv, [Next]_vars
    PROVE  ActInv' /\ act' \in [Actor -> ActRow'] /\ active' \in Pointer'
  BY NextRows, NextActQuiet, NextActTick, NextActCommand DEF Next, Opens

\* The names of candidates in rows and files.
LEMMA NextNames ==
    ASSUME TypeOK, ActInv, EpochInv, [Next]_vars
    PROVE  /\ worker' \in 0 .. Len(cand') /\ request' \in 0 .. Len(cand')
           /\ candidate' \in 0 .. Len(cand')
  <1>1. /\ 0 .. Len(cand) \subseteq 0 .. Len(cand')
        /\ DOMAIN cand \subseteq 0 .. Len(cand') /\ Len(cand') \in Nat
    BY NextRows, Wider
  <1>2. worker \in 0 .. Len(cand) /\ request \in 0 .. Len(cand) /\ candidate \in 0 .. Len(cand)
    BY DEF TypeOK
  <1>3. CASE Reads
    <2>1. worker' = worker
      BY <1>3
      DEF Reads, TickStart, TickJudge, RollbackLoad, RollbackArchive,
          RollbackPointer, RollbackReceipt, TickIntent, TickRequest,
          WriteCandidate, AdmitBinding, PrepareRecoveryAgain, LaunchRuntime,
          CreateWorkspaceBinding, TakeRuntimeLock, Bind, Serve, ProcessDies,
          LockReleased, MandateCompletes, Crash, vars, rows
    <2>2. \/ request' = request
          \/ request' = act["tick"].c /\ At("tick", "request")
      BY <1>3
      DEF Reads, TickStart, TickJudge, RollbackLoad, RollbackArchive,
          RollbackPointer, RollbackReceipt, TickIntent, TickRequest,
          WriteCandidate, AdmitBinding, PrepareRecoveryAgain, LaunchRuntime,
          CreateWorkspaceBinding, TakeRuntimeLock, Bind, Serve, ProcessDies,
          LockReleased, MandateCompletes, Crash, vars, files
    <2>3. \/ candidate' = candidate
          \/ candidate' = act["command"].c /\ At("command", "file")
      BY <1>3
      DEF Reads, TickStart, TickJudge, RollbackLoad, RollbackArchive,
          RollbackPointer, RollbackReceipt, TickIntent, TickRequest,
          WriteCandidate, AdmitBinding, PrepareRecoveryAgain, LaunchRuntime,
          CreateWorkspaceBinding, TakeRuntimeLock, Bind, Serve, ProcessDies,
          LockReleased, MandateCompletes, Crash, vars, files
    <2> QED BY <1>1, <1>2, <2>1, <2>2, <2>3 DEF ActInv, At
  <1>4. CASE Rewrites
    <2>1. /\ worker' = worker \/ worker' = 0
          /\ request' = request /\ candidate' = candidate
      BY <1>4 DEF Rewrites, TickRenew, TickRenewsTooLate, RollbackRevoke, LeaseLapses, files
    <2> QED BY <1>1, <1>2, <2>1
  <1>5. CASE Opens
    <2>1. PICK epoch \in Nat, prior \in 0 .. Len(cand) : OpenSession(epoch, prior)
      BY <1>5, OpensSession
    <2>2. Len(cand') = Len(cand) + 1
      BY <1>5, <2>1, OpensSession, OpenSessionRows
    <2>3. worker' = Len(cand) + 1 /\ request' = request /\ candidate' = candidate
      BY <1>5, <2>1, OpensSession DEF OpenSession, files
    <2> QED BY <1>1, <1>2, <2>2, <2>3, Domain
  <1>6. CASE AdmitInsert BY <1>1, <1>2, <1>6 DEF AdmitInsert, files
  <1> QED BY <1>3, <1>4, <1>5, <1>6, NextKinds

\* The write-once files, one step of one of which may be made, or torn.
LEMMA NextFiles ==
    ASSUME TypeOK, ActInv, [Next]_vars
    PROVE  /\ archive' \in [Cand -> {"none", "torn", "done"}]
           /\ intent' \in [Cand -> {"none", "torn", "done"}]
           /\ receipt' \in [Cand -> 0 .. TornReceipt]
  <1>0. /\ archive \in [Cand -> {"none", "torn", "done"}]
        /\ intent \in [Cand -> {"none", "torn", "done"}]
        /\ receipt \in [Cand -> 0 .. TornReceipt]
    BY DEF TypeOK
  <1>1. CASE RollbackArchive BY <1>0, <1>1 DEF RollbackArchive
  <1>2. CASE RollbackReceipt
    <2>1. act["tick"].r \in 0 .. TornReceipt
      BY <1>2, Domain, Bounds DEF RollbackReceipt, At, ActInv, RollbackPc, Cand, TornReceipt
    <2> QED BY <1>0, <1>2, <2>1 DEF RollbackReceipt
  <1>3. CASE TickIntent BY <1>0, <1>3 DEF TickIntent
  <1>4. CASE \E a \in Actor : Crash(a)
    <2>1. TornReceipt \in 0 .. TornReceipt BY Bounds DEF TornReceipt
    <2> QED BY <1>0, <1>4, <2>1 DEF Crash
  <1>5. CASE ~RollbackArchive /\ ~RollbackReceipt /\ ~TickIntent /\ ~\E a \in Actor : Crash(a)
    <2>1. UNCHANGED <<archive, intent, receipt>>
      BY <1>5
      DEF Next, Tick, Started, TickStart, TickJudge, TickRenew, RollbackLoad,
          RollbackRevoke, RollbackPointer, TickRequest, TickRenewsTooLate,
          WriteCandidate, AdmitBinding, PrepareInitial, AdmitInsert,
          PrepareRecoveryAgain, PrepareRecovery, LaunchRuntime,
          CreateWorkspaceBinding, TakeRuntimeLock, Bind, Serve, ProcessDies,
          LockReleased, MandateCompletes, LeaseLapses, vars, files
    <2> QED BY <1>0, <2>1
  <1> QED BY <1>1, <1>2, <1>3, <1>4, <1>5

\* The processes, and what only they and the environment change.
LEMMA NextProcs ==
    ASSUME TypeOK, [Next]_vars
    PROVE  /\ mandate' \in {"active", "completed"}
           /\ bootstrap' \in 0 .. MaxLaunch /\ workspace' \in BOOLEAN
           /\ proc' \in [Launch -> {"new", "empty", "ready", "waiting", "bound",
                                   "serving", "dead"}]
           /\ holder' \in 0 .. MaxLaunch /\ events' \in 0 .. MaxEvents
  <1>0. /\ mandate \in {"active", "completed"}
        /\ bootstrap \in 0 .. MaxLaunch /\ workspace \in BOOLEAN
        /\ proc \in [Launch -> {"new", "empty", "ready", "waiting", "bound",
                                "serving", "dead"}]
        /\ holder \in 0 .. MaxLaunch /\ events \in 0 .. MaxEvents
    BY DEF TypeOK
  <1>1. Launch \subseteq 0 .. MaxLaunch /\ 0 \in 0 .. MaxLaunch BY Bounds DEF Launch
  <1>2. Event => events' \in 0 .. MaxEvents BY <1>0, Bounds DEF Event
  <1>3. CASE \E p \in Launch :
               \/ LaunchRuntime(p) \/ CreateWorkspaceBinding(p) \/ TakeRuntimeLock(p)
               \/ Bind(p) \/ Serve(p) \/ ProcessDies(p)
    <2>1. PICK p \in Launch :
               \/ LaunchRuntime(p) \/ CreateWorkspaceBinding(p) \/ TakeRuntimeLock(p)
               \/ Bind(p) \/ Serve(p) \/ ProcessDies(p)
      BY <1>3
    <2>2. \E q \in {"empty", "ready", "waiting", "bound", "serving", "dead"} :
              proc' = [proc EXCEPT ![p] = q]
      BY <2>1 DEF LaunchRuntime, CreateWorkspaceBinding, TakeRuntimeLock, Bind,
                  Serve, ProcessDies
    <2>3. /\ mandate' = mandate /\ events' = events
          /\ workspace' = workspace \/ workspace' = TRUE
          /\ bootstrap' \in {bootstrap, p} /\ holder' \in {holder, p}
      BY <2>1 DEF LaunchRuntime, CreateWorkspaceBinding, TakeRuntimeLock, Bind,
                  Serve, ProcessDies, rows, files
    <2> QED BY <1>0, <1>1, <2>2, <2>3
  <1>4. CASE LockReleased BY <1>0, <1>1, <1>4 DEF LockReleased, rows, files
  <1>5. CASE MandateCompletes BY <1>0, <1>2, <1>5 DEF MandateCompletes, files, procs
  <1>6. CASE \/ TickRenewsTooLate \/ \E c \in DOMAIN cand : LeaseLapses(c)
             \/ \E a \in Actor : Crash(a)
    <2>1. Event /\ UNCHANGED <<mandate, bootstrap, workspace, proc, holder>>
      BY <1>6 DEF TickRenewsTooLate, LeaseLapses, Crash, files, procs, rows
    <2> QED BY <1>0, <1>2, <2>1
  <1>7. CASE \/ Tick \/ Started \/ PrepareInitial \/ AdmitInsert \/ UNCHANGED vars
             \/ \E i \in DOMAIN cand : PrepareRecoveryAgain(i) \/ PrepareRecovery(i)
    <2>1. UNCHANGED <<mandate, bootstrap, workspace, proc, holder, events>>
      BY <1>7
      DEF Tick, Started, TickStart, TickJudge, TickRenew, RollbackLoad,
          RollbackRevoke, RollbackArchive, RollbackPointer, RollbackReceipt,
          TickIntent, TickRequest, WriteCandidate, AdmitBinding, PrepareInitial,
          AdmitInsert, PrepareRecoveryAgain, PrepareRecovery, vars, files, procs, rows
    <2> QED BY <1>0, <2>1
  <1> QED BY <1>3, <1>4, <1>5, <1>6, <1>7 DEF Next

LEMMA NextType ==
    ASSUME TypeOK, ActInv, EpochInv, [Next]_vars
    PROVE  TypeOK' /\ ActInv'
  <1>1. cand' \in Seq(CandRow) /\ Len(cand') <= MaxCand BY NextRows DEF RowsStep
  <1>2. act' \in [Actor -> [pc: ActPc, c: 0 .. Len(cand'), r: 0 .. Len(cand'),
                            lost: BOOLEAN, holds: BOOLEAN]]
    BY NextAct DEF ActRow
  <1>3. active' \in [kind: {"missing", "binding", "revoked"}, c: 0 .. Len(cand')]
    BY NextAct DEF Pointer
  <1> QED
    BY <1>1, <1>2, <1>3, NextAct, NextPriors, NextNames, NextFiles, NextProcs DEF TypeOK

-----------------------------------------------------------------------------
(* The artifacts.                                                          *)

\* What is whole stays whole.
FilesStep ==
    /\ \A c \in Cand : archive[c] = "done" => archive'[c] = "done"
    /\ \A c \in Cand : intent[c] = "done" => intent'[c] = "done"
    /\ \A c \in Cand : receipt[c] \in Cand => receipt'[c] = receipt[c]

\* No new whole receipt, intent or request.
NoNewFile ==
    /\ \A c \in Cand : receipt'[c] \in Cand => receipt'[c] = receipt[c]
    /\ \A c \in Cand : intent'[c] = "done" => intent[c] = "done"
    /\ request' = request

LEMMA NextFilesStep ==
    ASSUME TypeOK, ActInv, [Next]_vars
    PROVE  FilesStep
  <1>0. /\ archive \in [Cand -> {"none", "torn", "done"}]
        /\ intent \in [Cand -> {"none", "torn", "done"}]
        /\ receipt \in [Cand -> 0 .. TornReceipt]
        /\ 0 \notin Cand
    BY DEF TypeOK, Cand
  <1>1. CASE RollbackArchive BY <1>0, <1>1 DEF RollbackArchive, FilesStep
  <1>2. CASE RollbackReceipt BY <1>0, <1>2 DEF RollbackReceipt, FilesStep
  <1>3. CASE TickIntent BY <1>0, <1>3 DEF TickIntent, FilesStep
  <1>4. CASE \E a \in Actor : Crash(a) BY <1>0, <1>4 DEF Crash, FilesStep
  <1>5. CASE ~RollbackArchive /\ ~RollbackReceipt /\ ~TickIntent /\ ~\E a \in Actor : Crash(a)
    <2>1. UNCHANGED <<archive, intent, receipt>>
      BY <1>5
      DEF Next, Tick, Started, TickStart, TickJudge, TickRenew, RollbackLoad,
          RollbackRevoke, RollbackPointer, TickRequest, TickRenewsTooLate,
          WriteCandidate, AdmitBinding, PrepareInitial, AdmitInsert,
          PrepareRecoveryAgain, PrepareRecovery, LaunchRuntime,
          CreateWorkspaceBinding, TakeRuntimeLock, Bind, Serve, ProcessDies,
          LockReleased, MandateCompletes, LeaseLapses, vars, files
    <2> QED BY <2>1 DEF FilesStep
  <1> QED BY <1>1, <1>2, <1>3, <1>4, <1>5

\* An epoch that is over stays over.
LEMMA OverStays ==
    ASSUME TypeOK, RowsStep, FilesStep
    PROVE  /\ \A r \in DOMAIN cand : Closed(r) => Closed(r)'
           /\ \A r : Over(r) => Over(r)'
  <1>1. \A r \in DOMAIN cand : Closed(r) => Closed(r)'
    BY DEF Closed, RowsStep, RowStep
  <1>2. \A r \in DOMAIN cand : r \in Cand /\ r \in DOMAIN cand' BY Domain DEF RowsStep
  <1> QED BY <1>1, <1>2 DEF Over, FilesStep

\* No new file: the evidence stays what it was.
LEMMA ArtifactsStay ==
    ASSUME TypeOK, RowsStep, FilesStep, Artifacts, NoNewFile
    PROVE  Artifacts'
  <1>1. ASSUME NEW c \in Cand, receipt'[c] \in Cand PROVE Over(receipt[c])'
    <2>1. receipt'[c] = receipt[c] /\ Over(receipt[c])
      BY <1>1 DEF NoNewFile, Artifacts
    <2>2. PICK r \in Cand : r = receipt[c] BY <1>1, <2>1
    <2>3. Over(r)' BY <2>1, <2>2, OverStays
    <2> QED BY <2>1, <2>2, <2>3 DEF Over, Closed
  <1>2. ASSUME NEW c \in Cand, intent'[c] = "done" PROVE receipt'[c] = c
    BY <1>2 DEF NoNewFile, Artifacts, FilesStep
  <1>3. request' # 0 => request \in Cand
    BY Bounds, Domain DEF NoNewFile, TypeOK, Cand
  <1>4. request' # 0 => intent'[request'] = "done"
    BY <1>3 DEF NoNewFile, Artifacts, FilesStep
  <1> QED BY <1>1, <1>2, <1>4 DEF Artifacts

\* The tick stays where it was, or leaves the rollback.
LEMMA UnderwayStays ==
    ASSUME TypeOK, ActInv, RowsStep, FilesStep, Underway,
           \/ act'["tick"] = act["tick"]
           \/ act'["tick"].pc \in {"idle", "judge", "renew", "load", "revoke"}
    PROVE  Underway'
  <1> DEFINE t == act["tick"]
  <1>1. CASE act'["tick"].pc \in {"idle", "judge", "renew", "load", "revoke"}
    BY <1>1 DEF Underway
  <1>2. CASE act'["tick"] = act["tick"]
    <2>1. PICK u : u = t OBVIOUS
    <2>2. act'["tick"] = u /\ act["tick"] = u BY <1>2, <2>1
    <2>3. u.pc # "idle" => u.c \in DOMAIN cand BY <2>2 DEF ActInv
    <2>4. u.pc \in RollbackPc => u.r \in DOMAIN cand BY <2>2 DEF ActInv
    <2>5. DOMAIN cand \subseteq Cand BY Domain
    <2>6. u.pc = "archive" => Closed(u.r)'
      BY <2>2, <2>4, OverStays DEF Underway, RollbackPc
    <2>7. u.pc \in {"pointer", "receipt"} => Over(u.r)' BY <2>2, OverStays DEF Underway
    <2>8. u.pc = "intent" => receipt'[u.c] = u.r
      BY <2>2, <2>3, <2>4, <2>5 DEF Underway, FilesStep, RollbackPc
    <2>9. u.pc = "request" => intent'[u.c] = "done"
      BY <2>2, <2>3, <2>5 DEF Underway, FilesStep
    <2> QED BY <2>2, <2>6, <2>7, <2>8, <2>9 DEF Underway, Over, Closed
  <1> QED BY <1>1, <1>2

\* The tick's record after one of its steps.
LEMMA TickAfter ==
    ASSUME TypeOK
    PROVE  /\ Raise("tick") => act'["tick"] = Idle
           /\ \A pc : Go("tick", pc) =>
                 /\ act'["tick"].pc = pc /\ act'["tick"].c = act["tick"].c
                 /\ act'["tick"].r = act["tick"].r
                 /\ act'["tick"].holds = act["tick"].holds
           /\ Raise("command") => act'["tick"] = act["tick"]
  <1>1. /\ act \in [Actor -> ActRow] /\ "tick" \in Actor /\ "command" \in Actor
        /\ act["tick"] \in ActRow
    BY DEF TypeOK, ActRow, Actor
  <1> QED BY <1>1 DEF Raise, Go, ActRow

\* The steps outside the rollback's files.
LEMMA NextUnderwayQuiet ==
    ASSUME TypeOK, ActInv, RowsStep, FilesStep, Artifacts, Underway,
           \/ UNCHANGED vars \/ LockReleased \/ MandateCompletes
           \/ \E c \in DOMAIN cand : LeaseLapses(c)
           \/ \E p \in Launch :
                \/ LaunchRuntime(p) \/ CreateWorkspaceBinding(p)
                \/ TakeRuntimeLock(p) \/ Bind(p) \/ Serve(p) \/ ProcessDies(p)
           \/ Started \/ PrepareInitial \/ AdmitInsert
           \/ \E i \in DOMAIN cand : PrepareRecoveryAgain(i) \/ PrepareRecovery(i)
    PROVE  Artifacts' /\ Underway'
  <1>1. UNCHANGED <<receipt, intent, request>>
    BY DEF vars, files, LockReleased, MandateCompletes, LeaseLapses, LaunchRuntime,
           CreateWorkspaceBinding, TakeRuntimeLock, Bind, Serve, ProcessDies, Started,
           WriteCandidate, AdmitBinding, PrepareInitial, AdmitInsert,
           PrepareRecoveryAgain, PrepareRecovery
  <1>2. act \in [Actor -> ActRow] /\ "tick" \in Actor BY DEF TypeOK, ActRow, Actor
  <1>3. act' = act \/ \E rec : act' = [act EXCEPT !["command"] = rec]
    BY DEF vars, LockReleased, MandateCompletes, LeaseLapses, LaunchRuntime,
           CreateWorkspaceBinding, TakeRuntimeLock, Bind, Serve, ProcessDies, Started,
           WriteCandidate, AdmitBinding, PrepareInitial, AdmitInsert,
           PrepareRecoveryAgain, PrepareRecovery, OpenSession, Raise
  <1>4. act'["tick"] = act["tick"] BY <1>2, <1>3
  <1>5. NoNewFile BY <1>1 DEF NoNewFile
  <1> QED BY <1>4, <1>5, ArtifactsStay, UnderwayStays

\* The rollback's steps.
LEMMA NextUnderwayTick ==
    ASSUME TypeOK, ActInv, RowsStep, FilesStep, Artifacts, Underway,
           Tick \/ TickRenewsTooLate
    PROVE  Artifacts' /\ Underway'
  <1> DEFINE t == act["tick"]
             Quiet == {"idle", "judge", "renew", "load", "revoke"}
  <1>0. /\ act \in [Actor -> ActRow] /\ "tick" \in Actor /\ t \in ActRow
        /\ archive \in [Cand -> {"none", "torn", "done"}]
        /\ intent \in [Cand -> {"none", "torn", "done"}]
        /\ receipt \in [Cand -> 0 .. TornReceipt]
    BY DEF TypeOK, ActRow, Actor
  <1>1. /\ t.pc # "idle" => t.c \in DOMAIN cand /\ t.c \in Cand
        /\ t.pc \in RollbackPc => t.r \in DOMAIN cand /\ t.r \in Cand
    BY Domain DEF ActInv
  <1>2. UNCHANGED <<receipt, intent, request>> => Artifacts'
    BY ArtifactsStay DEF NoNewFile
  <1>3. act'["tick"].pc \in Quiet => Underway' BY UnderwayStays
  <1>4. Raise("tick") => Underway' BY <1>3, TickAfter DEF Idle
  <1>5. CASE TickStart \/ TickJudge \/ RollbackLoad
    <2>1. UNCHANGED <<receipt, intent, request>>
      BY <1>5 DEF TickStart, TickJudge, RollbackLoad, files
    <2>2. CASE TickStart
      <3>1. active.kind \in {"missing", "binding", "revoked"} BY DEF TypeOK
      <3>2. act'["tick"].pc \in Quiet BY <1>0, <2>2, <3>1 DEF TickStart, Idle
      <3> QED BY <1>2, <1>3, <2>1, <3>2
    <2>3. CASE TickJudge
      <3>1. act'["tick"].pc \in Quiet BY <1>0, <2>3 DEF TickJudge, ActRow
      <3> QED BY <1>2, <1>3, <2>1, <3>1
    <2>4. CASE RollbackLoad
      <3>1. act'["tick"].pc \in Quiet BY <1>0, <2>4, TickAfter DEF RollbackLoad, ActRow, Idle
      <3> QED BY <1>2, <1>3, <2>1, <3>1
    <2> QED BY <1>5, <2>2, <2>3, <2>4
  <1>6. CASE TickRenew \/ TickRenewsTooLate
    BY <1>2, <1>4, <1>6 DEF TickRenew, TickRenewsTooLate, files
  <1>7. CASE RollbackRevoke
    <2>1. UNCHANGED <<receipt, intent, request>> BY <1>7 DEF RollbackRevoke, files
    <2>2. PICK r \in DOMAIN cand : r = t.r
      BY <1>1, <1>7 DEF RollbackRevoke, At, RollbackPc
    <2>3. CASE Go("tick", "archive")
      <3>1. act'["tick"].pc = "archive" /\ act'["tick"].r = r BY <2>2, <2>3, TickAfter
      <3>2. cand' = [cand EXCEPT ![r].adm = "revoked", ![r].session = "ended"]
        BY <1>7, <2>2, <3>1, TickAfter DEF RollbackRevoke, Idle
      <3>3. cand \in Seq(CandRow) /\ cand[r] \in CandRow BY Domain DEF TypeOK
      <3>4. Closed(r)' BY <3>2, <3>3 DEF Closed, CandRow
      <3> QED BY <1>2, <2>1, <3>1, <3>4 DEF Underway, Closed
    <2> QED BY <1>2, <1>4, <1>7, <2>1, <2>3 DEF RollbackRevoke
  <1>8. CASE RollbackArchive
    <2>1. UNCHANGED <<receipt, intent, request>> BY <1>8 DEF RollbackArchive
    <2>2. PICK r \in DOMAIN cand : r = t.r /\ r \in Cand
      BY <1>1, <1>8 DEF RollbackArchive, At, RollbackPc
    <2>3. CASE Go("tick", "pointer")
      <3>1. act'["tick"].pc = "pointer" /\ act'["tick"].r = r BY <2>2, <2>3, TickAfter
      <3>2. archive'[r] = "done"
        BY <1>0, <1>8, <2>2, <3>1, TickAfter DEF RollbackArchive, Idle
      <3>3. Closed(r)' BY <1>8, <2>2, OverStays DEF Underway, RollbackArchive, At
      <3>4. Over(r)' BY <3>2, <3>3, Wider DEF Over
      <3> QED BY <1>2, <2>1, <3>1, <3>4 DEF Underway, Over, Closed
    <2> QED BY <1>2, <1>4, <1>8, <2>1, <2>3 DEF RollbackArchive
  <1>9. CASE RollbackPointer
    <2>1. UNCHANGED <<receipt, intent, request>> BY <1>9 DEF RollbackPointer
    <2>2. PICK r \in DOMAIN cand : r = t.r
      BY <1>1, <1>9 DEF RollbackPointer, At, RollbackPc
    <2>3. act'["tick"].pc = "receipt" /\ act'["tick"].r = r
      BY <1>9, <2>2, TickAfter DEF RollbackPointer
    <2>4. Over(r)' BY <1>9, <2>2, OverStays DEF RollbackPointer, At, Underway
    <2> QED BY <1>2, <2>1, <2>3, <2>4 DEF Underway, Over, Closed
  <1>10. CASE RollbackReceipt
    <2>1. PICK c \in Cand, r \in DOMAIN cand : c = t.c /\ r = t.r /\ r \in Cand
      BY <1>1, <1>10 DEF RollbackReceipt, At, RollbackPc
    <2>2. Over(r) /\ Over(r)' BY <1>10, <2>1, OverStays DEF RollbackReceipt, At, Underway
    <2>3. CASE Raise("tick") /\ receipt' = receipt
      BY <1>2, <1>4, <1>10, <2>3 DEF RollbackReceipt
    <2>4. CASE Go("tick", "intent") /\ receipt' = [receipt EXCEPT ![c] = r]
      <3>1. /\ act'["tick"].pc = "intent" /\ act'["tick"].r = r /\ act'["tick"].c = c
        BY <2>1, <2>4, TickAfter
      <3>2. receipt'[c] = r /\ \A d \in Cand : d # c => receipt'[d] = receipt[d]
        BY <1>0, <2>4
      <3>3. Underway' BY <3>1, <3>2 DEF Underway
      <3>4. ASSUME NEW d \in Cand, receipt'[d] \in Cand PROVE Over(receipt[d])'
        <4>1. CASE d = c BY <2>2, <3>2, <4>1 DEF Over, Closed
        <4>2. CASE d # c
          <5>1. PICK q \in Cand : q = receipt[d] BY <3>2, <3>4, <4>2
          <5>2. Over(q)' BY <5>1, OverStays DEF Artifacts
          <5> QED BY <3>2, <4>2, <5>1, <5>2 DEF Over, Closed
        <4> QED BY <4>1, <4>2
      <3>5. intent' = intent /\ request' = request BY <1>10 DEF RollbackReceipt
      <3>6. ASSUME NEW d \in Cand, intent'[d] = "done" PROVE receipt'[d] = d
        BY <3>5, <3>6 DEF Artifacts, FilesStep
      <3> QED BY <3>3, <3>4, <3>5, <3>6 DEF Artifacts
    <2> QED BY <1>10, <2>1, <2>3, <2>4 DEF RollbackReceipt
  <1>11. CASE TickIntent
    <2>1. PICK c \in Cand : c = t.c BY <1>1, <1>11 DEF TickIntent, At
    <2>2. receipt' = receipt /\ request' = request BY <1>11 DEF TickIntent
    <2>3. CASE Raise("tick") /\ intent' = intent BY <1>2, <1>4, <2>2, <2>3
    <2>4. CASE /\ receipt[c] = c /\ intent' = [intent EXCEPT ![c] = "done"]
               /\ Go("tick", "request")
      <3>1. act'["tick"].pc = "request" /\ act'["tick"].c = c BY <2>1, <2>4, TickAfter
      <3>2. intent'[c] = "done" /\ \A d \in Cand : d # c => intent'[d] = intent[d]
        BY <1>0, <2>4
      <3>3. Underway' BY <3>1, <3>2 DEF Underway
      <3>4. ASSUME NEW d \in Cand, receipt'[d] \in Cand PROVE Over(receipt[d])'
        <4>1. PICK q \in Cand : q = receipt[d] BY <2>2, <3>4
        <4>2. Over(q)' BY <4>1, OverStays DEF Artifacts
        <4> QED BY <2>2, <4>1, <4>2 DEF Over, Closed
      <3>5. \A d \in Cand : intent'[d] = "done" => receipt'[d] = d
        BY <2>2, <2>4, <3>2 DEF Artifacts
      <3>6. request # 0 => request \in Cand BY Bounds, Domain DEF TypeOK, Cand
      <3>7. request' # 0 => intent'[request'] = "done"
        BY <2>2, <3>6 DEF Artifacts, FilesStep
      <3> QED BY <3>3, <3>4, <3>5, <3>7 DEF Artifacts
    <2> QED BY <1>11, <2>1, <2>3, <2>4 DEF TickIntent
  <1>12. CASE TickRequest
    <2>1. PICK c \in Cand : c = t.c BY <1>1, <1>12 DEF TickRequest, At
    <2>2. UNCHANGED <<receipt, intent>> /\ request' = c BY <1>12, <2>1 DEF TickRequest
    <2>3. Underway' BY <1>4, <1>12 DEF TickRequest
    <2>4. ASSUME NEW d \in Cand, receipt'[d] \in Cand PROVE Over(receipt[d])'
      <3>1. PICK q \in Cand : q = receipt[d] BY <2>2, <2>4
      <3>2. Over(q)' BY <3>1, OverStays DEF Artifacts
      <3> QED BY <2>2, <3>1, <3>2 DEF Over, Closed
    <2>5. intent[c] = "done" BY <1>12, <2>1 DEF TickRequest, At, Underway
    <2>6. intent'[request'] = "done" BY <2>2, <2>5
    <2> QED BY <2>2, <2>3, <2>4, <2>6 DEF Artifacts
  <1> QED BY <1>5, <1>6, <1>7, <1>8, <1>9, <1>10, <1>11, <1>12 DEF Tick

\* A crash may tear the file being made, and makes none.
LEMMA NextUnderwayCrash ==
    ASSUME TypeOK, ActInv, RowsStep, FilesStep, Artifacts, Underway,
           NEW a \in Actor, Crash(a)
    PROVE  Artifacts' /\ Underway'
  <1>1. TornReceipt \notin Cand BY Bounds DEF TornReceipt, Cand
  <1>2. receipt \in [Cand -> 0 .. TornReceipt] /\ intent \in [Cand -> {"none", "torn", "done"}]
    BY DEF TypeOK
  <1>3. NoNewFile BY <1>1, <1>2 DEF Crash, NoNewFile
  <1>4. act'["tick"] = act["tick"] \/ act'["tick"] = Idle
    BY TickAfter DEF Crash, Actor
  <1> QED BY <1>3, <1>4, ArtifactsStay, UnderwayStays DEF Idle

LEMMA NextUnderway ==
    ASSUME TypeOK, ActInv, EpochInv, Artifacts, Underway, [Next]_vars
    PROVE  Artifacts' /\ Underway'
  BY NextRows, NextFilesStep, NextUnderwayQuiet, NextUnderwayTick, NextUnderwayCrash
  DEF Next

-----------------------------------------------------------------------------
(* Rows, processes and the lock.                                           *)

\* The rows of recoveries.
LEMMA NextRow ==
    ASSUME TypeOK, ActInv, EpochInv, RowInv, [Next]_vars
    PROVE  RowInv'
  <1>0. RowsStep /\ FilesStep BY NextRows, NextFilesStep
  <1>1. DOMAIN cand \subseteq Cand /\ \A c \in DOMAIN cand : cand[c] \in CandRow
    BY Domain
  <1>2. \A c \in DOMAIN cand : cand[c].prior # 0 => cand[c].prior \in DOMAIN cand
    <2>1. TAKE c \in DOMAIN cand
    <2>2. cand[c].prior \in 0 .. MaxCand /\ cand[c].prior < c
      BY <1>1 DEF CandRow, TypeOK
    <2> QED BY <2>2, Domain, Bounds
  <1>3. ASSUME NEW c \in DOMAIN cand PROVE RecoveryRow(c)'
    <2>1. RowStep(cand[c], cand'[c]) BY <1>0 DEF RowsStep
    <2>2. CASE cand[c].prior = 0 BY <2>1, <2>2 DEF RowStep, RecoveryRow
    <2>3. CASE cand[c].prior # 0
      <3>1. PICK i \in DOMAIN cand : i = cand[c].prior BY <1>2, <2>3
      <3>2. RowStep(cand[i], cand'[i]) BY <1>0 DEF RowsStep
      <3>3. RecoveryRow(c) BY DEF RowInv
      <3>4. /\ cand[c].intent \in {"prepared", "consumed"} /\ intent[i] = "done"
            /\ cand[c].epoch = cand[i].epoch + 1
        BY <2>3, <3>1, <3>3 DEF RecoveryRow
      <3>5. /\ cand'[c].intent \in {"prepared", "consumed"} /\ intent'[i] = "done"
            /\ cand'[c].epoch = cand'[i].epoch + 1 /\ cand'[c].prior = i
        BY <1>0, <1>1, <2>1, <3>1, <3>2, <3>4 DEF RowStep, FilesStep
      <3> QED BY <3>5 DEF RecoveryRow
    <2> QED BY <2>2, <2>3
  <1>4. \A c \in DOMAIN cand : cand'[c].prior = cand[c].prior
    BY <1>0 DEF RowsStep, RowStep
  <1>5. CASE DOMAIN cand' = DOMAIN cand BY <1>3, <1>4, <1>5 DEF RowInv
  <1>6. CASE Opens
    <2>1. PICK epoch \in Nat, prior \in 0 .. Len(cand) :
            /\ OpenSession(epoch, prior)
            /\ prior # 0 =>
                  /\ prior \in DOMAIN cand /\ IntentLoads(prior)
                  /\ OpenIntents(prior) = {}
                  /\ epoch = cand[prior].epoch + 1
      BY <1>6, OpensSession
    <2>0. PICK n \in Nat : n = Len(cand) + 1 BY Domain
    <2>2. /\ DOMAIN cand' = DOMAIN cand \union {n} /\ n \notin DOMAIN cand
          /\ cand'[n] = NewCand(epoch, prior)
      BY <1>6, <2>0, <2>1, OpensSession, OpenSessionRows
    <2>3. cand'[n].prior = prior /\ cand'[n].epoch = epoch
      BY <2>2 DEF NewCand
    <2>4. prior # 0 => cand'[n].intent = "prepared" BY <2>2 DEF NewCand
    <2>5. RecoveryRow(n)'
      <3>1. CASE prior = 0 BY <2>3, <3>1 DEF RecoveryRow
      <3>2. CASE prior # 0
        <4>1. PICK i \in DOMAIN cand : i = prior BY <2>1, <3>2
        <4>2. intent'[i] = "done" BY <1>0, <1>1, <2>1, <3>2, <4>1 DEF IntentLoads, FilesStep
        <4>3. cand'[i].epoch = cand[i].epoch BY <1>0 DEF RowsStep, RowStep
        <4> QED BY <2>1, <2>3, <2>4, <3>2, <4>1, <4>2, <4>3 DEF RecoveryRow
      <3> QED BY <3>1, <3>2
    <2>6. ASSUME NEW d \in DOMAIN cand, prior # 0 PROVE cand[d].prior # prior
      BY <2>1, <2>6 DEF OpenIntents, RowInv, RecoveryRow
    <2> QED BY <1>3, <1>4, <2>2, <2>3, <2>5, <2>6 DEF RowInv
  <1>7. CASE ~Opens
    <2>1. Reads \/ Rewrites \/ AdmitInsert BY <1>7, NextKinds
    <2>2. DOMAIN cand' = DOMAIN cand
      BY <2>1, ReadsKeepRows, RewriteRows, AdmitRows DEF Rewrites, NoneAdmitted
    <2> QED BY <1>5, <2>2
  <1> QED BY <1>6, <1>7

\* The steps of the processes, and the release of the lock.
ProcStep(p) ==
    \/ LaunchRuntime(p) \/ CreateWorkspaceBinding(p) \/ TakeRuntimeLock(p)
    \/ Bind(p) \/ Serve(p) \/ ProcessDies(p)

LEMMA ProcsChange ==
    ASSUME [Next]_vars
    PROVE  \/ \E p \in Launch : ProcStep(p)
           \/ LockReleased
           \/ UNCHANGED <<proc, holder>>
  BY DEF Next, Tick, Started, TickStart, TickJudge, TickRenew, RollbackLoad,
         RollbackRevoke, RollbackArchive, RollbackPointer, RollbackReceipt,
         TickIntent, TickRequest, TickRenewsTooLate, WriteCandidate, AdmitBinding,
         PrepareInitial, AdmitInsert, PrepareRecoveryAgain, PrepareRecovery,
         MandateCompletes, LeaseLapses, Crash, ProcStep, vars, procs

\* What a process may become, and where the lock goes then.
LEMMA ProcMoves ==
    ASSUME TypeOK, NEW p \in Launch, ProcStep(p)
    PROVE  /\ cand' = cand /\ \A q \in Launch : q # p => proc'[q] = proc[q]
           /\ \/ /\ proc[p] \in {"new", "empty", "ready"} /\ holder' = holder
                 /\ proc'[p] \in {"empty", "ready", "dead"}
              \/ /\ proc[p] = "ready" /\ proc'[p] = "waiting"
                 /\ holder = 0 /\ holder' = p
              \/ /\ proc[p] \in LockPc /\ proc'[p] \in {"bound", "serving", "dead"}
                 /\ proc'[p] = "bound" =>
                       /\ proc[p] = "waiting" /\ active.kind = "binding"
                       /\ cand[active.c].proc = p /\ Bindable(active.c)
                 /\ proc'[p] = "serving" => proc[p] = "bound"
                 /\ holder' = holder
  <1>0. proc \in [Launch -> {"new", "empty", "ready", "waiting", "bound",
                           "serving", "dead"}]
    BY DEF TypeOK
  <1>1. cand' = cand
    BY DEF ProcStep, LaunchRuntime, CreateWorkspaceBinding, TakeRuntimeLock, Bind,
           Serve, ProcessDies, rows
  <1>2. CASE LaunchRuntime(p) BY <1>0, <1>1, <1>2 DEF LaunchRuntime
  <1>3. CASE CreateWorkspaceBinding(p) BY <1>0, <1>1, <1>3 DEF CreateWorkspaceBinding
  <1>4. CASE TakeRuntimeLock(p) BY <1>0, <1>1, <1>4 DEF TakeRuntimeLock
  <1>5. CASE Bind(p) BY <1>0, <1>1, <1>5 DEF Bind, LockPc
  <1>6. CASE Serve(p) BY <1>0, <1>1, <1>6 DEF Serve, LockPc
  <1>7. CASE ProcessDies(p) BY <1>0, <1>1, <1>7 DEF ProcessDies, Running, LockPc
  <1> QED BY <1>2, <1>3, <1>4, <1>5, <1>6, <1>7 DEF ProcStep

\* The lock and the processes of the rows.
LEMMA NextLock ==
    ASSUME TypeOK, ActInv, EpochInv, LockInv, [Next]_vars
    PROVE  LockInv' /\ \A p \in Launch : proc[p] = "dead" => proc'[p] = "dead"
  <1>0. /\ holder \in 0 .. MaxLaunch /\ 0 \notin Launch
        /\ holder # 0 => holder \in Launch
        /\ \A c \in DOMAIN cand : cand[c].proc \in Launch
    BY Bounds, Domain DEF TypeOK, Launch, CandRow
  <1>1. RowsStep BY NextRows
  <1>2. CASE \E p \in Launch : ProcStep(p)
    <2>1. PICK p \in Launch : ProcStep(p) BY <1>2
    <2> HIDE DEF ProcStep
    <2>2. CASE /\ proc[p] \in {"new", "empty", "ready"} /\ holder' = holder
               /\ proc'[p] \in {"empty", "ready", "dead"}
      BY <1>0, <2>1, <2>2, ProcMoves DEF LockInv, LockPc
    <2>3. CASE /\ proc[p] = "ready" /\ proc'[p] = "waiting"
               /\ holder = 0 /\ holder' = p
      BY <1>0, <2>1, <2>3, ProcMoves DEF LockInv, LockPc
    <2>4. CASE /\ proc[p] \in LockPc /\ proc'[p] \in {"bound", "serving", "dead"}
               /\ holder' = holder
      BY <1>0, <2>1, <2>4, ProcMoves DEF LockInv, LockPc
    <2> QED BY <2>1, <2>2, <2>3, <2>4, ProcMoves
  <1>3. CASE LockReleased
    <2>1. proc' = proc /\ cand' = cand /\ holder' = 0 /\ holder # 0 /\ proc[holder] = "dead"
      BY <1>3 DEF LockReleased, rows
    <2> QED BY <2>1 DEF LockInv, LockPc
  <1>4. CASE UNCHANGED <<proc, holder>>
    <2>1. CASE Opens
      <3>1. PICK epoch \in Nat, prior \in 0 .. Len(cand) : OpenSession(epoch, prior)
        BY <2>1, OpensSession
      <3>2. /\ DOMAIN cand' = DOMAIN cand \union {Len(cand) + 1}
            /\ cand'[Len(cand) + 1] = NewCand(epoch, prior)
        BY <2>1, <3>1, OpensSession, OpenSessionRows
      <3>3. bootstrap # 0 /\ holder = bootstrap /\ proc[bootstrap] # "dead"
        BY <2>1, OpensSession DEF BootstrapHeld, Running
      <3>4. proc[cand'[Len(cand) + 1].proc] \in LockPc \union {"dead"}
        BY <3>2, <3>3 DEF NewCand, LockInv
      <3>5. \A c \in DOMAIN cand : cand'[c].proc = cand[c].proc
        BY <1>1 DEF RowsStep, RowStep
      <3> QED BY <1>4, <3>2, <3>4, <3>5 DEF LockInv
    <2>2. CASE ~Opens
      <3>1. Reads \/ Rewrites \/ AdmitInsert BY <2>2, NextKinds
      <3>2. DOMAIN cand' = DOMAIN cand
        BY <3>1, ReadsKeepRows, RewriteRows, AdmitRows DEF Rewrites, NoneAdmitted
      <3> QED BY <1>1, <1>4, <3>2 DEF LockInv, RowsStep, RowStep
    <2> QED BY <2>1, <2>2
  <1> QED BY <1>2, <1>3, <1>4, ProcsChange

\* The live row.
LEMMA NextLive ==
    ASSUME TypeOK, ActInv, EpochInv, LockInv, LiveInv, [Next]_vars
    PROVE  LiveInv'
  <1>0. RowsStep BY NextRows
  <1>1. \A c \in DOMAIN cand : cand'[c].proc = cand[c].proc
    BY <1>0 DEF RowsStep, RowStep
  <1>2. CASE \E p \in Launch : ProcStep(p)
    <2>1. PICK p \in Launch : ProcStep(p) BY <1>2
    <2>2. cand' = cand /\ \A q \in Launch : q # p => proc'[q] = proc[q]
      BY <2>1, ProcMoves
    <2>3. Live' = Live BY <2>2 DEF Live
    <2>4. proc'[p] = "bound" => \A c \in Live : cand[c].proc = p
      <3>1. SUFFICES ASSUME proc'[p] = "bound" PROVE \A c \in Live : cand[c].proc = p
        OBVIOUS
      <3>2. /\ active.kind = "binding" /\ cand[active.c].proc = p
            /\ Bindable(active.c)
        BY <2>1, <3>1, ProcMoves DEF LockPc
      <3>3. active.c \in DOMAIN cand BY <3>2 DEF ActInv
      <3>4. active.c \in Live BY <3>2, <3>3 DEF Live, Bindable
      <3> QED BY <3>2, <3>4 DEF LiveInv
    <2>5. proc'[p] = "serving" => \A c \in Live : cand[c].proc = p
      BY <2>1, ProcMoves DEF LiveInv, LockPc
    <2> QED BY <2>2, <2>3, <2>4, <2>5 DEF LiveInv
  <1>3. CASE proc' = proc
    <2>1. CASE Reads \/ Rewrites
      <3>1. Live' \subseteq Live
        <4>1. NoneAdmitted
          BY <2>1, ReadsKeepRows, SameRows, RewriteRows DEF Rewrites
        <4> QED BY <4>1 DEF Live, NoneAdmitted
      <3>2. Live \subseteq DOMAIN cand BY DEF Live
      <3> QED BY <1>1, <1>3, <3>1, <3>2 DEF LiveInv
    <2>2. CASE Opens
      <3>1. PICK epoch \in Nat, prior \in 0 .. Len(cand) : OpenSession(epoch, prior)
        BY <2>2, OpensSession
      <3>2. /\ DOMAIN cand' = DOMAIN cand \union {Len(cand) + 1}
            /\ cand'[Len(cand) + 1] = NewCand(epoch, prior)
            /\ \A c \in DOMAIN cand : cand'[c].adm = cand[c].adm
        BY <2>2, <3>1, OpensSession, OpenSessionRows
      <3>3. Live = {} BY <2>2, OpensSession
      <3>4. cand'[Len(cand) + 1].adm = "none" BY <3>2 DEF NewCand
      <3>5. Live' = {} BY <3>2, <3>3, <3>4 DEF Live
      <3> QED BY <3>5 DEF LiveInv
    <2>3. CASE AdmitInsert
      <3>1. PICK k \in DOMAIN cand : k = candidate BY <2>3, AdmitRows
      <3>2. /\ DOMAIN cand' = DOMAIN cand
            /\ \A c \in DOMAIN cand : c # k => cand'[c] = cand[c]
        BY <2>3, <3>1, AdmitRows
      <3>3. Live = {} BY <2>3 DEF AdmitInsert, Insertable
      <3>4. Live' \subseteq {k} BY <3>2, <3>3 DEF Live
      <3>5. holder = bootstrap /\ cand'[k].proc = bootstrap
        BY <1>1, <2>3, <3>1 DEF AdmitInsert, BootstrapHeld
      <3>6. \A p \in Launch : proc'[p] \in {"bound", "serving"} => p = bootstrap
        BY <1>3, <3>5 DEF LockInv, LockPc
      <3> QED BY <3>4, <3>5, <3>6 DEF LiveInv
    <2> QED BY <2>1, <2>2, <2>3, NextKinds
  <1> QED BY <1>2, <1>3, ProcsChange DEF LockReleased

\* The row with the last epoch.
LEMMA NextEpoch ==
    ASSUME TypeOK, ActInv, EpochInv, [Next]_vars
    PROVE  EpochInv'
  <1>0. RowsStep BY NextRows
  <1>1. ASSUME Admitted' = Admitted PROVE EpochInv'
    <2>1. CASE Admitted = {} BY <1>1, <2>1 DEF EpochInv
    <2>2. CASE Admitted # {}
      <3>1. PICK k \in DOMAIN cand : TRUE BY <2>2 DEF Admitted
      <3> QED BY <1>0, <1>1, <3>1, OneMoreEpoch
    <2> QED BY <2>1, <2>2
  <1>2. CASE Reads \/ Rewrites
    <2>1. NoneAdmitted BY <1>2, ReadsKeepRows, SameRows, RewriteRows DEF Rewrites
    <2> QED BY <1>0, <1>1, <2>1, OneMoreEpoch DEF NoneAdmitted
  <1>3. CASE Opens
    <2>1. PICK epoch \in Nat, prior \in 0 .. Len(cand) : OpenSession(epoch, prior)
      BY <1>3, OpensSession
    <2>2. /\ DOMAIN cand' = DOMAIN cand \union {Len(cand) + 1}
          /\ cand'[Len(cand) + 1] = NewCand(epoch, prior)
          /\ \A c \in DOMAIN cand : cand'[c].adm = cand[c].adm
      BY <1>3, <2>1, OpensSession, OpenSessionRows
    <2>3. cand'[Len(cand) + 1].adm = "none" BY <2>2 DEF NewCand
    <2>4. Admitted' = Admitted BY <2>2, <2>3 DEF Admitted
    <2> QED BY <1>1, <2>4
  <1>4. CASE AdmitInsert
    <2>1. PICK k \in DOMAIN cand : k = candidate BY <1>4, AdmitRows
    <2>2. /\ DOMAIN cand' = DOMAIN cand
          /\ \A c \in DOMAIN cand : c # k => cand'[c] = cand[c]
      BY <1>4, <2>1, AdmitRows
    <2>3. CASE cand'[k].adm # "none"
      <3>1. Admitted' = Admitted \union {k} BY <2>2, <2>3 DEF Admitted
      <3> QED BY <1>0, <3>1, OneMoreEpoch
    <2>4. CASE cand'[k].adm = "none"
      <3>1. cand[k].adm = "none" BY <1>4, <2>1 DEF AdmitInsert
      <3>2. Admitted' = Admitted BY <2>2, <2>4, <3>1 DEF Admitted
      <3> QED BY <1>1, <3>2
    <2> QED BY <2>3, <2>4
  <1> QED BY <1>2, <1>3, <1>4, NextKinds

\* Of a candidate's process, "it does not hold the lock" means "it is dead".
LEMMA NotHeldIsDead ==
    ASSUME TypeOK, LockInv, NEW c \in DOMAIN cand
    PROVE  cand[c].proc \in Launch /\ (HoldsLock(c) <=> proc[cand[c].proc] # "dead")
  <1>1. cand[c].proc \in Launch BY Domain DEF CandRow
  <1> QED BY <1>1 DEF LockInv, LockPc, HoldsLock, Running

\* How the tick comes to the point of revoking a row.
LEMMA RevokeAfterLoad ==
    ASSUME TypeOK, [Next]_vars, act'["tick"].pc = "revoke"
    PROVE  \/ act'["tick"] = act["tick"]
           \/ /\ RollbackLoad /\ act'["tick"].r = active.c
              /\ act'["tick"].holds = HoldsLock(active.c)
  <1>0. /\ act \in [Actor -> ActRow] /\ "tick" \in Actor /\ act["tick"] \in ActRow
        /\ "command" \in Actor
    BY DEF TypeOK, ActRow, Actor
  <1>1. Idle.pc = "idle" BY DEF Idle
  <1>2. CASE TickStart
    <2>1. active.kind \in {"missing", "binding", "revoked"} BY DEF TypeOK
    <2>2. act'["tick"].pc \in {"idle", "judge", "load"}
      BY <1>0, <1>2, <2>1 DEF TickStart, Idle
    <2> QED BY <2>2
  <1>3. CASE TickJudge
    <2>1. act'["tick"].pc \in {"renew", "load"} BY <1>0, <1>3 DEF TickJudge, ActRow
    <2> QED BY <2>1
  <1>4. CASE RollbackLoad
    <2> DEFINE h == HoldsLock(active.c)
               rec == [act["tick"] EXCEPT !.pc = "revoke", !.r = active.c, !.holds = h]
    <2>1. Raise("tick") \/ act' = [act EXCEPT !["tick"] = rec]
      BY <1>0, <1>4 DEF RollbackLoad
    <2>2. rec.r = active.c /\ rec.holds = h BY <1>0 DEF ActRow
    <2> HIDE DEF rec
    <2> QED BY <1>0, <1>1, <1>4, <2>1, <2>2, TickAfter
  <1>5. CASE \/ TickRenew \/ TickRenewsTooLate \/ RollbackRevoke \/ RollbackArchive
             \/ RollbackPointer \/ RollbackReceipt \/ TickIntent \/ TickRequest
    <2>1. Raise("tick") \/ \E pc \in {"archive", "pointer", "receipt", "intent", "request"} :
                               Go("tick", pc)
      BY <1>5 DEF TickRenew, TickRenewsTooLate, RollbackRevoke, RollbackArchive,
                  RollbackPointer, RollbackReceipt, TickIntent, TickRequest
    <2> QED BY <1>1, <2>1, TickAfter
  <1>6. CASE \E a \in Actor : Crash(a) BY <1>1, <1>6, TickAfter DEF Crash, Actor
  <1>7. CASE \/ UNCHANGED vars \/ LockReleased \/ MandateCompletes
             \/ \E c \in DOMAIN cand : LeaseLapses(c)
             \/ \E p \in Launch :
                  \/ LaunchRuntime(p) \/ CreateWorkspaceBinding(p)
                  \/ TakeRuntimeLock(p) \/ Bind(p) \/ Serve(p) \/ ProcessDies(p)
             \/ Started \/ PrepareInitial \/ AdmitInsert
             \/ \E i \in DOMAIN cand : PrepareRecoveryAgain(i) \/ PrepareRecovery(i)
    <2>1. act' = act \/ \E rec : act' = [act EXCEPT !["command"] = rec]
      BY <1>7
      DEF vars, LockReleased, MandateCompletes, LeaseLapses, LaunchRuntime,
          CreateWorkspaceBinding, TakeRuntimeLock, Bind, Serve, ProcessDies, Started,
          WriteCandidate, AdmitBinding, PrepareInitial, AdmitInsert,
          PrepareRecoveryAgain, PrepareRecovery, OpenSession, Raise
    <2> QED BY <1>0, <2>1
  <1> QED BY <1>2, <1>3, <1>4, <1>5, <1>6, <1>7 DEF Next, Tick

\* The process that the rollback measured.
LEMMA NextFence ==
    ASSUME TypeOK, ActInv, EpochInv, LockInv, FenceInv, [Next]_vars
    PROVE  FenceInv'
  <1>0. RowsStep BY NextRows
  <1>1. \A c \in DOMAIN cand : cand'[c].proc = cand[c].proc /\ cand[c].proc \in Launch
    BY <1>0, Domain DEF RowsStep, RowStep, CandRow
  <1>2. \A p \in Launch : proc[p] = "dead" => proc'[p] = "dead" BY NextLock
  <1>3. SUFFICES ASSUME act'["tick"].pc = "revoke", ~act'["tick"].holds
                 PROVE  proc'[cand'[act'["tick"].r].proc] = "dead"
    BY DEF FenceInv, At
  <1>4. CASE act'["tick"] = act["tick"]
    <2>1. act["tick"].r \in DOMAIN cand BY <1>3, <1>4 DEF ActInv, RollbackPc
    <2>2. proc[cand[act["tick"].r].proc] = "dead" BY <1>3, <1>4 DEF FenceInv, At
    <2> QED BY <1>1, <1>2, <1>4, <2>1, <2>2
  <1>5. CASE /\ RollbackLoad /\ act'["tick"].r = active.c
             /\ act'["tick"].holds = HoldsLock(active.c)
    <2>1. active.c \in DOMAIN cand BY <1>5 DEF RollbackLoad, At, ActInv
    <2>2. proc[cand[active.c].proc] = "dead" BY <1>3, <1>5, <2>1, NotHeldIsDead
    <2> QED BY <1>1, <1>2, <1>5, <2>1, <2>2
  <1> QED BY <1>3, <1>4, <1>5, RevokeAfterLoad

-----------------------------------------------------------------------------
(* The theorems.                                                           *)

LEMMA Initially ==
    ASSUME Init
    PROVE  Inv
  <1>1. cand = <<>> /\ cand \in Seq(CandRow) /\ Len(cand) = 0 /\ DOMAIN cand = {}
    BY DEF Init
  <1>2. Idle \in [pc: ActPc, c: 0 .. 0, r: 0 .. 0, lost: BOOLEAN, holds: BOOLEAN]
    BY DEF Idle, ActPc
  <1>3. act \in [Actor -> [pc: ActPc, c: 0 .. Len(cand), r: 0 .. Len(cand),
                           lost: BOOLEAN, holds: BOOLEAN]]
    BY <1>1, <1>2 DEF Init
  <1>4. TypeOK
    <2>1. /\ 0 \in 0 .. Len(cand) /\ Len(cand) <= MaxCand /\ 0 \in 0 .. MaxLaunch
          /\ 0 \in 0 .. MaxEvents /\ 0 \in 0 .. TornReceipt
      BY <1>1, Bounds DEF TornReceipt
    <2>2. receipt \in [Cand -> 0 .. TornReceipt] BY <2>1 DEF Init
    <2>3. active \in [kind: {"missing", "binding", "revoked"}, c: 0 .. Len(cand)]
      BY <2>1 DEF Init
    <2>4. /\ archive \in [Cand -> {"none", "torn", "done"}]
          /\ intent \in [Cand -> {"none", "torn", "done"}]
          /\ proc \in [Launch -> {"new", "empty", "ready", "waiting", "bound",
                                 "serving", "dead"}]
      BY DEF Init
    <2>5. \A c \in DOMAIN cand : cand[c].prior < c BY <1>1
    <2>6. /\ worker = 0 /\ mandate = "active" /\ request = 0 /\ candidate = 0
          /\ bootstrap = 0 /\ workspace = FALSE /\ holder = 0 /\ events = 0
      BY DEF Init
    <2> QED BY <1>1, <1>3, <2>1, <2>2, <2>3, <2>4, <2>5, <2>6 DEF TypeOK
  <1>5. act["tick"] = Idle /\ act["command"] = Idle /\ Idle.pc = "idle"
    BY DEF Init, Actor, Idle
  <1>6. ActInv BY <1>5 DEF ActInv, Init, TickPc, RollbackPc
  <1>7. Artifacts /\ Underway
    BY <1>5 DEF Artifacts, Underway, Init, Cand
  <1>8. RowInv /\ LockInv /\ LiveInv /\ EpochInv
    BY <1>1 DEF RowInv, LockInv, LiveInv, EpochInv, Init, Live, Admitted, LockPc
  <1>9. FenceInv BY <1>5 DEF FenceInv, At
  <1> QED BY <1>4, <1>6, <1>7, <1>8, <1>9 DEF Inv

LEMMA Inductive ==
    ASSUME Inv, [Next]_vars
    PROVE  Inv'
  BY NextType, NextUnderway, NextRow, NextLock, NextLive, NextEpoch, NextFence DEF Inv

\* Whatever a launch or a recovery of a role relies on, its restart request, the
\* intent, the receipt and the archive, is the evidence of an epoch that is over,
\* and no epoch is recovered from twice, however ticks, commands and crashes of
\* supervise_company_role_once and prepare-recovery interleave.
THEOREM EvidenceSound == Spec => []EvidenceIsSound
  <1>1. ASSUME Inv PROVE EvidenceIsSound
    <2>1. TypeOK /\ Artifacts /\ RowInv BY <1>1 DEF Inv
    <2>2. ASSUME NEW i \in Cand, intent[i] = "done"
          PROVE  receipt[i] = i /\ Over(i)
      BY <2>1, <2>2 DEF Artifacts
    <2>3. RequestHasEvidence
      <3>1. request # 0 => request \in Cand BY <2>1, Bounds, Domain DEF TypeOK, Cand
      <3> QED BY <2>1, <2>2, <3>1 DEF RequestHasEvidence, Artifacts, Over, Closed
    <2>4. RecoveryHasEvidence
      <3>1. SUFFICES ASSUME NEW c \in DOMAIN cand, cand[c].prior # 0
                     PROVE  LET i == cand[c].prior IN
                            /\ cand[i].adm = "revoked" /\ receipt[i] = i
                            /\ intent[i] = "done" /\ cand[c].epoch = cand[i].epoch + 1
                            /\ \A d \in DOMAIN cand : cand[d].prior = i => d = c
        BY DEF RecoveryHasEvidence
      <3>2. PICK i : i = cand[c].prior OBVIOUS
      <3>3. i \in Cand
        <4>1. cand[c] \in CandRow BY <2>1, Domain
        <4>2. i \in 0 .. MaxCand /\ i # 0 BY <3>1, <3>2, <4>1 DEF CandRow
        <4> QED BY <4>2, Bounds DEF Cand
      <3>4. /\ intent[i] = "done" /\ cand[c].epoch = cand[i].epoch + 1
            /\ \A d \in DOMAIN cand : cand[d].prior = i => d = c
        BY <2>1, <3>1, <3>2 DEF RowInv, RecoveryRow
      <3>5. receipt[i] = i /\ cand[i].adm = "revoked"
        BY <2>2, <3>3, <3>4 DEF Over, Closed
      <3> QED BY <3>2, <3>4, <3>5
    <2> QED BY <2>1, <2>3, <2>4 DEF EvidenceIsSound
  <1> QED BY <1>1, Initially, Inductive, PTL DEF Spec

\* At most one launched process serves the role, it holds the runtime lock, and
\* every row that gives authority names it: company_role_runtime.main with
\* verify_local_process, although the fence kills no process.
THEOREM OneProcessServes == Spec => []OneServes
  <1>1. ASSUME Inv PROVE OneServes
    BY <1>1 DEF Inv, LockInv, LockPc, LiveInv, OneServes, Bindable, Live
  <1> QED BY <1>1, Initially, Inductive, PTL DEF Spec

\* rollback_live_company_role closes no row whose process holds the lock and whose
\* authority is fresh at that moment, whatever ACTIVE.json said when the tick
\* began and whatever happened between its two measurements.
THEOREM FencesLost == Spec => FencesOnlyLost
  <1>1. ASSUME Inv, [Next]_vars PROVE [RevokesLost]_vars
    <2>1. TypeOK /\ ActInv /\ LockInv /\ FenceInv BY <1>1 DEF Inv
    <2>2. SUFFICES ASSUME act["tick"].pc = "revoke", act'["tick"].pc = "archive"
                   PROVE  ~(HoldsLock(act["tick"].r) /\ AuthorityFresh(act["tick"].r))
      BY DEF RevokesLost, At
    <2>3. /\ act \in [Actor -> ActRow] /\ "tick" \in Actor /\ act["tick"] \in ActRow
          /\ "command" \in Actor
      BY <2>1 DEF TypeOK, ActRow, Actor
    <2>4. Idle.pc = "idle" BY DEF Idle
    <2>5. CASE RollbackRevoke
      <3>1. ~(act["tick"].holds /\ AuthorityFresh(act["tick"].r))
        BY <2>1, <2>2, <2>4, <2>5, TickAfter DEF RollbackRevoke
      <3>2. act["tick"].r \in DOMAIN cand BY <2>1, <2>2 DEF ActInv, RollbackPc
      <3> QED BY <2>1, <2>2, <3>1, <3>2, NotHeldIsDead DEF FenceInv, At
    <2>6. CASE \/ TickStart \/ TickJudge \/ TickRenew \/ TickRenewsTooLate
               \/ RollbackLoad \/ RollbackArchive \/ RollbackPointer
               \/ RollbackReceipt \/ TickIntent \/ TickRequest
      BY <2>2, <2>6
      DEF TickStart, TickJudge, TickRenew, TickRenewsTooLate, RollbackLoad,
          RollbackArchive, RollbackPointer, RollbackReceipt, TickIntent, TickRequest, At
    <2>7. CASE \E a \in Actor : Crash(a)
      BY <2>1, <2>2, <2>4, <2>7, TickAfter DEF Crash, Actor
    <2>8. CASE \/ UNCHANGED vars \/ LockReleased \/ MandateCompletes
               \/ \E c \in DOMAIN cand : LeaseLapses(c)
               \/ \E p \in Launch :
                    \/ LaunchRuntime(p) \/ CreateWorkspaceBinding(p)
                    \/ TakeRuntimeLock(p) \/ Bind(p) \/ Serve(p) \/ ProcessDies(p)
               \/ Started \/ PrepareInitial \/ AdmitInsert
               \/ \E i \in DOMAIN cand : PrepareRecoveryAgain(i) \/ PrepareRecovery(i)
      <3>1. act' = act \/ \E rec : act' = [act EXCEPT !["command"] = rec]
        BY <2>8
        DEF vars, LockReleased, MandateCompletes, LeaseLapses, LaunchRuntime,
            CreateWorkspaceBinding, TakeRuntimeLock, Bind, Serve, ProcessDies, Started,
            WriteCandidate, AdmitBinding, PrepareInitial, AdmitInsert,
            PrepareRecoveryAgain, PrepareRecovery, OpenSession, Raise
      <3> QED BY <2>2, <2>3, <3>1
    <2> QED BY <1>1, <2>5, <2>6, <2>7, <2>8 DEF Next, Tick
  <1> QED BY <1>1, Initially, Inductive, PTL DEF Spec, FencesOnlyLost
=============================================================================
