------------------------ MODULE ChannelEffectsProofs ------------------------
(***************************************************************************)
(* Proofs about ChannelEffects for every set of effects, clients, queues,  *)
(* events, texts, timestamps and requests and every fault budget.          *)
(***************************************************************************)
EXTENDS ChannelEffects, SequenceTheorems, FiniteSetTheorems, TLAPS

ThreadRecord == [pc: Pc, eff: Effect \union {None}, req: Request \union {None},
                 log: Log \union {None}]
Logs == [Log -> Seq(Row)]
QueueFile == Target \union {Audit}

\* Steps at which a call works on its prepared record, and those at which it
\* is about to append.
Working == {"recheck", "append", "linking", "linked", "opened", "checked",
            "finish"}
Appending == {"append", "linking", "linked", "opened", "checked"}

Has(rows, i) == \E n \in DOMAIN rows : rows[n].id = i
Acked(rows, x) == Len(rows) = 3 /\ rows[3].text = x

\* The rows that request r of effect e was to append are there.
Finished(e, r, lg) ==
    /\ r.tool = "channel_send" => Has(lg[r.to], e) /\ Has(lg[Audit], e)
    /\ r.tool = "channel_reply" => Acked(lg[r.to], r.text)

\* What a thread knows, at each step, of its record and of the files.
ThreadOK(th, rec, lg) ==
    /\ th.pc \in Working => rec.state = "prepared" /\ rec.req = th.req
    /\ th.pc = "recheck" => th.req.tool = "channel_reply"
    /\ th.pc \in Appending =>
          /\ th.req.tool = "channel_send" =>
                /\ th.log \in {th.req.to, Audit}
                /\ th.log = Audit => Has(lg[th.req.to], th.eff)
          /\ th.req.tool = "channel_reply" =>
                /\ th.log = th.req.to /\ Len(lg[th.log]) >= 2
                /\ th.pc # "linking"
    /\ th.pc = "linked" =>
          th.req.tool = "channel_send" /\ Has(lg[th.log], th.eff)
    /\ th.pc \in {"opened", "checked"} => lg[th.log] # <<>>
    /\ th.pc = "checked" => ~Has(lg[th.log], rec.row.id)
    /\ th.pc = "finish" => Finished(th.eff, th.req, lg)

\* What a record says: the row it will append, or that its rows are there.
RecordOK(e, rec, lg) ==
    /\ rec.state = "prepared" =>
          /\ rec.req.tool = "channel_send" => rec.row.id = e
          /\ rec.req.tool = "channel_reply" =>
                rec.row.id = "acknowledged" /\ rec.row.text = rec.req.text
    /\ rec.state = "completed" => Finished(e, rec.req, lg)

ThreadsOK == \A t \in Thread : ThreadOK(thread[t], RecOf(t), log)
RecordsOK == \A e \in Effect : RecordOK(e, journal[e], log)

\* The record's flock: busy threads work on different effects.
EffectsApart ==
    \A t, u \in Thread :
        ~At(t, "idle") /\ ~At(u, "idle") /\ EffOf(t) = EffOf(u) => t = u

\* The file's flock: one thread at a time is between scan and append.
FilesApart ==
    \A t, u \in Thread :
        /\ At(t, "checked") /\ At(u, "checked")
        /\ FileOf(thread[t].log) = FileOf(thread[u].log)
        => t = u

RowsOnce ==
    \A e \in Effect, l \in QueueFile :
        \A m, n \in DOMAIN log[l] : log[l][m].id = e /\ log[l][n].id = e => m = n

\* A late row uses up what the last check allowed: nobody stands between check
\* and append any more, and the file exists, so that nobody links it.
LateInv ==
    /\ auth => \A f \in File : late[f] = 0
    /\ \A f \in File :
          /\ late[f] <= 1
          /\ late[f] = 1 =>
                /\ \A t \in Thread : At(t, "checked") => FileOf(thread[t].log) # f
                /\ f # Delivery => log[f] # <<>>

Inv ==
    /\ TypeOK /\ ThreadsOK /\ RecordsOK /\ EffectsApart /\ FilesApart
    /\ RowsOnce /\ AuditMeansQueued /\ JournalLoads /\ LateInv

-----------------------------------------------------------------------------
(* Requests and rows.                                                      *)

\* A send names a queue and a reply an event, and each tool is one of the two.
LEMMA RequestFacts ==
    ASSUME NEW r \in Request
    PROVE  /\ r.tool \in {"channel_send", "channel_reply"}
           /\ r.tool = "channel_send" => r.to \in Target
           /\ r.tool = "channel_reply" => r.to \in Event
           /\ r.text \in Text
  BY RequestAssumption

\* One row was appended to one file.
Grows(lg, k, r, lg2) == lg2 = [lg EXCEPT ![k] = Append(@, r)]

\* What is known of a file after one row was appended to it.
LEMMA Grown ==
    ASSUME NEW lg \in Logs, NEW k \in Log, NEW r \in Row, NEW lg2,
           Grows(lg, k, r, lg2)
    PROVE  /\ lg2 \in Logs
           /\ \A l \in Log : l # k => lg2[l] = lg[l]
           /\ Len(lg2[k]) = Len(lg[k]) + 1
           /\ DOMAIN lg2[k] = DOMAIN lg[k] \union {Len(lg[k]) + 1}
           /\ DOMAIN lg[k] = 1 .. Len(lg[k]) /\ Len(lg[k]) \in Nat
           /\ \A n \in DOMAIN lg[k] : lg2[k][n] = lg[k][n]
           /\ lg2[k][Len(lg[k]) + 1] = r
           /\ lg2[k] # <<>>
  <1>1. lg[k] \in Seq(Row) BY DEF Logs
  <1>2. lg2[k] = Append(lg[k], r) BY DEF Logs, Grows
  <1>3. lg2[k] \in Seq(Row) BY <1>1, <1>2
  <1>4. lg2 \in Logs BY <1>3, <1>2 DEF Logs, Grows
  <1>5. Len(lg2[k]) = Len(lg[k]) + 1 BY <1>1, <1>2
  <1>6. DOMAIN lg[k] = 1 .. Len(lg[k]) /\ Len(lg[k]) \in Nat BY <1>1
  <1>7. DOMAIN lg2[k] = 1 .. Len(lg2[k]) BY <1>3
  <1>8. \A n \in DOMAIN lg[k] : lg2[k][n] = lg[k][n] BY <1>1, <1>2, <1>6
  <1>9. lg2[k][Len(lg[k]) + 1] = r BY <1>1, <1>2
  <1>10. DOMAIN lg2[k] = DOMAIN lg[k] \union {Len(lg[k]) + 1}
    BY <1>5, <1>6, <1>7
  <1>11. \A l \in Log : l # k => lg2[l] = lg[l] BY DEF Logs, Grows
  <1>12. lg2[k] # <<>> BY <1>3, <1>5, <1>6
  <1> QED BY <1>4, <1>5, <1>6, <1>8, <1>9, <1>10, <1>11, <1>12

\* Rows are never lost: a row that was found is found after an append.
LEMMA GrownHas ==
    ASSUME NEW lg \in Logs, NEW k \in Log, NEW r \in Row, NEW lg2,
           Grows(lg, k, r, lg2), NEW l \in Log, NEW i
    PROVE  Has(lg2[l], i) <=> Has(lg[l], i) \/ (l = k /\ r.id = i)
  <1>1. CASE l # k
    <2>1. lg2[l] = lg[l] BY <1>1, Grown
    <2> QED BY <1>1, <2>1
  <1>2. CASE l = k BY <1>2, Grown DEF Has
  <1> QED BY <1>1, <1>2

LEMMA GrownKept ==
    ASSUME NEW lg \in Logs, NEW k \in Log, NEW r \in Row, NEW lg2,
           Grows(lg, k, r, lg2), NEW l \in Log, NEW i, Has(lg[l], i)
    PROVE  Has(lg2[l], i)
  BY GrownHas

LEMMA GrownOnly ==
    ASSUME NEW lg \in Logs, NEW k \in Log, NEW r \in Row, NEW lg2,
           Grows(lg, k, r, lg2), NEW l \in Log, NEW i, Has(lg2[l], i),
           ~Has(lg[l], i)
    PROVE  l = k /\ r.id = i
  BY GrownHas

\* The new row is found.
LEMMA GrownNew ==
    ASSUME NEW lg \in Logs, NEW k \in Log, NEW r \in Row, NEW lg2,
           Grows(lg, k, r, lg2)
    PROVE  Has(lg2[k], r.id)
  BY Grown DEF Has

\* The verdict of an event outlives every append to a file other than a
\* complete event's.
LEMMA GrownFinished ==
    ASSUME NEW lg \in Logs, NEW k \in Log, NEW r \in Row, NEW lg2,
           Grows(lg, k, r, lg2),
           k \in Event => Len(lg[k]) < 3,
           NEW e, NEW q \in Request, Finished(e, q, lg)
    PROVE  Finished(e, q, lg2)
  <1>1. CASE q.tool = "channel_send"
    <2>1. q.to \in Log /\ Audit \in Log BY <1>1, RequestFacts DEF Log
    <2>2. Has(lg[q.to], e) /\ Has(lg[Audit], e) BY <1>1 DEF Finished
    <2>3. Has(lg2[q.to], e) BY <2>1, <2>2, GrownHas
    <2>4. Has(lg2[Audit], e) BY <2>1, <2>2, GrownHas
    <2> QED BY <1>1, <2>3, <2>4 DEF Finished
  <1>2. CASE q.tool = "channel_reply"
    <2>1. q.to \in Event BY <1>2, RequestFacts
    <2>2. Acked(lg[q.to], q.text) BY <1>2 DEF Finished
    <2>3. q.to # k BY <2>1, <2>2 DEF Acked
    <2>4. lg2[q.to] = lg[q.to] BY <2>1, <2>3, Grown DEF Log
    <2> QED BY <1>2, <2>2, <2>4 DEF Finished
  <1> QED BY <1>1, <1>2, RequestFacts

\* What a thread knows survives an append by somebody else, unless it has
\* scanned this very file for this very row.
LEMMA GrownThread ==
    ASSUME NEW lg \in Logs, NEW k \in Log, NEW r \in Row, NEW lg2,
           Grows(lg, k, r, lg2),
           k \in Event => Len(lg[k]) < 3,
           NEW th \in ThreadRecord, NEW rec,
           th.pc # "idle" => th.req \in Request,
           th.pc \in Appending => th.log \in Log,
           ThreadOK(th, rec, lg),
           th.pc = "checked" /\ th.log = k => r.id # rec.row.id
    PROVE  ThreadOK(th, rec, lg2)
  <1>0. Working \cap {"idle"} = {} /\ Appending \subseteq Working
    BY DEF Working, Appending
  <1>1. th.pc \in Working => rec.state = "prepared" /\ rec.req = th.req
    BY DEF ThreadOK
  <1>2. th.pc = "recheck" => th.req.tool = "channel_reply" BY DEF ThreadOK
  <1>3. ASSUME th.pc \in Appending, th.req.tool = "channel_send"
        PROVE  /\ th.log \in {th.req.to, Audit}
               /\ th.log = Audit => Has(lg2[th.req.to], th.eff)
    <2>1. th.req.to \in Log BY <1>0, <1>3, RequestFacts DEF Log
    <2> QED BY <1>3, <2>1, GrownHas DEF ThreadOK
  <1>4. ASSUME th.pc \in Appending, th.req.tool = "channel_reply"
        PROVE  /\ th.log = th.req.to /\ Len(lg2[th.log]) >= 2
               /\ th.pc # "linking"
    <2>1. th.log = th.req.to /\ Len(lg[th.log]) >= 2 /\ th.pc # "linking"
      BY <1>4 DEF ThreadOK
    <2>2. CASE th.log = k BY <2>1, <2>2, Grown
    <2>3. CASE th.log # k BY <1>4, <2>1, <2>3, Grown
    <2> QED BY <2>1, <2>2, <2>3
  <1>5. ASSUME th.pc \in {"opened", "checked"} PROVE lg2[th.log] # <<>>
    <2>1. th.log \in Log /\ lg[th.log] # <<>>
      BY <1>5 DEF ThreadOK, Appending
    <2>2. CASE th.log = k BY <2>2, Grown
    <2>3. CASE th.log # k BY <2>1, <2>3, Grown
    <2> QED BY <2>2, <2>3
  <1>6. ASSUME th.pc = "checked" PROVE ~Has(lg2[th.log], rec.row.id)
    <2>1. th.log \in Log /\ ~Has(lg[th.log], rec.row.id)
      BY <1>6 DEF ThreadOK, Appending
    <2> QED BY <1>6, <2>1, GrownHas
  <1>7. ASSUME th.pc = "finish" PROVE Finished(th.eff, th.req, lg2)
    <2>1. th.req \in Request /\ Finished(th.eff, th.req, lg)
      BY <1>7 DEF ThreadOK
    <2> QED BY <2>1, GrownFinished
  <1>8. ASSUME th.pc = "linked"
        PROVE  th.req.tool = "channel_send" /\ Has(lg2[th.log], th.eff)
    <2>1. th.log \in Log /\ th.req.tool = "channel_send"
          /\ Has(lg[th.log], th.eff)
      BY <1>8 DEF ThreadOK, Appending
    <2> QED BY <2>1, GrownKept
  <1> QED BY <1>1, <1>2, <1>3, <1>4, <1>5, <1>6, <1>7, <1>8 DEF ThreadOK

-----------------------------------------------------------------------------
(* The delivery journal and the threads.                                   *)

LEMMA ShortSeq ==
    ASSUME NEW S, NEW s \in Seq(S), Len(s) <= 3 PROVE Len(s) \in {0, 1, 2, 3}
  <1>1. PICK n \in Nat : n = Len(s) OBVIOUS
  <1>2. n <= 3 BY <1>1
  <1>3. n \in {0, 1, 2, 3} BY <1>2
  <1> QED BY <1>1, <1>3

\* With a loadable journal the state of an event is the number of its rows.
LEMMA StateFacts ==
    ASSUME TypeOK, JournalLoads, NEW v \in Event
    PROVE  /\ log[v] \in Seq(Row) /\ Len(log[v]) \in {0, 1, 2, 3}
           /\ DOMAIN log[v] = 1 .. Len(log[v])
           /\ StateOf(v) = "unknown" <=> Len(log[v]) = 0
           /\ StateOf(v) = "pending" <=> Len(log[v]) = 1
           /\ StateOf(v) = "delivered" <=> Len(log[v]) = 2
           /\ StateOf(v) = "acknowledged" <=> Len(log[v]) = 3
           /\ StateOf(v) = "acknowledged" => Snapshot(v) = log[v][3]
           /\ log[v] = <<>> <=> Len(log[v]) = 0
           /\ Len(log[v]) = 3 <=> Has(log[v], "acknowledged")
  <1>1. log[v] \in Seq(Row) BY DEF TypeOK, Log
  <1>2. Len(log[v]) \in {0, 1, 2, 3} /\ DOMAIN log[v] = 1 .. Len(log[v])
    <2>1. Len(log[v]) <= 3 BY DEF JournalLoads
    <2>2. Len(log[v]) \in {0, 1, 2, 3} BY <1>1, <2>1, ShortSeq
    <2>3. DOMAIN log[v] = 1 .. Len(log[v]) BY <1>1
    <2> QED BY <2>2, <2>3
  <1>3. log[v] = <<>> <=> Len(log[v]) = 0 BY <1>1
  <1>4. \A i \in DOMAIN log[v] :
           /\ i = 1 => log[v][i].id = "pending"
           /\ i = 2 => log[v][i].id = "delivered"
           /\ i = 3 => log[v][i].id = "acknowledged"
    <2> SUFFICES ASSUME NEW i \in DOMAIN log[v]
                 PROVE  /\ i = 1 => log[v][i].id = "pending"
                        /\ i = 2 => log[v][i].id = "delivered"
                        /\ i = 3 => log[v][i].id = "acknowledged"
      OBVIOUS
    <2>1. log[v][i].id = <<"pending", "delivered", "acknowledged">>[i]
      BY DEF JournalLoads
    <2> QED BY <2>1
  <1>5. Len(log[v]) = 3 <=> Has(log[v], "acknowledged")
    <2>1. ASSUME Len(log[v]) = 3 PROVE Has(log[v], "acknowledged")
      BY <1>2, <1>4, <2>1 DEF Has
    <2>2. ASSUME NEW n \in DOMAIN log[v], log[v][n].id = "acknowledged"
          PROVE  Len(log[v]) = 3
      <3>1. n \in 1 .. Len(log[v]) /\ Len(log[v]) \in {0, 1, 2, 3} BY <1>2
      <3>2. n # 1 /\ n # 2 BY <1>4, <2>2
      <3> QED BY <3>1, <3>2
    <2> QED BY <2>1, <2>2 DEF Has
  <1>6. CASE Len(log[v]) = 0
    BY <1>1, <1>2, <1>3, <1>5, <1>6 DEF StateOf, Snapshot
  <1>7. CASE Len(log[v]) = 1
    <2>1. 1 \in DOMAIN log[v] BY <1>2, <1>7
    <2>2. Snapshot(v).id = "pending" BY <1>4, <1>7, <2>1 DEF Snapshot
    <2> QED BY <1>1, <1>2, <1>3, <1>5, <1>7, <2>2 DEF StateOf
  <1>8. CASE Len(log[v]) = 2
    BY <1>1, <1>2, <1>3, <1>4, <1>5, <1>8 DEF StateOf, Snapshot
  <1>9. CASE Len(log[v]) = 3
    BY <1>1, <1>2, <1>3, <1>4, <1>5, <1>9 DEF StateOf, Snapshot
  <1> QED BY <1>2, <1>6, <1>7, <1>8, <1>9

\* The parts of a thread's type.
ThreadType(th) ==
    /\ th \in ThreadRecord
    /\ th.pc # "idle" => th.eff \in Effect /\ th.req \in Request
    /\ th.pc \in Appending => th.log \in Log

LEMMA ThreadTypes ==
    ASSUME TypeOK, NEW t \in Thread PROVE ThreadType(thread[t])
  BY DEF TypeOK, ThreadType, ThreadRecord, Appending

\* One thread moves on, enters a call or leaves one; files and records stay.
LEMMA SwapKeeps ==
    ASSUME Inv, NEW t \in Thread, NEW th, ThreadType(th),
           thread' = [thread EXCEPT ![t] = th],
           UNCHANGED <<journal, log, auth, late>>,
           daemon' \in {"down", "recovering", "ready"},
           faults' \in [crash: Nat, lapse: Nat, raise: Nat],
           twice' \subseteq File,
           ThreadOK(th, journal[th.eff], log),
           th.pc # "idle" => \A u \in Thread \ {t} :
               thread[u].pc # "idle" => thread[u].eff # th.eff,
           th.pc = "checked" => auth /\ \A u \in Thread \ {t} :
               thread[u].pc = "checked" => FileOf(thread[u].log) # FileOf(th.log)
    PROVE  Inv'
  <1>0. TypeOK BY DEF Inv
  <1>1. thread'[t] = th /\ \A u \in Thread \ {t} : thread'[u] = thread[u]
    BY <1>0 DEF TypeOK
  <1>2. \A u \in Thread : ThreadType(thread'[u])
    BY <1>0, <1>1, ThreadTypes
  <1>3. \A u \in Thread : ThreadOK(thread'[u], journal[thread'[u].eff], log)
    <2>1. \A u \in Thread : ThreadOK(thread[u], journal[thread[u].eff], log)
      BY DEF Inv, ThreadsOK, RecOf, EffOf
    <2> QED BY <1>1, <2>1
  <1>4. thread' \in [Thread -> ThreadRecord]
    BY <1>0 DEF TypeOK, ThreadType, ThreadRecord
  <1>5. TypeOK'
    <2>1. \A u \in Thread : thread'[u].pc \in Appending =>
              thread'[u].log \in Log /\ journal[thread'[u].eff].state = "prepared"
      BY <1>2, <1>3 DEF ThreadType, ThreadOK, Appending, Working
    <2> QED BY <1>0, <1>2, <1>4, <2>1
            DEF TypeOK, ThreadType, ThreadRecord, Appending
  <1>6. ThreadsOK' BY <1>3 DEF ThreadsOK, RecOf, EffOf
  <1>7. RecordsOK' BY DEF Inv, RecordsOK
  <1>8. EffectsApart' BY <1>1 DEF Inv, EffectsApart, At, EffOf
  <1>9. FilesApart' BY <1>1 DEF Inv, FilesApart, At, FileOf
  <1>10. RowsOnce' BY DEF Inv, RowsOnce
  <1>11. AuditMeansQueued' BY DEF Inv, AuditMeansQueued, RowsWith
  <1>12. JournalLoads' BY DEF Inv, JournalLoads
  <1>13. LateInv'
    <2>1. ASSUME NEW f \in File, late[f] = 1, NEW u \in Thread,
                 thread'[u].pc = "checked"
          PROVE  FileOf(thread'[u].log) # f
      BY <1>1, <2>1 DEF Inv, LateInv, At, FileOf
    <2> QED BY <2>1 DEF Inv, LateInv, At, FileOf
  <1> QED BY <1>5, <1>6, <1>7, <1>8, <1>9, <1>10, <1>11, <1>12, <1>13 DEF Inv

\* A busy thread goes to another step of its call.
LEMMA GotoKeeps ==
    ASSUME Inv, NEW t \in Thread, thread[t].pc # "idle",
           NEW p \in Pc \ {"idle"}, NEW l \in Log \union {None}, Goto(t, p, l),
           UNCHANGED <<journal, log, daemon, auth, late, faults>>,
           twice' \subseteq File,
           p \in Appending => l \in Log,
           ThreadOK([thread[t] EXCEPT !.pc = p, !.log = l], RecOf(t), log),
           p = "checked" => auth /\ ~FileLocked(FileOf(l))
    PROVE  Inv'
  <1> DEFINE th == [thread[t] EXCEPT !.pc = p, !.log = l]
  <1>0. TypeOK BY DEF Inv
  <1>1. ThreadType(thread[t]) BY <1>0, ThreadTypes
  <1>2. th.pc = p /\ th.log = l /\ th.eff = thread[t].eff /\ th.req = thread[t].req
    BY <1>1 DEF ThreadType, ThreadRecord
  <1>3. ThreadType(th) BY <1>1 DEF ThreadType, ThreadRecord
  <1>4. thread' = [thread EXCEPT ![t] = th] BY DEF Goto
  <1>5. ThreadOK(th, journal[th.eff], log) BY <1>2 DEF RecOf, EffOf
  <1>6. \A u \in Thread \ {t} : thread[u].pc # "idle" => thread[u].eff # th.eff
    BY <1>2 DEF Inv, EffectsApart, At, EffOf
  <1>7. th.pc = "checked" => auth /\ \A u \in Thread \ {t} :
            thread[u].pc = "checked" => FileOf(thread[u].log) # FileOf(th.log)
    BY <1>2 DEF FileLocked, At
  <1>8. daemon' \in {"down", "recovering", "ready"}
        /\ faults' \in [crash: Nat, lapse: Nat, raise: Nat]
    BY <1>0 DEF TypeOK
  <1> HIDE DEF th
  <1> QED BY <1>3, <1>4, <1>5, <1>6, <1>7, <1>8, SwapKeeps

\* A call returns or raises.
LEMMA GiveUpKeeps ==
    ASSUME Inv, NEW t \in Thread, GiveUp(t),
           UNCHANGED <<journal, log, auth, late>>,
           faults' \in [crash: Nat, lapse: Nat, raise: Nat],
           twice' \subseteq File
    PROVE  Inv'
  <1>1. thread' = [thread EXCEPT ![t] = Idle] BY DEF GiveUp, Leave
  <1>2. ThreadType(Idle)
    BY DEF ThreadType, ThreadRecord, Idle, Pc, Appending
  <1>3. ThreadOK(Idle, journal[Idle.eff], log)
    BY DEF ThreadOK, Idle, Working, Appending
  <1>4. Idle.pc = "idle" BY DEF Idle
  <1>5. daemon' \in {"down", "recovering", "ready"} BY DEF Inv, TypeOK, GiveUp
  <1> QED BY <1>1, <1>2, <1>3, <1>4, <1>5, SwapKeeps

\* A thread that is not in a call enters one.
LEMMA EnterKeeps ==
    ASSUME Inv, NEW t \in Thread, NEW e \in Effect, NEW r \in Request,
           Enter(t, e, r)
    PROVE  Inv'
  <1> DEFINE th == [pc |-> "entered", eff |-> e, req |-> r, log |-> None]
  <1>1. thread' = [thread EXCEPT ![t] = th] BY DEF Enter
  <1>2. ThreadType(th) BY DEF ThreadType, ThreadRecord, Pc, Appending
  <1>3. ThreadOK(th, journal[th.eff], log)
    BY DEF ThreadOK, Working, Appending
  <1>4. \A u \in Thread \ {t} : thread[u].pc # "idle" => thread[u].eff # th.eff
    BY DEF Enter, EffectLocked, At, EffOf
  <1>5. daemon' \in {"down", "recovering", "ready"}
        /\ faults' \in [crash: Nat, lapse: Nat, raise: Nat]
        /\ twice' \subseteq File
    BY DEF Inv, TypeOK, Enter
  <1>6. UNCHANGED <<journal, log, auth, late>> BY DEF Enter
  <1>7. th.pc # "checked" OBVIOUS
  <1> HIDE DEF th
  <1> QED BY <1>1, <1>2, <1>3, <1>4, <1>5, <1>6, <1>7, SwapKeeps

\* The thread that holds a record's flock writes it, and then goes on or
\* leaves; the files stay.
LEMMA WriteKeeps ==
    ASSUME Inv, NEW t \in Thread, thread[t].pc # "idle",
           NEW rec \in Record, Write(t, rec),
           rec.state # "none" => rec.req \in Request,
           rec.state = "prepared" => rec.row \in Row,
           NEW th, ThreadType(th), thread' = [thread EXCEPT ![t] = th],
           UNCHANGED <<log, daemon, auth, late, faults>>, twice' \subseteq File,
           RecordOK(EffOf(t), rec, log), ThreadOK(th, rec, log),
           th.pc # "idle" => th.eff = EffOf(t), th.pc # "checked"
    PROVE  Inv'
  <1>0. TypeOK BY DEF Inv
  <1>1. thread'[t] = th /\ \A u \in Thread \ {t} : thread'[u] = thread[u]
    BY <1>0 DEF TypeOK
  <1>2. \A u \in Thread : ThreadType(thread'[u])
    BY <1>0, <1>1, ThreadTypes
  <1>3. EffOf(t) \in Effect BY <1>0 DEF TypeOK, EffOf
  <1>4. journal'[EffOf(t)] = rec
        /\ \A e \in Effect \ {EffOf(t)} : journal'[e] = journal[e]
    BY <1>0, <1>3 DEF Write, TypeOK
  <1>5. ASSUME NEW u \in Thread
        PROVE  ThreadOK(thread'[u], journal'[thread'[u].eff], log)
    <2>1. CASE u = t /\ th.pc # "idle" BY <1>1, <1>4, <2>1
    <2>2. CASE thread'[u].pc = "idle"
      BY <2>2 DEF ThreadOK, Working, Appending
    <2>3. CASE u # t /\ thread[u].pc # "idle"
      <3>1. thread[u].eff \in Effect \ {EffOf(t)}
        BY <1>0, <2>3 DEF Inv, EffectsApart, At, EffOf, TypeOK
      <3>2. ThreadOK(thread[u], journal[thread[u].eff], log)
        BY DEF Inv, ThreadsOK, RecOf, EffOf
      <3> QED BY <1>1, <1>4, <2>3, <3>1, <3>2
    <2> QED BY <1>1, <2>1, <2>2, <2>3
  <1>6. TypeOK'
    <2>1. thread' \in [Thread -> ThreadRecord]
      BY <1>0 DEF TypeOK, ThreadType, ThreadRecord
    <2>2. journal' \in [Effect -> Record] BY <1>0, <1>3 DEF Write, TypeOK
    <2>3. \A e \in Effect :
             /\ journal'[e].state # "none" => journal'[e].req \in Request
             /\ journal'[e].state = "prepared" => journal'[e].row \in Row
      BY <1>0, <1>4 DEF TypeOK
    <2>4. \A u \in Thread : thread'[u].pc \in Appending =>
             thread'[u].log \in Log /\ journal'[thread'[u].eff].state = "prepared"
      BY <1>2, <1>5 DEF ThreadType, ThreadOK, Appending, Working
    <2> QED BY <1>0, <1>2, <2>1, <2>2, <2>3, <2>4
            DEF TypeOK, ThreadType, ThreadRecord, Appending
  <1>7. ThreadsOK' BY <1>5 DEF ThreadsOK, RecOf, EffOf
  <1>8. RecordsOK' BY <1>4 DEF Inv, RecordsOK
  <1>9. EffectsApart' BY <1>1 DEF Inv, EffectsApart, At, EffOf
  <1>10. FilesApart' BY <1>1 DEF Inv, FilesApart, At, FileOf
  <1>11. RowsOnce' BY DEF Inv, RowsOnce
  <1>12. AuditMeansQueued' BY DEF Inv, AuditMeansQueued, RowsWith
  <1>13. JournalLoads' BY DEF Inv, JournalLoads
  <1>14. LateInv' BY <1>1 DEF Inv, LateInv, At, FileOf
  <1> QED BY <1>6, <1>7, <1>8, <1>9, <1>10, <1>11, <1>12, <1>13, <1>14 DEF Inv

-----------------------------------------------------------------------------
(* Appends.                                                                *)

\* What an append relies on: the file is the thread's own, has no row of this
\* identity, and an event has just been delivered.
LEMMA LandFacts ==
    ASSUME Inv, NEW t \in Thread,
           At(t, "checked") \/ (At(t, "linking") /\ LogOf(t) = <<>>)
    PROVE  /\ thread[t].log \in Log /\ EffOf(t) \in Effect
           /\ ReqOf(t) \in Request /\ RecOf(t).req = ReqOf(t)
           /\ RecOf(t).state = "prepared" /\ RecOf(t).row \in Row
           /\ ~Has(LogOf(t), RecOf(t).row.id)
           /\ \A u \in Thread \ {t} : At(u, "checked") =>
                  FileOf(thread[u].log) # FileOf(thread[t].log)
           /\ ReqOf(t).tool = "channel_send" =>
                  /\ RecOf(t).row.id = EffOf(t)
                  /\ ReqOf(t).to \in Target
                  /\ thread[t].log \in {ReqOf(t).to, Audit}
                  /\ thread[t].log \notin Event
                  /\ thread[t].log = Audit => Has(log[ReqOf(t).to], EffOf(t))
           /\ ReqOf(t).tool = "channel_reply" =>
                  /\ RecOf(t).row.id = "acknowledged"
                  /\ RecOf(t).row.text = ReqOf(t).text
                  /\ thread[t].log = ReqOf(t).to /\ thread[t].log \in Event
                  /\ Len(LogOf(t)) = 2 /\ At(t, "checked")
  <1> DEFINE k == thread[t].log
             rec == RecOf(t)
  <1>0. TypeOK BY DEF Inv
  <1>1. thread[t].pc \in Appending /\ thread[t].pc \in Working
        /\ thread[t].pc # "idle"
    BY DEF At, Appending, Working
  <1>2. k \in Log /\ EffOf(t) \in Effect /\ ReqOf(t) \in Request
    BY <1>0, <1>1, ThreadTypes DEF ThreadType, EffOf, ReqOf
  <1>3. ThreadOK(thread[t], rec, log) BY DEF Inv, ThreadsOK
  <1>4. rec.state = "prepared" /\ rec.req = ReqOf(t)
    BY <1>1, <1>3 DEF ThreadOK, ReqOf
  <1>5. rec.row \in Row BY <1>0, <1>2, <1>4 DEF TypeOK, RecOf
  <1>6. RecordOK(EffOf(t), rec, log) BY <1>2 DEF Inv, RecordsOK, RecOf
  <1>7. ~Has(LogOf(t), rec.row.id)
    <2>1. CASE At(t, "checked") BY <1>3, <2>1 DEF ThreadOK, At, LogOf
    <2>2. CASE LogOf(t) = <<>> BY <2>2 DEF Has
    <2> QED BY <2>1, <2>2
  <1>8. ASSUME ReqOf(t).tool = "channel_send"
        PROVE  /\ rec.row.id = EffOf(t) /\ ReqOf(t).to \in Target
               /\ k \in {ReqOf(t).to, Audit} /\ k \notin Event
               /\ k = Audit => Has(log[ReqOf(t).to], EffOf(t))
    <2>1. ReqOf(t).to \in Target BY <1>2, <1>8, RequestFacts
    <2>2. k \in {ReqOf(t).to, Audit}
          /\ (k = Audit => Has(log[ReqOf(t).to], EffOf(t)))
      BY <1>1, <1>3, <1>8 DEF ThreadOK, ReqOf, EffOf
    <2>3. k \notin Event BY <2>1, <2>2, SentinelAssumption
    <2> QED BY <1>4, <1>6, <1>8, <2>1, <2>2, <2>3 DEF RecordOK
  <1>9. ASSUME ReqOf(t).tool = "channel_reply"
        PROVE  /\ rec.row.id = "acknowledged" /\ rec.row.text = ReqOf(t).text
               /\ k = ReqOf(t).to /\ k \in Event
               /\ Len(LogOf(t)) = 2 /\ At(t, "checked")
    <2>1. k = ReqOf(t).to /\ Len(log[k]) >= 2 /\ thread[t].pc # "linking"
      BY <1>1, <1>3, <1>9 DEF ThreadOK, ReqOf
    <2>2. k \in Event BY <1>2, <1>9, <2>1, RequestFacts
    <2>3. rec.row.id = "acknowledged" /\ rec.row.text = ReqOf(t).text
      BY <1>4, <1>6, <1>9 DEF RecordOK
    <2>4. Len(log[k]) \in {0, 1, 2, 3}
          /\ (Len(log[k]) = 3 <=> Has(log[k], "acknowledged"))
      BY <1>0, <2>2, StateFacts DEF Inv
    <2>5. ~Has(log[k], "acknowledged") BY <1>7, <2>3 DEF LogOf
    <2>6. Len(log[k]) \in {0, 1, 2} BY <2>4, <2>5
    <2>7. Len(log[k]) = 2 BY <2>1, <2>6
    <2> QED BY <1>9, <2>1, <2>2, <2>3, <2>7 DEF At, LogOf
  <1>10. ASSUME NEW u \in Thread \ {t}, At(u, "checked")
         PROVE  FileOf(thread[u].log) # FileOf(k)
    <2>1. CASE At(t, "checked") BY <1>10, <2>1 DEF Inv, FilesApart
    <2>2. CASE At(t, "linking") /\ LogOf(t) = <<>>
      <3>1. k \notin Event /\ FileOf(k) = k
        BY <1>2, <1>8, <1>9, <2>2, RequestFacts DEF At, FileOf
      <3>2. thread[u].log \in Log
        BY <1>0, <1>10, ThreadTypes DEF ThreadType, At, Appending
      <3>3. log[thread[u].log] # <<>>
        BY <1>10 DEF Inv, ThreadsOK, ThreadOK, At
      <3>4. thread[u].log # k BY <2>2, <3>3 DEF LogOf
      <3>5. Delivery # k BY <1>2, SentinelAssumption
      <3> QED BY <3>1, <3>4, <3>5 DEF FileOf
    <2> QED BY <2>1, <2>2
  <1> QED BY <1>2, <1>4, <1>5, <1>7, <1>8, <1>9, <1>10

\* Where a thread goes with its append: a creator has its second name to
\* remove.
GoesOn(t) ==
    IF At(t, "checked") THEN Advance(t) ELSE Goto(t, "linked", thread[t].log)

\* The thread's own view after its append: on to the audit log, or finished, or
\* the row is the first of a file with two names.
LEMMA LandThread ==
    ASSUME Inv, NEW t \in Thread,
           At(t, "checked") \/ (At(t, "linking") /\ LogOf(t) = <<>>),
           Grows(log, thread[t].log, RecOf(t).row, log'), GoesOn(t)
    PROVE  /\ ThreadType(thread'[t]) /\ thread'[t].eff = EffOf(t)
           /\ thread'[t].pc \in {"linked", "append", "finish"}
           /\ ThreadOK(thread'[t], RecOf(t), log')
           /\ \A u \in Thread \ {t} : thread'[u] = thread[u]
           /\ thread' \in [Thread -> ThreadRecord]
  <1> DEFINE k == thread[t].log
  <1>0. TypeOK /\ ThreadType(thread[t]) BY ThreadTypes DEF Inv
  <1>1. log \in Logs /\ k \in Log /\ RecOf(t).row \in Row /\ Audit \in Log
        /\ Audit \notin Target
    BY <1>0, LandFacts, SentinelAssumption DEF TypeOK, Logs, Log
  <1>2. k \in Event => Len(log[k]) < 3
    <2>1. k \in Event => ReqOf(t).tool = "channel_reply"
      BY LandFacts, RequestFacts
    <2>2. ReqOf(t).tool = "channel_reply" => Len(log[k]) = 2
      BY LandFacts DEF LogOf
    <2>3. Len(log[k]) = 2 => Len(log[k]) < 3 OBVIOUS
    <2> QED BY <2>1, <2>2, <2>3
  <1>3. thread \in [Thread -> ThreadRecord] BY <1>0 DEF TypeOK, ThreadRecord
  <1>4. CASE At(t, "checked") /\ k \in Target
    <2>1. thread' = [thread EXCEPT ![t].pc = "append", ![t].log = Audit]
      BY <1>4 DEF GoesOn, Advance, Goto
    <2>2. thread'[t].pc = "append" /\ thread'[t].log = Audit
          /\ thread'[t].eff = EffOf(t) /\ thread'[t].req = ReqOf(t)
          /\ thread'[t] \in ThreadRecord
      BY <1>0, <1>1, <1>3, <2>1 DEF ThreadRecord, EffOf, ReqOf, Pc
    <2> ThreadType(thread'[t])
      BY <1>1, <2>2, LandFacts DEF ThreadType, Appending
    <2>3. ReqOf(t).tool = "channel_send" /\ k = ReqOf(t).to
      BY <1>1, <1>4, LandFacts, RequestFacts, SentinelAssumption
    <2>4. Has(log'[k], EffOf(t))
      <3>1. RecOf(t).row.id = EffOf(t) BY <2>3, LandFacts
      <3>2. Has(log'[k], RecOf(t).row.id) BY <1>1, GrownNew
      <3> QED BY <3>1, <3>2
    <2>5. ThreadOK(thread'[t], RecOf(t), log')
      BY <2>2, <2>3, <2>4, LandFacts DEF ThreadOK, Working, Appending
    <2>6. thread' \in [Thread -> ThreadRecord]
          /\ \A u \in Thread \ {t} : thread'[u] = thread[u]
      BY <1>1, <1>3, <2>1 DEF ThreadRecord, Pc
    <2> QED BY <2>2, <2>5, <2>6
  <1>5. CASE At(t, "checked") /\ k \notin Target
    <2>1. thread' = [thread EXCEPT ![t].pc = "finish", ![t].log = None]
      BY <1>5 DEF GoesOn, Advance, Goto
    <2>2. thread'[t].pc = "finish"
          /\ thread'[t].eff = EffOf(t) /\ thread'[t].req = ReqOf(t)
          /\ ThreadType(thread'[t])
      BY <1>0, <1>3, <2>1
         DEF ThreadType, ThreadRecord, EffOf, ReqOf, Pc, Appending, At
    <2>3. Finished(EffOf(t), ReqOf(t), log')
      <3>1. CASE ReqOf(t).tool = "channel_send"
        <4>1. k = Audit /\ Has(log[ReqOf(t).to], EffOf(t))
              /\ RecOf(t).row.id = EffOf(t) /\ ReqOf(t).to \in Log
          BY <1>5, <3>1, LandFacts DEF Log
        <4>2. Has(log'[Audit], EffOf(t))
          <5>1. Has(log'[k], RecOf(t).row.id) BY <1>1, GrownNew
          <5> QED BY <4>1, <5>1
        <4>3. Has(log'[ReqOf(t).to], EffOf(t)) BY <1>1, <4>1, GrownHas
        <4> QED BY <3>1, <4>2, <4>3 DEF Finished
      <3>2. CASE ReqOf(t).tool = "channel_reply"
        <4>1. k = ReqOf(t).to /\ Len(log[k]) = 2
              /\ RecOf(t).row.text = ReqOf(t).text
          BY <3>2, LandFacts DEF LogOf
        <4>2. Len(log'[k]) = Len(log[k]) + 1
              /\ log'[k][Len(log[k]) + 1] = RecOf(t).row
          BY <1>1, Grown
        <4>3. Acked(log'[k], ReqOf(t).text) BY <4>1, <4>2 DEF Acked
        <4> QED BY <3>2, <4>1, <4>3 DEF Finished
      <3> QED BY <3>1, <3>2, LandFacts, RequestFacts
    <2>4. ThreadOK(thread'[t], RecOf(t), log')
      BY <2>2, <2>3, LandFacts DEF ThreadOK, Working, Appending
    <2>5. thread' \in [Thread -> ThreadRecord]
          /\ \A u \in Thread \ {t} : thread'[u] = thread[u]
      BY <1>3, <2>1 DEF ThreadRecord, Pc
    <2> QED BY <2>2, <2>4, <2>5
  <1>6. CASE ~At(t, "checked")
    <2>1. thread' = [thread EXCEPT ![t].pc = "linked", ![t].log = k]
      BY <1>6 DEF GoesOn, Goto
    <2>2. thread'[t].pc = "linked" /\ thread'[t].log = k
          /\ thread'[t].eff = EffOf(t) /\ thread'[t].req = ReqOf(t)
          /\ thread'[t] \in ThreadRecord
      BY <1>0, <1>1, <1>3, <2>1 DEF ThreadRecord, EffOf, ReqOf, Pc
    <2> ThreadType(thread'[t])
      BY <1>1, <2>2, LandFacts DEF ThreadType, Appending
    <2>3. ReqOf(t).tool = "channel_send" /\ RecOf(t).row.id = EffOf(t)
          /\ k \in {ReqOf(t).to, Audit} /\ ReqOf(t).to \in Log
          /\ (k = Audit => Has(log[ReqOf(t).to], EffOf(t)))
      BY <1>6, LandFacts, RequestFacts DEF Log
    <2>4. Has(log'[k], EffOf(t))
      <3>1. Has(log'[k], RecOf(t).row.id) BY <1>1, GrownNew
      <3> QED BY <2>3, <3>1
    <2>5. ASSUME k = Audit PROVE Has(log'[ReqOf(t).to], EffOf(t))
      <3>1. Has(log[ReqOf(t).to], EffOf(t)) BY <2>3, <2>5
      <3> QED BY <1>1, <2>3, <3>1, GrownKept
    <2>6. ThreadOK(thread'[t], RecOf(t), log')
      BY <2>2, <2>3, <2>4, <2>5, LandFacts DEF ThreadOK, Working, Appending
    <2>7. thread' \in [Thread -> ThreadRecord]
          /\ \A u \in Thread \ {t} : thread'[u] = thread[u]
      BY <1>1, <1>3, <2>1 DEF ThreadRecord, Pc
    <2> QED BY <2>2, <2>6, <2>7
  <1> QED BY <1>4, <1>5, <1>6

\* RowsWith, as the proofs use it.
LEMMA RowsHas ==
    ASSUME NEW l, NEW i PROVE RowsWith(l, i) # {} <=> Has(log[l], i)
  BY DEF RowsWith, Has

\* An append of the broker keeps the queues, the audit log and the delivery
\* journal sound.
LEMMA LandLogs ==
    ASSUME Inv, NEW t \in Thread,
           At(t, "checked") \/ (At(t, "linking") /\ LogOf(t) = <<>>),
           Grows(log, thread[t].log, RecOf(t).row, log')
    PROVE  RowsOnce' /\ AuditMeansQueued' /\ JournalLoads'
  <1> DEFINE k == thread[t].log
             r == RecOf(t).row
  <1>0. TypeOK BY DEF Inv
  <1>1. log \in Logs /\ k \in Log /\ r \in Row /\ ~Has(log[k], r.id)
    BY <1>0, LandFacts DEF TypeOK, Logs, LogOf
  <1>2. RowsOnce'
    <2> SUFFICES ASSUME NEW e \in Effect, NEW l \in QueueFile,
                        NEW m \in DOMAIN log'[l], NEW n \in DOMAIN log'[l],
                        log'[l][m].id = e, log'[l][n].id = e
                 PROVE  m = n
      BY DEF RowsOnce
    <2>1. \A i, j \in DOMAIN log[l] :
              log[l][i].id = e /\ log[l][j].id = e => i = j
      BY DEF Inv, RowsOnce
    <2>2. l \in Log BY DEF QueueFile, Log
    <2>3. CASE l # k
      <3>1. log'[l] = log[l] BY <1>1, <2>2, <2>3, Grown
      <3> QED BY <2>1, <3>1
    <2>4. CASE l = k
      <3>1. DOMAIN log'[k] = DOMAIN log[k] \union {Len(log[k]) + 1}
            /\ log'[k][Len(log[k]) + 1] = r
            /\ \A i \in DOMAIN log[k] : log'[k][i] = log[k][i]
        BY <1>1, Grown
      <3>2. CASE r.id = e
        <4>1. \A i \in DOMAIN log[k] : log[k][i].id # e
          BY <1>1, <3>2 DEF Has
        <4> QED BY <2>4, <3>1, <4>1
      <3>3. CASE r.id # e BY <2>1, <2>4, <3>1, <3>3
      <3> QED BY <3>2, <3>3
    <2> QED BY <2>3, <2>4
  <1>3. AuditMeansQueued'
    <2> SUFFICES ASSUME NEW e \in Effect, RowsWith(Audit, e)' # {}
                 PROVE  \E l \in Target : RowsWith(l, e)' # {}
      BY DEF AuditMeansQueued
    <2>1. Has(log'[Audit], e) BY DEF RowsWith, Has
    <2>2. Audit \in Log BY DEF Log
    <2>3. ASSUME NEW l \in Target, Has(log'[l], e)
          PROVE  \E q \in Target : RowsWith(q, e)' # {}
      <3>1. RowsWith(l, e)' # {} BY <2>3 DEF RowsWith, Has
      <3> QED BY <3>1
    <2>4. CASE Has(log[Audit], e)
      <3>1. RowsWith(Audit, e) # {} BY <2>4, RowsHas
      <3>2. PICK l \in Target : RowsWith(l, e) # {}
        BY <3>1 DEF Inv, AuditMeansQueued
      <3>3. Has(log[l], e) /\ l \in Log BY <3>2, RowsHas DEF Log
      <3>4. Has(log'[l], e) BY <1>1, <3>3, GrownKept
      <3> QED BY <2>3, <3>4
    <2>5. CASE Audit = k /\ r.id = e
      <3>1. ReqOf(t).tool = "channel_send"
        BY <2>5, LandFacts, RequestFacts, SentinelAssumption
      <3>2. ReqOf(t).to \in Target /\ Has(log[ReqOf(t).to], e)
        BY <2>5, <3>1, LandFacts
      <3>3. Has(log'[ReqOf(t).to], e) BY <1>1, <3>2, GrownKept DEF Log
      <3> QED BY <2>3, <3>2, <3>3
    <2>6. CASE ~Has(log[Audit], e)
      <3>1. log \in Logs /\ k \in Log /\ r \in Row BY <1>1
      <3>2. Grows(log, k, r, log') OBVIOUS
      <3> HIDE DEF k, r
      <3>3. Audit = k /\ r.id = e BY <2>1, <2>2, <2>6, <3>1, <3>2, GrownOnly
      <3> QED BY <2>5, <3>3
    <2> QED BY <2>4, <2>6
  <1>4. JournalLoads'
    <2> SUFFICES ASSUME NEW v \in Event
                 PROVE  /\ Len(log'[v]) <= 3
                        /\ \A i \in DOMAIN log'[v] : log'[v][i].id =
                             <<"pending", "delivered", "acknowledged">>[i]
      BY DEF JournalLoads
    <2>1. Len(log[v]) <= 3
          /\ \A i \in DOMAIN log[v] : log[v][i].id =
               <<"pending", "delivered", "acknowledged">>[i]
      BY DEF Inv, JournalLoads
    <2>2. CASE v # k
      <3>1. log'[v] = log[v] BY <1>1, <2>2, Grown DEF Log
      <3> QED BY <2>1, <3>1
    <2>3. CASE v = k
      <3>1. Len(log[k]) = 2 /\ r.id = "acknowledged"
        BY <2>3, LandFacts, RequestFacts DEF LogOf
      <3>2. DOMAIN log'[k] = DOMAIN log[k] \union {Len(log[k]) + 1}
            /\ log'[k][Len(log[k]) + 1] = r
            /\ Len(log'[k]) = Len(log[k]) + 1
            /\ \A i \in DOMAIN log[k] : log'[k][i] = log[k][i]
        BY <1>1, Grown
      <3>3. DOMAIN log'[k] = DOMAIN log[k] \union {3} /\ log'[k][3] = r
            /\ Len(log'[k]) = 3
        BY <3>1, <3>2
      <3>4. r.id = <<"pending", "delivered", "acknowledged">>[3] BY <3>1
      <3>5. ASSUME NEW i \in DOMAIN log'[k]
            PROVE  log'[k][i].id = <<"pending", "delivered", "acknowledged">>[i]
        <4>1. CASE i = 3 BY <3>3, <3>4, <4>1
        <4>2. CASE i \in DOMAIN log[k]
          <5>1. log'[k][i] = log[k][i] BY <3>2, <4>2
          <5> QED BY <2>1, <2>3, <4>2, <5>1
        <4> QED BY <3>3, <4>1, <4>2
      <3>6. Len(log'[v]) <= 3 BY <2>3, <3>3
      <3> QED BY <2>3, <3>5, <3>6
    <2> QED BY <2>2, <2>3
  <1> QED BY <1>2, <1>3, <1>4

\* After the check has begun to fail, an append uses up the one late row that
\* its file may still get.
LEMMA LandLate ==
    ASSUME Inv, NEW t \in Thread,
           At(t, "checked") \/ (At(t, "linking") /\ LogOf(t) = <<>>),
           Landed(t), GoesOn(t), UNCHANGED auth
    PROVE  LateInv' /\ late' \in [File -> Nat]
  <1> DEFINE k == thread[t].log
             g == FileOf(k)
  <1>0. TypeOK /\ LateInv BY DEF Inv
  <1>1. Grows(log, k, RecOf(t).row, log') BY DEF Landed, Grows
  <1>2. log \in Logs /\ k \in Log /\ RecOf(t).row \in Row
    BY <1>0, LandFacts DEF TypeOK, Logs
  <1>3. g \in File BY <1>2 DEF FileOf, File, Log
  <1>4. late' = [late EXCEPT ![g] = IF auth THEN 0 ELSE @ + 1] BY DEF Landed
  <1>5. late[g] \in Nat /\ late \in [File -> Nat] BY <1>0, <1>3 DEF TypeOK
  <1>6. late' \in [File -> Nat] BY <1>3, <1>4, <1>5
  <1>7. late[g] = 0
    <2>1. ASSUME late[g] = 1 PROVE FALSE
      <3>1. ~At(t, "checked") BY <1>0, <1>3, <2>1 DEF LateInv
      <3>2. k \notin Event BY <3>1, LandFacts, RequestFacts
      <3>3. g = k /\ g # Delivery
        BY <1>2, <3>2, SentinelAssumption DEF FileOf
      <3>4. log[k] # <<>> BY <1>0, <1>3, <2>1, <3>3 DEF LateInv
      <3> QED BY <3>1, <3>4 DEF LogOf
    <2>2. late[g] <= 1 BY <1>0, <1>3 DEF LateInv
    <2> QED BY <1>5, <2>1, <2>2
  <1>8. ASSUME NEW f \in File
        PROVE  /\ auth => late'[f] = 0
               /\ late'[f] <= 1
               /\ late'[f] = 1 => late[f] = 1 \/ f = g
    <2>1. late[f] <= 1 /\ (auth => late[f] = 0) BY <1>0 DEF LateInv
    <2>2. CASE f = g BY <1>3, <1>4, <1>5, <1>7, <2>2
    <2>3. CASE f # g BY <1>4, <1>5, <2>1, <2>3
    <2> QED BY <2>2, <2>3
  <1>9. ASSUME NEW f \in File, late'[f] = 1, NEW u \in Thread,
               thread'[u].pc = "checked"
        PROVE  FileOf(thread'[u].log) # f
    <2>1. u # t /\ thread'[u] = thread[u]
      BY <1>1, <1>9, LandThread
    <2>2. CASE f = g BY <1>9, <2>1, <2>2, LandFacts DEF At
    <2>3. CASE late[f] = 1 BY <1>0, <1>9, <2>1, <2>3 DEF LateInv, At
    <2> QED BY <1>8, <1>9, <2>2, <2>3
  <1>10. ASSUME NEW f \in File, late'[f] = 1, f # Delivery
         PROVE  log'[f] # <<>>
    <2>1. f \in Log BY <1>10 DEF File, Log
    <2>2. CASE f = k BY <1>1, <1>2, <2>2, Grown
    <2>3. CASE f # k
      <3>1. late[f] = 1
        <4>1. CASE k \in Event BY <1>8, <1>10, <4>1 DEF FileOf
        <4>2. CASE k \notin Event BY <1>8, <1>10, <2>3, <4>2 DEF FileOf
        <4> QED BY <4>1, <4>2
      <3>2. log[f] # <<>> BY <1>0, <1>10, <3>1 DEF LateInv
      <3>3. log'[f] = log[f] BY <1>1, <1>2, <2>1, <2>3, Grown
      <3> QED BY <3>2, <3>3
    <2> QED BY <2>2, <2>3
  <1>11. LateInv' BY <1>8, <1>9, <1>10 DEF LateInv, At, FileOf
  <1> QED BY <1>6, <1>11

\* Records, and the threads other than the one that appends, are as right
\* after an append as before.
LEMMA GrownRest ==
    ASSUME Inv, NEW k \in Log, NEW r \in Row, Grows(log, k, r, log'),
           k \in Event => Len(log[k]) < 3, UNCHANGED journal
    PROVE  /\ log' \in [Log -> Seq(Row)]
           /\ RecordsOK'
           /\ \A u \in Thread :
                 (At(u, "checked") /\ thread[u].log = k => r.id # RecOf(u).row.id)
                 => ThreadOK(thread[u], RecOf(u), log')
  <1>0. TypeOK BY DEF Inv
  <1>1. log \in Logs BY <1>0 DEF TypeOK, Logs
  <1>2. log' \in [Log -> Seq(Row)] BY <1>1, Grown DEF Logs
  <1>3. ASSUME NEW e \in Effect PROVE RecordOK(e, journal[e], log')
    <2>1. RecordOK(e, journal[e], log) BY DEF Inv, RecordsOK
    <2>2. CASE journal[e].state # "completed" BY <2>1, <2>2 DEF RecordOK
    <2>3. CASE journal[e].state = "completed"
      <3>1. journal[e].req \in Request BY <1>0, <2>3 DEF TypeOK
      <3>2. Finished(e, journal[e].req, log) BY <2>1, <2>3 DEF RecordOK
      <3>3. Finished(e, journal[e].req, log') BY <1>1, <3>1, <3>2, GrownFinished
      <3> QED BY <2>3, <3>3 DEF RecordOK
    <2> QED BY <2>2, <2>3
  <1>4. ASSUME NEW u \in Thread,
               At(u, "checked") /\ thread[u].log = k => r.id # RecOf(u).row.id
        PROVE  ThreadOK(thread[u], RecOf(u), log')
    <2>1. ThreadType(thread[u]) BY <1>0, ThreadTypes
    <2>2. ThreadOK(thread[u], RecOf(u), log) BY DEF Inv, ThreadsOK
    <2> QED BY <1>1, <1>4, <2>1, <2>2, GrownThread DEF ThreadType, At
  <1> QED BY <1>2, <1>3, <1>4 DEF RecordsOK

\* A row lands behind the scan, or in a file that is linked into place.
LEMMA LandKeeps ==
    ASSUME Inv, NEW t \in Thread,
           At(t, "checked") \/ (At(t, "linking") /\ LogOf(t) = <<>>),
           Landed(t), GoesOn(t), UNCHANGED <<journal, daemon, auth, faults>>,
           twice' \subseteq File
    PROVE  Inv'
  <1> DEFINE k == thread[t].log
             r == RecOf(t).row
  <1>0. TypeOK BY DEF Inv
  <1>1. Grows(log, k, r, log') BY DEF Landed, Grows
  <1>2. k \in Log /\ r \in Row BY LandFacts
  <1>3. k \in Event => Len(log[k]) < 3
    <2>1. k \in Event => ReqOf(t).tool = "channel_reply"
      BY LandFacts, RequestFacts
    <2>2. ReqOf(t).tool = "channel_reply" => Len(log[k]) = 2
      BY LandFacts DEF LogOf
    <2>3. Len(log[k]) = 2 => Len(log[k]) < 3 OBVIOUS
    <2> QED BY <2>1, <2>2, <2>3
  <1>4. log' \in [Log -> Seq(Row)] /\ RecordsOK'
    BY <1>1, <1>2, <1>3, GrownRest
  <1>5. /\ ThreadType(thread'[t]) /\ thread'[t].eff = EffOf(t)
        /\ thread'[t].pc \in {"linked", "append", "finish"}
        /\ ThreadOK(thread'[t], RecOf(t), log')
        /\ \A u \in Thread \ {t} : thread'[u] = thread[u]
        /\ thread' \in [Thread -> ThreadRecord]
    BY <1>1, LandThread
  <1>6. ASSUME NEW u \in Thread
        PROVE  ThreadOK(thread'[u], journal[thread'[u].eff], log')
    <2>1. CASE u = t BY <1>5, <2>1 DEF RecOf
    <2>2. CASE u # t
      <3>1. At(u, "checked") => thread[u].log # k BY <2>2, LandFacts
      <3>2. ThreadOK(thread[u], RecOf(u), log')
        BY <1>1, <1>2, <1>3, <3>1, GrownRest
      <3> QED BY <1>5, <2>2, <3>2 DEF RecOf, EffOf
    <2> QED BY <2>1, <2>2
  <1>7. \A u \in Thread : ThreadType(thread'[u])
    BY <1>0, <1>5, ThreadTypes
  <1>8. LateInv' /\ late' \in [File -> Nat] BY LandLate
  <1>9. TypeOK'
    <2>1. \A u \in Thread : thread'[u].pc \in Appending =>
             thread'[u].log \in Log /\ journal[thread'[u].eff].state = "prepared"
      BY <1>6, <1>7 DEF ThreadType, ThreadOK, Appending, Working
    <2> QED BY <1>0, <1>4, <1>5, <1>7, <1>8, <2>1
            DEF TypeOK, ThreadType, ThreadRecord, Appending
  <1>10. ThreadsOK' BY <1>6 DEF ThreadsOK, RecOf, EffOf
  <1>11. EffectsApart'
    <2>1. thread[t].pc # "idle" BY DEF At
    <2> QED BY <1>5, <2>1 DEF Inv, EffectsApart, At, EffOf
  <1>12. FilesApart' BY <1>5 DEF Inv, FilesApart, At, FileOf
  <1>13. RowsOnce' /\ AuditMeansQueued' /\ JournalLoads' BY <1>1, LandLogs
  <1> QED BY <1>4, <1>8, <1>9, <1>10, <1>11, <1>12, <1>13 DEF Inv

\* The webhook appends a pending or a delivered row.
LEMMA DeliveryKeeps ==
    ASSUME Inv, NEW v \in Event, NEW s \in {"pending", "delivered"},
           DeliveryRow(v, s)
    PROVE  Inv'
  <1> DEFINE r == [id |-> s, text |-> None, stamp |-> None]
  <1>0. TypeOK /\ JournalLoads BY DEF Inv
  <1>1. Grows(log, v, r, log') BY DEF DeliveryRow, Grows
  <1>2. v \in Log /\ r \in Row /\ log \in Logs
    BY <1>0 DEF Log, Row, DeliveryState, TypeOK, Logs
  <1>3. \/ Len(log[v]) = 0 /\ s = "pending"
        \/ Len(log[v]) = 1 /\ s = "delivered"
    BY <1>0, StateFacts DEF DeliveryRow
  <1>4. Len(log[v]) < 3
    <2>1. CASE Len(log[v]) = 0 BY <2>1
    <2>2. CASE Len(log[v]) = 1 BY <2>2
    <2> QED BY <1>3, <2>1, <2>2
  <1>5. log' \in [Log -> Seq(Row)] /\ RecordsOK'
    BY <1>1, <1>2, <1>4, GrownRest DEF DeliveryRow
  <1>6. ThreadsOK'
    <2> SUFFICES ASSUME NEW u \in Thread
                 PROVE  ThreadOK(thread[u], RecOf(u), log')
      BY DEF ThreadsOK, RecOf, EffOf, DeliveryRow
    <2>1. ~(At(u, "checked") /\ thread[u].log = v)
      <3> SUFFICES ASSUME At(u, "checked"), thread[u].log = v PROVE FALSE
        OBVIOUS
      <3>1. ReqOf(u).tool = "channel_reply"
        BY LandFacts, RequestFacts
      <3>2. Len(log[v]) = 2 BY <3>1, LandFacts DEF LogOf
      <3> QED BY <1>3, <3>2
    <2> QED BY <1>1, <1>2, <1>4, <2>1, GrownRest DEF DeliveryRow
  <1>7. TypeOK' BY <1>0, <1>5 DEF TypeOK, DeliveryRow
  <1>8. EffectsApart' /\ FilesApart'
    BY DEF Inv, EffectsApart, FilesApart, At, EffOf, DeliveryRow
  <1>9. \A l \in QueueFile : log'[l] = log[l]
    <2>1. \A l \in QueueFile : l \in Log /\ l # v
      BY SentinelAssumption DEF QueueFile, Log
    <2> QED BY <1>1, <1>2, <2>1, Grown
  <1>10. RowsOnce' BY <1>9 DEF Inv, RowsOnce
  <1>11. AuditMeansQueued'
    BY <1>9 DEF Inv, AuditMeansQueued, RowsWith, QueueFile
  <1>12. JournalLoads'
    <2> SUFFICES ASSUME NEW w \in Event
                 PROVE  /\ Len(log'[w]) <= 3
                        /\ \A i \in DOMAIN log'[w] : log'[w][i].id =
                             <<"pending", "delivered", "acknowledged">>[i]
      BY DEF JournalLoads
    <2>1. Len(log[w]) <= 3
          /\ \A i \in DOMAIN log[w] : log[w][i].id =
               <<"pending", "delivered", "acknowledged">>[i]
      BY DEF Inv, JournalLoads
    <2>2. CASE w # v
      <3>1. log'[w] = log[w] BY <1>1, <1>2, <2>2, Grown DEF Log
      <3> QED BY <2>1, <3>1
    <2>3. CASE w = v
      <3>1. DOMAIN log'[v] = DOMAIN log[v] \union {Len(log[v]) + 1}
            /\ log'[v][Len(log[v]) + 1] = r
            /\ Len(log'[v]) = Len(log[v]) + 1
            /\ \A i \in DOMAIN log[v] : log'[v][i] = log[v][i]
        BY <1>1, <1>2, Grown
      <3>2. ASSUME NEW i \in DOMAIN log'[v]
            PROVE  log'[v][i].id = <<"pending", "delivered", "acknowledged">>[i]
        <4>1. CASE i = Len(log[v]) + 1
          <5>1. log'[v][i].id = s BY <3>1, <4>1
          <5>2. CASE Len(log[v]) = 0 BY <1>3, <4>1, <5>1, <5>2
          <5>3. CASE Len(log[v]) = 1 BY <1>3, <4>1, <5>1, <5>3
          <5> QED BY <1>3, <5>2, <5>3
        <4>2. CASE i \in DOMAIN log[v]
          <5>1. log'[v][i] = log[v][i] BY <3>1, <4>2
          <5> QED BY <2>1, <2>3, <4>2, <5>1
        <4> QED BY <3>1, <4>1, <4>2
      <3>3. Len(log'[v]) <= 3
        <4>1. CASE Len(log[v]) = 0 BY <3>1, <4>1
        <4>2. CASE Len(log[v]) = 1 BY <3>1, <4>2
        <4> QED BY <1>3, <4>1, <4>2
      <3> QED BY <2>3, <3>2, <3>3
    <2> QED BY <2>2, <2>3
  <1>13. LateInv'
    <2>1. \A f \in File : f # Delivery => log'[f] = log[f]
      BY <1>9 DEF File, QueueFile
    <2> QED BY <2>1 DEF Inv, LateInv, At, DeliveryRow
  <1> QED BY <1>5, <1>6, <1>7, <1>8, <1>10, <1>11, <1>12, <1>13 DEF Inv

-----------------------------------------------------------------------------
(* The invariant.                                                          *)

LEMMA InitInv == Init => Inv
  <1> SUFFICES ASSUME Init PROVE Inv OBVIOUS
  <1>1. \A t \in Thread : thread[t] = Idle BY DEF Init
  <1>2. \A l \in Log : log[l] = <<>> /\ log[l] \in Seq(Row) BY DEF Init
  <1>3. TypeOK
    <2>1. \A t \in Thread : thread[t].pc = "idle" BY <1>1 DEF Idle
    <2>2. thread \in [Thread -> [pc: Pc, eff: Effect \union {None},
                                 req: Request \union {None},
                                 log: Log \union {None}]]
      BY DEF Init, Idle, Pc
    <2>3. journal \in [Effect -> Record]
          /\ \A e \in Effect : journal[e].state = "none"
      BY DEF Init, NoRecord, Record
    <2>4. log \in [Log -> Seq(Row)] /\ twice \subseteq File BY <1>2 DEF Init
    <2>5. late \in [File -> Nat] /\ auth \in BOOLEAN
          /\ daemon \in {"down", "recovering", "ready"}
          /\ faults \in [crash: Nat, lapse: Nat, raise: Nat]
      BY DEF Init
    <2> QED BY <2>1, <2>2, <2>3, <2>4, <2>5 DEF TypeOK
  <1>4. ThreadsOK BY <1>1 DEF ThreadsOK, ThreadOK, Idle, Working, Appending
  <1>5. RecordsOK BY DEF Init, NoRecord, RecordsOK, RecordOK
  <1>6. EffectsApart /\ FilesApart
    BY <1>1 DEF EffectsApart, FilesApart, At, Idle
  <1>7. RowsOnce BY <1>2 DEF RowsOnce, QueueFile, Log
  <1>8. AuditMeansQueued BY <1>2 DEF AuditMeansQueued, RowsWith, Log
  <1>9. JournalLoads
    <2>1. \A v \in Event : Len(log[v]) = 0 /\ DOMAIN log[v] = {}
      BY <1>2 DEF Log
    <2> QED BY <2>1 DEF JournalLoads
  <1>10. LateInv BY DEF Init, LateInv
  <1> QED BY <1>3, <1>4, <1>5, <1>6, <1>7, <1>8, <1>9, <1>10 DEF Inv

\* What a thread inside a call relies on.
LEMMA BusyFacts ==
    ASSUME Inv, NEW t \in Thread, thread[t].pc # "idle"
    PROVE  /\ TypeOK /\ JournalLoads
           /\ thread[t] \in ThreadRecord /\ EffOf(t) \in Effect
           /\ ReqOf(t) \in Request /\ RecOf(t) \in Record
           /\ ThreadOK(thread[t], RecOf(t), log)
           /\ RecordOK(EffOf(t), RecOf(t), log)
  <1>1. TypeOK /\ JournalLoads BY DEF Inv
  <1>2. thread[t] \in ThreadRecord /\ EffOf(t) \in Effect /\ ReqOf(t) \in Request
    BY <1>1, ThreadTypes DEF ThreadType, EffOf, ReqOf
  <1>3. RecOf(t) \in Record BY <1>1, <1>2 DEF TypeOK, RecOf
  <1> QED BY <1>1, <1>2, <1>3 DEF Inv, ThreadsOK, RecordsOK, RecOf

\* The fields of a thread that goes on.
LEMMA GotoFields ==
    ASSUME NEW th \in ThreadRecord, NEW p, NEW l
    PROVE  /\ [th EXCEPT !.pc = p, !.log = l].pc = p
           /\ [th EXCEPT !.pc = p, !.log = l].log = l
           /\ [th EXCEPT !.pc = p, !.log = l].eff = th.eff
           /\ [th EXCEPT !.pc = p, !.log = l].req = th.req
  BY DEF ThreadRecord

\* A call that only moves on: what it must know at its next step.
LEMMA MoveKeeps ==
    ASSUME Inv, NEW t \in Thread, thread[t].pc # "idle",
           NEW p \in Pc \ {"idle"}, NEW l \in Log \union {None}, Goto(t, p, l),
           UNCHANGED <<journal, log, daemon, auth, late, faults>>,
           twice' \subseteq File,
           p \in Appending => l \in Log,
           p \in Working => RecOf(t).state = "prepared" /\ RecOf(t).req = ReqOf(t),
           p = "recheck" => ReqOf(t).tool = "channel_reply",
           p \in Appending =>
              /\ ReqOf(t).tool = "channel_send" =>
                    /\ l \in {ReqOf(t).to, Audit}
                    /\ l = Audit => Has(log[ReqOf(t).to], EffOf(t))
              /\ ReqOf(t).tool = "channel_reply" =>
                    l = ReqOf(t).to /\ Len(log[l]) >= 2 /\ p # "linking",
           p # "linked",
           p \in {"opened", "checked"} => log[l] # <<>>,
           p = "checked" => ~Has(log[l], RecOf(t).row.id),
           p = "finish" => Finished(EffOf(t), ReqOf(t), log),
           p = "checked" => auth /\ ~FileLocked(FileOf(l))
    PROVE  Inv'
  <1> DEFINE th == [thread[t] EXCEPT !.pc = p, !.log = l]
  <1>1. th.pc = p /\ th.log = l /\ th.eff = EffOf(t) /\ th.req = ReqOf(t)
    BY BusyFacts, GotoFields DEF EffOf, ReqOf
  <1>2. ThreadOK(th, RecOf(t), log)
    <2> HIDE DEF th
    <2> QED BY <1>1 DEF ThreadOK
  <1> QED BY <1>2, GotoKeeps

\* A fresh send or reply journals its rows.
LEMMA PrepareKeeps ==
    ASSUME Inv, NEW t \in Thread, NEW s \in Stamp,
           PrepareSend(t, s) \/ PrepareReply(t, s)
    PROVE  Inv'
  <1>0. thread[t].pc # "idle" BY DEF PrepareSend, PrepareReply, At
  <1>1. /\ TypeOK /\ JournalLoads /\ thread[t] \in ThreadRecord
        /\ EffOf(t) \in Effect /\ ReqOf(t) \in Request /\ twice \subseteq File
    BY <1>0, BusyFacts DEF TypeOK
  <1>2. CASE PrepareSend(t, s)
    <2> DEFINE r == [id |-> EffOf(t), text |-> ReqOf(t).text, stamp |-> s]
               rec == [state |-> "prepared", req |-> ReqOf(t), row |-> r]
               th == [thread[t] EXCEPT !.pc = "append", !.log = ReqOf(t).to]
    <2>1. ReqOf(t).tool = "channel_send" /\ Write(t, rec)
          /\ thread' = [thread EXCEPT ![t] = th]
          /\ UNCHANGED <<log, twice, daemon, auth, late, faults>>
      BY <1>2 DEF PrepareSend, Goto
    <2>2. ReqOf(t).to \in Target /\ ReqOf(t).text \in Text
      BY <1>1, <2>1, RequestFacts
    <2>3. r \in Row /\ rec \in Record BY <1>1, <2>2 DEF Row, Record
    <2>4. th.pc = "append" /\ th.log = ReqOf(t).to /\ th.eff = EffOf(t)
          /\ th.req = ReqOf(t)
      BY <1>1, GotoFields DEF EffOf, ReqOf
    <2>5. th \in ThreadRecord BY <1>1, <2>2 DEF ThreadRecord, Pc, Log
    <2>6. RecordOK(EffOf(t), rec, log) BY <2>1 DEF RecordOK
    <2>7. rec.state = "prepared" /\ rec.req = ReqOf(t) /\ rec.row = r OBVIOUS
    <2> HIDE DEF th, rec, r
    <2>8. ThreadType(th) BY <1>1, <2>2, <2>4, <2>5 DEF ThreadType, Log
    <2>9. ThreadOK(th, rec, log)
      <3>1. ReqOf(t).to # Audit BY <2>2, SentinelAssumption
      <3> QED BY <2>1, <2>4, <2>7, <3>1 DEF ThreadOK, Working, Appending
    <2> QED BY <1>0, <1>1, <2>1, <2>3, <2>4, <2>6, <2>7, <2>8, <2>9, WriteKeeps
  <1>3. CASE PrepareReply(t, s)
    <2> DEFINE r == [id |-> "acknowledged", text |-> ReqOf(t).text, stamp |-> s]
               rec == [state |-> "prepared", req |-> ReqOf(t), row |-> r]
               th == [thread[t] EXCEPT !.pc = "recheck", !.log = None]
    <2>1. ReqOf(t).tool = "channel_reply" /\ Write(t, rec)
          /\ thread' = [thread EXCEPT ![t] = th]
          /\ UNCHANGED <<log, twice, daemon, auth, late, faults>>
      BY <1>3 DEF PrepareReply, Goto
    <2>2. ReqOf(t).text \in Text BY <1>1, RequestFacts
    <2>3. r \in Row /\ rec \in Record
      BY <1>1, <2>2 DEF Row, Record, DeliveryState
    <2>4. th.pc = "recheck" /\ th.log = None /\ th.eff = EffOf(t)
          /\ th.req = ReqOf(t)
      BY <1>1, GotoFields DEF EffOf, ReqOf
    <2>5. th \in ThreadRecord BY <1>1 DEF ThreadRecord, Pc
    <2>6. RecordOK(EffOf(t), rec, log) BY <2>1 DEF RecordOK
    <2>7. rec.state = "prepared" /\ rec.req = ReqOf(t) /\ rec.row = r OBVIOUS
    <2> HIDE DEF th, rec, r
    <2>8. ThreadType(th) BY <1>1, <2>4, <2>5 DEF ThreadType, Appending
    <2>9. ThreadOK(th, rec, log)
      BY <2>1, <2>4, <2>7 DEF ThreadOK, Working, Appending
    <2> QED BY <1>0, <1>1, <2>1, <2>3, <2>4, <2>6, <2>7, <2>8, <2>9, WriteKeeps
  <1> QED BY <1>2, <1>3

\* A completed record is written, by the call that did the work or by a
\* duplicate that found it done.
LEMMA CompleteKeeps ==
    ASSUME Inv, NEW t \in Thread, thread[t].pc # "idle", NEW rec \in Record,
           rec.state = "completed", rec.req = ReqOf(t), Write(t, rec), Leave(t),
           Finished(EffOf(t), ReqOf(t), log),
           UNCHANGED <<log, twice, daemon, auth, late, faults>>
    PROVE  Inv'
  <1>1. ReqOf(t) \in Request /\ twice' \subseteq File BY BusyFacts DEF TypeOK
  <1>2. thread' = [thread EXCEPT ![t] = Idle] BY DEF Leave
  <1>3. ThreadType(Idle) /\ Idle.pc = "idle"
    BY DEF ThreadType, ThreadRecord, Idle, Pc, Appending
  <1>4. ThreadOK(Idle, rec, log) BY DEF ThreadOK, Idle, Working, Appending
  <1>5. RecordOK(EffOf(t), rec, log) BY DEF RecordOK
  <1> QED BY <1>1, <1>2, <1>3, <1>4, <1>5, WriteKeeps

\* A step of one thread keeps the invariant.
LEMMA StepInv ==
    ASSUME Inv, NEW t \in Thread, Step(t)
    PROVE  Inv'
  <1>0. faults \in [crash: Nat, lapse: Nat, raise: Nat] /\ twice \subseteq File
    BY DEF Inv, TypeOK
  <1>1. CASE Replay(t)
    BY <1>0, <1>1, GiveUpKeeps DEF Replay
  <1>2. CASE RefuseReply(t)
    BY <1>0, <1>2, GiveUpKeeps DEF RefuseReply
  <1>3. CASE ReplyMismatch(t)
    BY <1>0, <1>3, GiveUpKeeps DEF ReplyMismatch
  <1>4. CASE IdentityConflict(t)
    BY <1>0, <1>4, GiveUpKeeps DEF IdentityConflict
  <1>5. ASSUME NEW e \in Effect, NEW s \in Clock[e],
               PrepareSend(t, s) \/ PrepareReply(t, s)
        PROVE  Inv'
    <2>1. s \in Stamp BY <1>5, ClockAssumption
    <2> QED BY <1>5, <2>1, PrepareKeeps
  <1>6. CASE DuplicateReply(t)
    <2> DEFINE rec == [state |-> "completed", req |-> ReqOf(t), row |-> None]
    <2>1. thread[t].pc # "idle" BY <1>6 DEF DuplicateReply, At
    <2>2. TypeOK /\ JournalLoads /\ ReqOf(t) \in Request BY <2>1, BusyFacts
    <2>3. ReqOf(t).tool = "channel_reply" /\ ReqOf(t).to \in Event
      BY <1>6, <2>2, RequestFacts DEF DuplicateReply
    <2>4. Acked(log[ReqOf(t).to], ReqOf(t).text)
      BY <1>6, <2>2, <2>3, StateFacts DEF DuplicateReply, Acked
    <2>5. Finished(EffOf(t), ReqOf(t), log) BY <2>3, <2>4 DEF Finished
    <2>6. rec \in Record /\ rec.state = "completed" /\ rec.req = ReqOf(t)
      BY <2>2 DEF Record
    <2>7. Write(t, rec) /\ Leave(t)
          /\ UNCHANGED <<log, twice, daemon, auth, late, faults>>
      BY <1>6 DEF DuplicateReply
    <2> HIDE DEF rec
    <2> QED BY <2>1, <2>5, <2>6, <2>7, CompleteKeeps
  <1>7. CASE Complete(t)
    <2> DEFINE rec == [RecOf(t) EXCEPT !.state = "completed"]
    <2>1. thread[t].pc = "finish" /\ thread[t].pc # "idle"
      BY <1>7 DEF Complete, At
    <2>2. RecOf(t) \in Record /\ ThreadOK(thread[t], RecOf(t), log)
      BY <2>1, BusyFacts
    <2>3. RecOf(t).req = ReqOf(t) /\ Finished(EffOf(t), ReqOf(t), log)
      BY <2>1, <2>2 DEF ThreadOK, Working, EffOf, ReqOf
    <2>4. rec \in Record /\ rec.state = "completed" /\ rec.req = ReqOf(t)
      BY <2>2, <2>3 DEF Record
    <2>5. Write(t, rec) /\ Leave(t)
          /\ UNCHANGED <<log, twice, daemon, auth, late, faults>>
      BY <1>7 DEF Complete
    <2> HIDE DEF rec
    <2> QED BY <2>1, <2>3, <2>4, <2>5, CompleteKeeps
  <1>8. CASE Resume(t)
    <2>1. thread[t].pc # "idle" /\ RecOf(t).state = "prepared"
          /\ RecOf(t).req = ReqOf(t)
          /\ UNCHANGED <<journal, log, daemon, auth, late, faults>>
          /\ twice' \subseteq File
      BY <1>0, <1>8 DEF Resume, At
    <2>2. ReqOf(t) \in Request BY <2>1, BusyFacts
    <2>3. CASE ReqOf(t).tool = "channel_send"
      <3>1. ReqOf(t).to \in Target /\ ReqOf(t).to \in Log
            /\ ReqOf(t).to # Audit
        BY <2>2, <2>3, RequestFacts, SentinelAssumption DEF Log
      <3>2. Goto(t, "append", ReqOf(t).to) BY <1>8, <2>3 DEF Resume
      <3>3. "append" \in Pc \ {"idle"} BY DEF Pc
      <3> QED BY <2>1, <2>3, <3>1, <3>2, <3>3, MoveKeeps
    <2>4. CASE ReqOf(t).tool # "channel_send"
      <3>1. ReqOf(t).tool = "channel_reply" BY <2>2, <2>4, RequestFacts
      <3>2. Goto(t, "recheck", None) BY <1>8, <2>4 DEF Resume
      <3>3. "recheck" \in Pc \ {"idle"} /\ "recheck" \notin Appending
        BY DEF Pc, Appending
      <3> QED BY <2>1, <3>1, <3>2, <3>3, MoveKeeps
    <2> QED BY <2>3, <2>4
  <1>9. CASE StillDelivered(t)
    <2>1. thread[t].pc = "recheck" /\ thread[t].pc # "idle"
          /\ Goto(t, "append", ReqOf(t).to)
          /\ StateOf(ReqOf(t).to) = "delivered"
          /\ UNCHANGED <<journal, log, daemon, auth, late, faults>>
          /\ twice' \subseteq File
      BY <1>0, <1>9 DEF StillDelivered, At
    <2>2. /\ TypeOK /\ JournalLoads /\ ReqOf(t) \in Request
          /\ ThreadOK(thread[t], RecOf(t), log)
      BY <2>1, BusyFacts
    <2>3. RecOf(t).state = "prepared" /\ RecOf(t).req = ReqOf(t)
          /\ ReqOf(t).tool = "channel_reply"
      BY <2>1, <2>2 DEF ThreadOK, Working, ReqOf
    <2>4. ReqOf(t).to \in Event /\ ReqOf(t).to \in Log
      BY <2>2, <2>3, RequestFacts DEF Log
    <2>5. Len(log[ReqOf(t).to]) = 2 BY <2>1, <2>2, <2>4, StateFacts
    <2>6. Len(log[ReqOf(t).to]) >= 2 BY <2>5
    <2>7. "append" \in Pc \ {"idle"} BY DEF Pc
    <2> QED BY <2>1, <2>3, <2>4, <2>6, <2>7, MoveKeeps
  <1>10. CASE AlreadyAcknowledged(t)
    <2>1. thread[t].pc = "recheck" /\ thread[t].pc # "idle"
          /\ Goto(t, "finish", None)
          /\ StateOf(ReqOf(t).to) = "acknowledged"
          /\ Snapshot(ReqOf(t).to).text = ReqOf(t).text
          /\ UNCHANGED <<journal, log, daemon, auth, late, faults>>
          /\ twice' \subseteq File
      BY <1>0, <1>10 DEF AlreadyAcknowledged, At
    <2>2. /\ TypeOK /\ JournalLoads /\ ReqOf(t) \in Request
          /\ ThreadOK(thread[t], RecOf(t), log)
      BY <2>1, BusyFacts
    <2>3. RecOf(t).state = "prepared" /\ RecOf(t).req = ReqOf(t)
          /\ ReqOf(t).tool = "channel_reply"
      BY <2>1, <2>2 DEF ThreadOK, Working, ReqOf
    <2>4. ReqOf(t).to \in Event BY <2>2, <2>3, RequestFacts
    <2>5. Acked(log[ReqOf(t).to], ReqOf(t).text)
      BY <2>1, <2>2, <2>4, StateFacts DEF Acked
    <2>6. Finished(EffOf(t), ReqOf(t), log) BY <2>3, <2>5 DEF Finished
    <2>7. "finish" \in Pc \ {"idle"} /\ "finish" \notin Appending
      BY DEF Pc, Appending
    <2> QED BY <2>1, <2>3, <2>6, <2>7, MoveKeeps
  <1>11. ASSUME NEW p \in {"linking", "opened", "checked"},
                thread[t].pc \in Appending,
                Goto(t, p, thread[t].log),
                UNCHANGED <<journal, log, twice, daemon, auth, late, faults>>,
                p = "linking" <=> LogOf(t) = <<>>,
                p = "checked" => /\ auth /\ ~FileLocked(FileOf(thread[t].log))
                                 /\ SameIdentity(t) = {}
         PROVE  Inv'
    <2> DEFINE l == thread[t].log
    <2>1. thread[t].pc # "idle" /\ thread[t].pc \in Working
      BY <1>11 DEF Appending, Working
    <2>2. l \in Log BY <1>11, ThreadTypes DEF Inv, ThreadType
    <2>3. /\ TypeOK /\ ThreadOK(thread[t], RecOf(t), log)
      BY <2>1, BusyFacts
    <2>4. RecOf(t).state = "prepared" /\ RecOf(t).req = ReqOf(t)
      BY <2>1, <2>3 DEF ThreadOK, ReqOf
    <2>5. /\ ReqOf(t).tool = "channel_send" =>
                /\ l \in {ReqOf(t).to, Audit}
                /\ l = Audit => Has(log[ReqOf(t).to], EffOf(t))
          /\ ReqOf(t).tool = "channel_reply" =>
                l = ReqOf(t).to /\ Len(log[l]) >= 2
      BY <1>11, <2>3 DEF ThreadOK, ReqOf, EffOf
    <2>6. log[l] \in Seq(Row) BY <2>2, <2>3 DEF TypeOK
    <2>7. Len(log[l]) >= 2 => p # "linking"
      BY <1>11, <2>6 DEF LogOf
    <2>8. p \in {"opened", "checked"} => log[l] # <<>> BY <1>11 DEF LogOf
    <2>9. p = "checked" => ~Has(log[l], RecOf(t).row.id)
      BY <1>11 DEF SameIdentity, Has, LogOf
    <2>10. p \in Pc \ {"idle"} /\ p # "recheck" /\ p # "finish"
           /\ p # "linked" /\ twice' \subseteq File
      BY <1>0, <1>11 DEF Pc
    <2> QED BY <1>11, <2>1, <2>2, <2>4, <2>5, <2>7, <2>8, <2>9, <2>10, MoveKeeps
  <1>12. CASE CreateFile(t)
    BY <1>11, <1>12 DEF CreateFile, At, Appending
  <1>13. CASE OpenFile(t)
    BY <1>11, <1>13 DEF OpenFile, Opening, At, Appending
  <1>14. CASE LinkFile(t)
    <2>1. thread[t].log \in Log
      BY <1>14, ThreadTypes DEF Inv, ThreadType, LinkFile, At, Appending
    <2>2. FileOf(thread[t].log) \in File BY <2>1 DEF FileOf, File, Log
    <2>3. twice' \subseteq File BY <1>0, <1>14, <2>2 DEF LinkFile
    <2>4. GoesOn(t) BY <1>14 DEF LinkFile, GoesOn, At
    <2> QED BY <1>14, <2>3, <2>4, LandKeeps DEF LinkFile
  <1>15. CASE Scan(t)
    <2>1. thread[t].pc = "opened" /\ thread[t].pc # "idle"
      BY <1>15 DEF Scan, At
    <2>2. LogOf(t) # <<>> BY <2>1, BusyFacts DEF ThreadOK, LogOf
    <2> QED BY <1>11, <1>15, <2>1, <2>2 DEF Scan, Appending
  <1>16. CASE AppendRow(t)
    <2>1. GoesOn(t) BY <1>16 DEF AppendRow, GoesOn
    <2> QED BY <1>0, <1>16, <2>1, LandKeeps DEF AppendRow
  <1>17. CASE AlreadyThere(t)
    <2> DEFINE l == thread[t].log
    <2>1. thread[t].pc = "opened" /\ thread[t].pc # "idle" /\ Advance(t)
          /\ UNCHANGED <<journal, log, daemon, auth, late, faults>>
          /\ twice' \subseteq File
      BY <1>0, <1>17 DEF AlreadyThere, At
    <2>2. /\ TypeOK /\ JournalLoads /\ ReqOf(t) \in Request
          /\ ThreadOK(thread[t], RecOf(t), log)
          /\ RecordOK(EffOf(t), RecOf(t), log)
      BY <2>1, BusyFacts
    <2>3. RecOf(t).state = "prepared" /\ RecOf(t).req = ReqOf(t)
      BY <2>1, <2>2 DEF ThreadOK, ReqOf, Working
    <2>4. /\ ReqOf(t).tool = "channel_send" =>
                /\ l \in {ReqOf(t).to, Audit}
                /\ l = Audit => Has(log[ReqOf(t).to], EffOf(t))
          /\ ReqOf(t).tool = "channel_reply" => l = ReqOf(t).to
      BY <2>1, <2>2 DEF ThreadOK, ReqOf, EffOf, Appending
    <2>5. PICK n \in DOMAIN log[l] : log[l][n] = RecOf(t).row
      BY <1>17 DEF AlreadyThere, SameIdentity, LogOf
    <2>6. Has(log[l], RecOf(t).row.id) BY <2>5 DEF Has
    <2>7. CASE l \in Target
      <3>1. Goto(t, "append", Audit) BY <2>1, <2>7 DEF Advance
      <3>2. ReqOf(t).tool = "channel_send" /\ l = ReqOf(t).to
        BY <2>2, <2>4, <2>7, RequestFacts, SentinelAssumption
      <3>3. Has(log[ReqOf(t).to], EffOf(t))
        BY <2>2, <2>3, <2>6, <3>2 DEF RecordOK
      <3>4. "append" \in Pc \ {"idle"} /\ Audit \in Log BY DEF Pc, Log
      <3> QED BY <2>1, <2>3, <3>1, <3>2, <3>3, <3>4, MoveKeeps
    <2>8. CASE l \notin Target
      <3>1. Goto(t, "finish", None) BY <2>1, <2>8 DEF Advance
      <3>2. ASSUME ReqOf(t).tool = "channel_send"
            PROVE  Finished(EffOf(t), ReqOf(t), log)
        <4>1. l = Audit BY <2>2, <2>4, <2>8, <3>2, RequestFacts
        <4> QED BY <2>2, <2>3, <2>4, <2>6, <3>2, <4>1 DEF Finished, RecordOK
      <3>3. ASSUME ReqOf(t).tool = "channel_reply"
            PROVE  Finished(EffOf(t), ReqOf(t), log)
        <4>1. l = ReqOf(t).to /\ l \in Event
          BY <2>2, <2>4, <3>3, RequestFacts
        <4>2. RecOf(t).row.id = "acknowledged"
              /\ RecOf(t).row.text = ReqOf(t).text
          BY <2>2, <2>3, <3>3 DEF RecordOK
        <4>3. Len(log[l]) = 3 /\ log[l] \in Seq(Row)
              /\ DOMAIN log[l] = 1 .. Len(log[l])
          BY <2>2, <2>6, <4>1, <4>2, StateFacts
        <4>4. n = 3
          <5>1. log[l][n].id = <<"pending", "delivered", "acknowledged">>[n]
            BY <2>2, <4>1 DEF JournalLoads
          <5>2. log[l][n].id = "acknowledged" BY <2>5, <4>2
          <5>3. n \in 1 .. 3 BY <4>3
          <5> QED BY <5>1, <5>2, <5>3
        <4>5. Acked(log[l], ReqOf(t).text) BY <2>5, <4>2, <4>3, <4>4 DEF Acked
        <4> QED BY <3>3, <4>1, <4>5 DEF Finished
      <3>4. Finished(EffOf(t), ReqOf(t), log)
        BY <2>2, <3>2, <3>3, RequestFacts
      <3>5. "finish" \in Pc \ {"idle"} /\ "finish" \notin Appending
        BY DEF Pc, Appending
      <3> QED BY <2>1, <2>3, <3>1, <3>4, <3>5, MoveKeeps
    <2> QED BY <2>7, <2>8
  <1>18. CASE UnlinkTemporary(t)
    <2> DEFINE l == thread[t].log
    <2>1. thread[t].pc = "linked" /\ thread[t].pc # "idle" /\ Advance(t)
          /\ UNCHANGED <<journal, log, daemon, auth, late, faults>>
          /\ twice' \subseteq File
      BY <1>0, <1>18 DEF UnlinkTemporary, At
    <2>2. ReqOf(t) \in Request /\ ThreadOK(thread[t], RecOf(t), log)
      BY <2>1, BusyFacts
    <2>3. RecOf(t).state = "prepared" /\ RecOf(t).req = ReqOf(t)
      BY <2>1, <2>2 DEF ThreadOK, ReqOf, Working
    <2>4. /\ ReqOf(t).tool = "channel_send" /\ Has(log[l], EffOf(t))
          /\ l \in {ReqOf(t).to, Audit}
          /\ l = Audit => Has(log[ReqOf(t).to], EffOf(t))
      BY <2>1, <2>2 DEF ThreadOK, ReqOf, EffOf, Appending
    <2>5. ReqOf(t).to \in Target /\ Audit \notin Target
      BY <2>2, <2>4, RequestFacts, SentinelAssumption
    <2>6. CASE l \in Target
      <3>1. Goto(t, "append", Audit) BY <2>1, <2>6 DEF Advance
      <3>2. "append" \in Pc \ {"idle"} /\ Audit \in Log BY DEF Pc, Log
      <3>3. Has(log[ReqOf(t).to], EffOf(t)) BY <2>4, <2>5, <2>6
      <3> QED BY <2>1, <2>3, <2>4, <3>1, <3>2, <3>3, MoveKeeps
    <2>7. CASE l \notin Target
      <3>1. Goto(t, "finish", None) BY <2>1, <2>7 DEF Advance
      <3>2. l = Audit BY <2>4, <2>5, <2>7
      <3>3. Finished(EffOf(t), ReqOf(t), log) BY <2>4, <3>2 DEF Finished
      <3>4. "finish" \in Pc \ {"idle"} /\ "finish" \notin Appending
        BY DEF Pc, Appending
      <3> QED BY <2>1, <2>3, <3>1, <3>3, <3>4, MoveKeeps
    <2> QED BY <2>6, <2>7
  <1>19. CASE RefuseFile(t) BY <1>0, <1>19, GiveUpKeeps DEF RefuseFile
  <1> QED BY <1>1, <1>2, <1>3, <1>4, <1>5, <1>6, <1>7, <1>8, <1>9, <1>10,
             <1>12, <1>13, <1>14, <1>15, <1>16, <1>17, <1>18, <1>19 DEF Step

\* Every step of the system keeps the invariant.
LEMMA NextInv == Inv /\ [Next]_vars => Inv'
  <1> SUFFICES ASSUME Inv, [Next]_vars PROVE Inv' OBVIOUS
  <1>0. TypeOK BY DEF Inv
  <1>1. ASSUME NEW c \in Client, NEW e \in Effect, NEW r \in Request,
               CallTool(c, e, r)
        PROVE  Inv'
    BY <1>1, EnterKeeps DEF CallTool, Thread
  <1>2. ASSUME NEW t \in Thread, Step(t) PROVE Inv' BY <1>2, StepInv
  <1>3. ASSUME NEW t \in Thread, Raise(t) PROVE Inv'
    <2>1. faults' \in [crash: Nat, lapse: Nat, raise: Nat]
      BY <1>0, <1>3 DEF TypeOK, Raise
    <2>2. twice' \subseteq File BY <1>0, <1>3 DEF TypeOK, Raise
    <2> QED BY <1>3, <2>1, <2>2, GiveUpKeeps DEF Raise
  <1>4. ASSUME NEW e \in Effect, RecoverRecord(e) PROVE Inv'
    <2>1. journal[e].req \in Request
      BY <1>0, <1>4 DEF TypeOK, RecoverRecord, Prepared
    <2>2. Recovery \in Thread BY DEF Thread
    <2> QED BY <1>4, <2>1, <2>2, EnterKeeps DEF RecoverRecord
  <1>5. ASSUME UNCHANGED <<journal, log, twice, thread, auth, late>>,
               daemon' \in {"down", "recovering", "ready"},
               faults' \in [crash: Nat, lapse: Nat, raise: Nat]
        PROVE  Inv'
    <2>1. TypeOK' BY <1>0, <1>5 DEF TypeOK
    <2>2. ThreadsOK' /\ RecordsOK' /\ EffectsApart' /\ FilesApart'
      BY <1>5 DEF Inv, ThreadsOK, RecordsOK, EffectsApart, FilesApart, At,
                  EffOf, RecOf
    <2>3. RowsOnce' /\ AuditMeansQueued' /\ JournalLoads' /\ LateInv'
      BY <1>5 DEF Inv, RowsOnce, AuditMeansQueued, RowsWith, JournalLoads,
                  LateInv, At
    <2> QED BY <2>1, <2>2, <2>3 DEF Inv
  <1>6. CASE StartDaemon BY <1>0, <1>5, <1>6 DEF StartDaemon, TypeOK
  <1>7. CASE BecomeReady BY <1>0, <1>5, <1>7 DEF BecomeReady, TypeOK
  <1>8. CASE UNCHANGED vars BY <1>0, <1>5, <1>8 DEF vars, TypeOK
  <1>9. CASE Crash
    <2>1. \A t \in Thread : thread'[t] = Idle BY <1>9 DEF Crash
    <2>2. TypeOK'
      <3>1. thread' \in [Thread -> [pc: Pc, eff: Effect \union {None},
                                    req: Request \union {None},
                                    log: Log \union {None}]]
        BY <1>9 DEF Crash, Idle, Pc
      <3>2. faults' \in [crash: Nat, lapse: Nat, raise: Nat]
        BY <1>0, <1>9 DEF TypeOK, Crash
      <3>3. \A t \in Thread : thread'[t].pc = "idle" BY <2>1 DEF Idle
      <3> QED BY <1>0, <1>9, <3>1, <3>2, <3>3 DEF TypeOK, Crash
    <2>3. ThreadsOK'
      BY <2>1 DEF ThreadsOK, ThreadOK, Idle, Working, Appending
    <2>4. EffectsApart' /\ FilesApart'
      BY <2>1 DEF EffectsApart, FilesApart, At, Idle
    <2>5. RecordsOK' /\ RowsOnce' /\ AuditMeansQueued' /\ JournalLoads'
      BY <1>9 DEF Inv, RecordsOK, RowsOnce, AuditMeansQueued, RowsWith,
                  JournalLoads, Crash
    <2>6. LateInv' BY <1>9, <2>1 DEF Inv, LateInv, At, Idle, Crash
    <2> QED BY <2>2, <2>3, <2>4, <2>5, <2>6 DEF Inv
  <1>10. CASE Lapse \/ Renew
    <2>1. TypeOK'
      <3>1. CASE Lapse
        <4>1. faults' \in [crash: Nat, lapse: Nat, raise: Nat]
          BY <1>0, <3>1 DEF TypeOK, Lapse
        <4>2. auth' \in BOOLEAN BY <3>1 DEF Lapse
        <4> QED BY <1>0, <3>1, <4>1, <4>2 DEF TypeOK, Lapse
      <3>2. CASE Renew BY <1>0, <3>2 DEF TypeOK, Renew
      <3> QED BY <1>10, <3>1, <3>2
    <2>2. ThreadsOK' /\ RecordsOK' /\ EffectsApart' /\ FilesApart'
      BY <1>10 DEF Inv, ThreadsOK, RecordsOK, EffectsApart, FilesApart, At,
                   EffOf, RecOf, Lapse, Renew
    <2>3. RowsOnce' /\ AuditMeansQueued' /\ JournalLoads'
      BY <1>10 DEF Inv, RowsOnce, AuditMeansQueued, RowsWith, JournalLoads,
                   Lapse, Renew
    <2>4. LateInv'
      <3>1. CASE Lapse BY <3>1 DEF Inv, LateInv, At, Lapse
      <3>2. CASE Renew
        <4>1. \A f \in File : late'[f] = 0 BY <3>2 DEF Renew
        <4> QED BY <4>1 DEF LateInv
      <3> QED BY <1>10, <3>1, <3>2
    <2> QED BY <2>1, <2>2, <2>3, <2>4 DEF Inv
  <1>11. ASSUME NEW v \in Event, NEW s \in {"pending", "delivered"},
                DeliveryRow(v, s)
         PROVE  Inv'
    BY <1>11, DeliveryKeeps
  <1> QED BY <1>1, <1>2, <1>3, <1>4, <1>6, <1>7, <1>8, <1>9, <1>10, <1>11
          DEF Next

LEMMA Invariance == Spec => []Inv
  <1>1. Init => Inv BY InitInv
  <1>2. Inv /\ [Next]_vars => Inv' BY NextInv
  <1> QED BY <1>1, <1>2, PTL DEF Spec

-----------------------------------------------------------------------------
(* What follows from it.                                                   *)

\* A set whose elements are all equal has at most one.
LEMMA AtMostOne ==
    ASSUME NEW S, \A x, y \in S : x = y
    PROVE  Cardinality(S) <= 1
  <1>1. CASE S = {} BY <1>1, FS_EmptySet
  <1>2. CASE S # {}
    <2>1. PICK x \in S : TRUE BY <1>2
    <2>2. S = {x} BY <2>1
    <2> QED BY <2>2, FS_Singleton
  <1> QED BY <1>1, <1>2

LEMMA InvSent == Inv => SentOnce
  <1> SUFFICES ASSUME Inv, NEW e \in Effect, NEW l \in Target \union {Audit}
               PROVE  /\ Cardinality(RowsWith(l, e)) <= 1
                      /\ /\ journal[e].state = "completed"
                         /\ journal[e].req.tool = "channel_send"
                         /\ l \in {journal[e].req.to, Audit}
                         => RowsWith(l, e) # {}
    BY DEF SentOnce
  <1>1. \A m, n \in RowsWith(l, e) : m = n
    BY DEF Inv, RowsOnce, RowsWith, QueueFile
  <1>2. Cardinality(RowsWith(l, e)) <= 1 BY <1>1, AtMostOne
  <1>3. ASSUME journal[e].state = "completed",
               journal[e].req.tool = "channel_send",
               l \in {journal[e].req.to, Audit}
        PROVE  RowsWith(l, e) # {}
    <2>1. Finished(e, journal[e].req, log)
      BY <1>3 DEF Inv, RecordsOK, RecordOK
    <2>2. Has(log[l], e) BY <1>3, <2>1 DEF Finished
    <2> QED BY <2>2, RowsHas
  <1> QED BY <1>2, <1>3

\* The queues, the audit log and the delivery journal stay what their readers
\* expect: _append_jsonl_once appends exactly once over racing creators,
\* retries and crashes, the audit row follows the queue row, and the journal
\* that broker and webhook share can be loaded.
THEOREM LogsSound == Spec => []LogsAreSound
  <1>1. Inv => LogsAreSound BY InvSent DEF Inv, LogsAreSound
  <1> QED BY <1>1, Invariance, PTL

\* A verdict that _journaled_channel_reply has answered is the one the
\* delivery journal holds from then on, for the first caller and for every
\* duplicate.
THEOREM RepliesDurable == Spec => []ReplyIsDurable
  <1>1. Inv => ReplyIsDurable
    <2> SUFFICES ASSUME Inv, NEW e \in Effect,
                        journal[e].state = "completed",
                        journal[e].req.tool = "channel_reply"
                 PROVE  /\ StateOf(journal[e].req.to) = "acknowledged"
                        /\ Snapshot(journal[e].req.to).text = journal[e].req.text
      BY DEF ReplyIsDurable
    <2>1. TypeOK /\ JournalLoads /\ RecordOK(e, journal[e], log)
      BY DEF Inv, RecordsOK
    <2>2. Acked(log[journal[e].req.to], journal[e].req.text)
      BY <2>1 DEF RecordOK, Finished
    <2>3. journal[e].req.to \in Event
      BY <2>1, RequestFacts DEF TypeOK
    <2> QED BY <2>1, <2>2, <2>3, StateFacts DEF Acked
  <1> QED BY <1>1, Invariance, PTL

\* Once EffectAuthority.check fails at most one more row lands in each file,
\* however many calls are between their check and their append.
THEOREM OneLateRow == Spec => []OneLateRowPerFile
  <1>1. Inv => OneLateRowPerFile BY DEF Inv, LateInv, OneLateRowPerFile
  <1> QED BY <1>1, Invariance, PTL

=============================================================================
