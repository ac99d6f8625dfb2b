----------------------------- MODULE SendReceipt -----------------------------
(***************************************************************************)
(* The receipt-or-loud append to a role's queue_<role>.jsonl.  It exists   *)
(* twice: appendLineWithReceipt of channels/shared/send_receipt.ts, which  *)
(* runs in the bun daemons and takes no lock, and _append_row_durable of   *)
(* mcp_servers/channel_relay/server.py, which holds the file's flock from  *)
(* the size it records to the row it reads back.  Both append to the same  *)
(* files, and a writer that dies or runs out of space leaves a residue     *)
(* without a newline.                                                      *)
(***************************************************************************)
EXTENDS Naturals, Sequences

CONSTANTS
    Row,       \* rows to send; a row's send_id makes it unique
    Bun,       \* bun daemons
    Relay,     \* python relay processes
    Torn,      \* the residue of a write that did not get through its row
    Newline,   \* a newline written to repair a torn tail
    None,
    MaxFault,  \* writes that fail and writers that die
    MaxSync    \* fsyncs that fail

Writer == Bun \union Relay

\* The residue of a write that lost only its newline: all of the row's text.
Cut(r) == [cut |-> r]

Token == Row \union [cut: Row] \union {Torn, Newline}

VARIABLES
    file,    \* the queue file as the pieces appended to it
    writer,  \* what each process is doing
    result,  \* what the caller was told about each row
    faults   \* history: how many faults of each kind have happened

vars == <<file, writer, result, faults>>

Idle == [pc |-> "idle", row |-> None, offset |-> 0, repair |-> FALSE]
Pc == {"idle", "opened", "inspected", "written"}

TypeOK ==
    /\ file \in Seq(Token)
    /\ writer \in [Writer -> [pc: Pc, row: Row \union {None}, offset: Nat,
                              repair: BOOLEAN]]
    /\ result \in [Row -> {"none", "sending", "ok", "failed"}]
    /\ \A w \in Writer : writer[w].pc # "idle" =>
           writer[w].row \in Row /\ result[writer[w].row] = "sending"
    /\ faults \in [write: 0 .. MaxFault, sync: 0 .. MaxSync]

Init ==
    /\ file = <<>>
    /\ writer = [w \in Writer |-> Idle]
    /\ result = [r \in Row |-> "none"]
    /\ faults = [write |-> 0, sync |-> 0]

-----------------------------------------------------------------------------
(* Lines of the file.  A row carries its own newline; residues have none.  *)

LineStart(i) == i = 1 \/ file[i - 1] \in Row \union {Newline}

\* The bytes of row r and a newline begin with piece i: a row that was written
\* whole, or one that lost its newline and got a repair right behind it.
Whole(i, r) ==
    \/ file[i] = r
    \/ file[i] = Cut(r) /\ i < Len(file) /\ file[i + 1] = Newline

\* Consumers parse a line of its own that ends in a newline.
LineAt(i, r) == LineStart(i) /\ Whole(i, r)
Readable(r) == \E i \in 1 .. Len(file) : LineAt(i, r)

\* The file ends in the text of row r, on a line of its own, without a newline.
Unended(r) ==
    Len(file) > 0 /\ file[Len(file)] = Cut(r) /\ LineStart(Len(file))

TornTail == Len(file) > 0 /\ file[Len(file)] \notin Row \union {Newline}

At(w, p) == writer[w].pc = p
RowOf(w) == writer[w].row

\* flock(LOCK_EX): only the python writers take it.
FlockFree == \A w \in Relay : At(w, "idle")

Fault == faults.write < MaxFault /\ faults' = [faults EXCEPT !.write = @ + 1]

Finish(w, verdict) ==
    /\ writer' = [writer EXCEPT ![w] = Idle]
    /\ result' = [result EXCEPT ![RowOf(w)] = verdict]

-----------------------------------------------------------------------------
(* The append.                                                             *)

\* Deviation: send_ids without the per-restart nonce, so two daemons may send
\* rows with the same one.
WrongOpen(w, r) ==
    /\ At(w, "idle")
    /\ w \in Relay => FlockFree
    /\ writer' = [writer EXCEPT ![w].pc = "opened", ![w].row = r]
    /\ result' = [result EXCEPT ![r] = "sending"]
    /\ UNCHANGED <<file, faults>>

\* A fresh send_id (role, pid and start time, counter), then open and lock.
Open(w, r) ==
    /\ At(w, "idle") /\ result[r] = "none"
    /\ w \in Relay => FlockFree
    /\ writer' = [writer EXCEPT ![w].pc = "opened", ![w].row = r]
    /\ result' = [result EXCEPT ![r] = "sending"]
    /\ UNCHANGED <<file, faults>>

\* fstat and the last byte; the row is expected behind the repair.
Inspect(w) ==
    /\ At(w, "opened")
    /\ writer' = [writer EXCEPT
           ![w].pc = "inspected", ![w].repair = TornTail,
           ![w].offset = IF TornTail THEN Len(file) + 1 ELSE Len(file)]
    /\ UNCHANGED <<file, result, faults>>

Repair(w) == IF writer[w].repair THEN <<Newline>> ELSE <<>>

\* Deviation: the row is written at the recorded size, not with O_APPEND.
WrongWrite(w) ==
    /\ At(w, "inspected")
    /\ file' = SubSeq(file, 1, writer[w].offset - Len(Repair(w)))
              \o Repair(w) \o <<RowOf(w)>>
    /\ writer' = [writer EXCEPT ![w].pc = "written"]
    /\ UNCHANGED <<result, faults>>

\* The repair and the row in one O_APPEND write.
Write(w) ==
    /\ At(w, "inspected")
    /\ file' = file \o Repair(w) \o <<RowOf(w)>>
    /\ writer' = [writer EXCEPT ![w].pc = "written"]
    /\ UNCHANGED <<result, faults>>

\* What a write that does not complete leaves: nothing, a part or all of the
\* row's text, behind the repair.
Residue(w) ==
    \E rest \in {<<>>, <<Torn>>, <<Cut(RowOf(w))>>} :
        file' = file \o Repair(w) \o rest

\* The disk is full: writeSync returns a short count, which the bun code
\* does not look at; python's flush raises.
ShortWrite(w) ==
    /\ At(w, "inspected") /\ Fault
    /\ Residue(w)
    /\ IF w \in Bun
       THEN /\ writer' = [writer EXCEPT ![w].pc = "written"]
            /\ UNCHANGED result
       ELSE Finish(w, "failed")

\* open, fstat, read or write fails before anything is written.
AppendFails(w) ==
    /\ writer[w].pc \in {"opened", "inspected"} /\ Fault
    /\ Finish(w, "failed")
    /\ UNCHANGED file

\* Byte equality with the row and its newline at the recorded offset.
ExactAt(w) ==
    writer[w].offset < Len(file) /\ Whole(writer[w].offset + 1, RowOf(w))

\* readBackAtOffset splits what is behind the offset at the newlines if the
\* row is not there, and takes a last chunk that no newline ends as well;
\* _append_row_durable has only the exact comparison.
ScanFrom(w) ==
    \E i \in writer[w].offset + 1 .. Len(file) :
        /\ i = writer[w].offset + 1 \/ LineStart(i)
        /\ \/ Whole(i, RowOf(w))
           \/ i = Len(file) /\ file[i] = Cut(RowOf(w))

ReadBack(w) == ExactAt(w) \/ (w \in Bun /\ ScanFrom(w))

Verify(w) ==
    /\ At(w, "written")
    /\ Finish(w, IF ReadBack(w) THEN "ok" ELSE "failed")
    /\ UNCHANGED <<file, faults>>

\* fsync raises after the row was written.
SyncFails(w) ==
    /\ At(w, "written")
    /\ faults.sync < MaxSync /\ faults' = [faults EXCEPT !.sync = @ + 1]
    /\ Finish(w, "failed")
    /\ UNCHANGED file

\* The process dies, and a write it was in leaves part of its bytes.
Die(w) ==
    /\ ~At(w, "idle") /\ Fault
    /\ \/ UNCHANGED file
       \/ At(w, "inspected") /\ Residue(w)
    /\ writer' = [writer EXCEPT ![w] = Idle]
    /\ UNCHANGED result

AppendRow(w) ==
    \/ \E r \in Row : Open(w, r)
    \/ Inspect(w) \/ Write(w) \/ Verify(w)
    \/ ShortWrite(w) \/ AppendFails(w) \/ SyncFails(w) \/ Die(w)

Next == \E w \in Writer : AppendRow(w)

Spec == Init /\ [][Next]_vars

-----------------------------------------------------------------------------
(* Properties.                                                             *)

\* Whatever other writers append or leave torn between the size, the write and
\* the read-back: a row whose sender was told ok is a line that every consumer
\* of the queue can parse, or its write stopped right before the newline.  The
\* second case is short of what send_receipt.ts says ("COMPLETE and PARSEABLE",
\* "NEVER a false ok"); the scan of readBackAtOffset lets it through.
OkMeansComplete ==
    \A r \in Row : result[r] = "ok" =>
        \/ Readable(r)
        \/ \E i \in 1 .. Len(file) : LineStart(i) /\ file[i] = Cut(r)

\* No later append, repair or residue makes a readable row unreadable: the
\* only kind of write is an append, and a row ends with its own newline.
ReadableStays == [][\A r \in Row : Readable(r) => Readable(r)']_vars

\* What a writer reports of its write: python's ok means a line that consumers
\* parse; bun's means that or the unended last line, and it misses neither.  The
\* scan behind the offset settles the race with writers, locked or not, that
\* append between its size and its write.
VerdictIsTrue ==
    [][\A w \in Writer : Verify(w) =>
           /\ w \in Relay /\ result'[RowOf(w)] = "ok" => Readable(RowOf(w))
           /\ w \in Bun => (result'[RowOf(w)] = "ok" <=>
                                Readable(RowOf(w)) \/ Unended(RowOf(w)))]_vars

\* "SEND FAILED - NOT delivered to queue_<role>" (channel.ts:188, server.py:
\* 480): the caller is told to deliver the message in another way, so a row
\* that failed must not be read by a consumer.
FailedMeansNotDelivered ==
    \A r \in Row : result[r] = "failed" => ~Readable(r)
=============================================================================
