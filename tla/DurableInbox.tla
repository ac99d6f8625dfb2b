---------------------------- MODULE DurableInbox ----------------------------
(***************************************************************************)
(* The cursor-based reader of a role's queue, channels/shared/             *)
(* durable_inbox.ts, and its python port in mcp_servers/channel_relay.     *)
(* Every window (process) of the role drains the same append-only file     *)
(* from its own cursor file.  A window without one starts at the role's    *)
(* high-water mark.  channel.ts starts a drain every three seconds and on  *)
(* every POST /drain without waiting for the last one, so several drains   *)
(* of one window may be under way.                                         *)
(***************************************************************************)
EXTENDS Naturals, Sequences, FiniteSets

CONSTANTS
    Row,        \* queue rows; their send_id makes lines unique
    Window,     \* processes of the role, by pid
    Drain,      \* drainQueue calls that can be under way
    OwnerOf,    \* the window whose call a drain is
    Malformed,  \* a line that JSON.parse refuses
    None,
    MaxLen,     \* lines the file may have
    MaxRotate, MaxCrash, MaxThrow, MaxTear   \* fault budgets

Line == Row \union {Malformed}

ASSUME OwnerAssumption == OwnerOf \in [Drain -> Window]
ASSUME SentinelAssumption == None \notin Line /\ Malformed \notin Row
ASSUME BoundAssumption ==
    {MaxLen, MaxRotate, MaxCrash, MaxThrow, MaxTear} \subseteq Nat

VARIABLES
    file,    \* the complete lines of queue_<role>.jsonl
    torn,    \* the file ends in a residue without a newline
    cursor,  \* cursor_<role>_<pid>.json of each window
    mark,    \* cursor_<role>_role.json
    drain,   \* the drainQueue calls
    alive,   \* the windows that are running
    seen,    \* history: the rows each window has handled
    past,    \* history: the rows each window was seeded past
    used,    \* history: the rows that have been appended
    faults   \* history: how much of each fault budget is used

vars == <<file, torn, cursor, mark, drain, alive, seen, past, used, faults>>

Cursor == [line: Nat, anchor: Line \union {None}]
Idle == [pc |-> "idle", line |-> 0, own |-> None, lines |-> <<>>]
Pc == {"idle", "seeded", "resync", "handling", "marking"}

TypeOK ==
    /\ file \in Seq(Line) /\ Len(file) <= MaxLen
    /\ torn \in BOOLEAN
    /\ cursor \in [Window -> Cursor \union {None}]
    /\ mark \in Nat \union {None}
    /\ drain \in [Drain -> [pc: Pc, line: Nat, own: Cursor \union {None},
                            lines: Seq(Line)]]
    /\ \A d \in Drain : drain[d].pc = "handling" =>
           drain[d].line \in 0 .. Len(drain[d].lines)
    /\ alive \in SUBSET Window
    /\ \A d \in Drain : drain[d].pc # "idle" => OwnerOf[d] \in alive
    /\ seen \in [Window -> SUBSET Row] /\ past \in [Window -> SUBSET Row]
    /\ used \in SUBSET Row
    /\ faults \in [rotate: Nat, crash: Nat, throw: Nat, tear: Nat]

Init ==
    /\ file = <<>> /\ torn = FALSE
    /\ cursor = [w \in Window |-> None] /\ mark = None
    /\ drain = [d \in Drain |-> Idle]
    /\ alive = {}
    /\ seen = [w \in Window |-> {}] /\ past = [w \in Window |-> {}]
    /\ used = {}
    /\ faults = [rotate |-> 0, crash |-> 0, throw |-> 0, tear |-> 0]

-----------------------------------------------------------------------------
At(d, p) == drain[d].pc = p
W(d) == OwnerOf[d]

\* The rows in the first n lines of s.
Upto(s, n) == {s[i] : i \in (1 .. n) \intersect DOMAIN s} \ {Malformed}

\* loadRoleCheckpoint: 0 if there is no checkpoint file.
MarkLine == IF mark = None THEN 0 ELSE mark

\* anchorOf the last processed line, "" if there is none.
AnchorAt(s, n) == IF n \in 1 .. Len(s) THEN s[n] ELSE None

Spend(kind, max) ==
    /\ faults[kind] < max
    /\ faults' = [faults EXCEPT ![kind] = @ + 1]

-----------------------------------------------------------------------------
(* drainQueue.                                                             *)

\* Deviation: a window without a cursor starts at the end of the queue.
WrongSeed(d) ==
    IF cursor[W(d)] # None THEN cursor[W(d)].line ELSE Len(file)

\* Own cursor, else the role's mark, else line 0.
SeedLine(d) == IF cursor[W(d)] # None THEN cursor[W(d)].line ELSE MarkLine

Seed(d) ==
    /\ W(d) \in alive /\ At(d, "idle")
    /\ drain' = [drain EXCEPT ![d].pc = "seeded", ![d].own = cursor[W(d)],
                              ![d].line = SeedLine(d)]
    /\ UNCHANGED <<file, torn, cursor, mark, alive, seen, past, used, faults>>

\* The cursor is beyond the queue, or the line it stands behind is another.
Desync(d, s) ==
    LET n == drain[d].line  own == drain[d].own IN
    \/ n > Len(s)
    \/ /\ own # None /\ n > 0
       /\ own.anchor # None /\ AnchorAt(s, n) # own.anchor

\* completeLines leaves the torn tail out.  In step, the drain goes on from
\* its line; a window's first drain has been seeded past the lines before.
Read(d) ==
    /\ At(d, "seeded")
    /\ drain' = [drain EXCEPT
           ![d].pc = IF Desync(d, file) THEN "resync" ELSE "handling",
           ![d].lines = file]
    /\ past' = IF drain[d].own = None /\ ~Desync(d, file)
               THEN [past EXCEPT ![W(d)] = @ \union Upto(file, drain[d].line)]
               ELSE past
    /\ UNCHANGED <<file, torn, cursor, mark, alive, seen, used, faults>>

\* Deviation: out of step, it goes to the end of the queue.
WrongResync(d) ==
    /\ At(d, "resync")
    /\ drain' = [drain EXCEPT ![d].pc = "handling",
                              ![d].line = Len(drain[d].lines)]
    /\ mark' = 0
    /\ UNCHANGED <<file, torn, cursor, alive, seen, past, used, faults>>

\* Out of step, it starts at line 0 and forces the role's mark to 0.
Resync(d) ==
    /\ At(d, "resync")
    /\ drain' = [drain EXCEPT ![d].pc = "handling", ![d].line = 0]
    /\ mark' = 0
    /\ UNCHANGED <<file, torn, cursor, alive, seen, past, used, faults>>

More(d) == At(d, "handling") /\ drain[d].line < Len(drain[d].lines)
NextLine(d) == drain[d].lines[drain[d].line + 1]

\* The handler took the event, or the line does not parse and is skipped.
Handle(d) ==
    /\ More(d)
    /\ drain' = [drain EXCEPT ![d].line = @ + 1]
    /\ seen' = [seen EXCEPT ![W(d)] = @ \union ({NextLine(d)} \ {Malformed})]
    /\ UNCHANGED <<file, torn, cursor, mark, alive, past, used, faults>>

\* saveCursor, and the load and comparison of saveRoleCheckpoint: the mark is
\* written, in a step of its own, only by a drain that found it lower.
Save(d, n) ==
    /\ cursor' = [cursor EXCEPT ![W(d)] =
           [line |-> n, anchor |-> AnchorAt(drain[d].lines, n)]]
    /\ drain' = [drain EXCEPT ![d] =
           IF n > MarkLine THEN [Idle EXCEPT !.pc = "marking", !.line = n]
                           ELSE Idle]

HandledAll(d) ==
    /\ At(d, "handling") /\ ~More(d)
    /\ Save(d, drain[d].line)
    /\ UNCHANGED <<file, torn, mark, alive, seen, past, used, faults>>

\* The handler raised: the cursor is held at this event.
Throw(d) ==
    /\ More(d) /\ NextLine(d) # Malformed
    /\ Spend("throw", MaxThrow)
    /\ Save(d, drain[d].line)
    /\ UNCHANGED <<file, torn, mark, alive, seen, past, used>>

WriteMark(d) ==
    /\ At(d, "marking")
    /\ mark' = drain[d].line
    /\ drain' = [drain EXCEPT ![d] = Idle]
    /\ UNCHANGED <<file, torn, cursor, alive, seen, past, used, faults>>

-----------------------------------------------------------------------------
(* Windows and writers.                                                    *)

\* cleanupDeadCursors at the start of a process: cursors of dead pids go.  A
\* pid that is used again finds the cursor of its predecessor, if any.
Start(w) ==
    /\ w \notin alive
    /\ alive' = alive \union {w}
    /\ cursor' = [v \in Window |-> IF v \in alive' THEN cursor[v] ELSE None]
    /\ UNCHANGED <<file, torn, mark, drain, seen, past, used, faults>>

Crash(w) ==
    /\ w \in alive /\ Spend("crash", MaxCrash)
    /\ alive' = alive \ {w}
    /\ drain' = [d \in Drain |-> IF W(d) = w THEN Idle ELSE drain[d]]
    /\ UNCHANGED <<file, torn, cursor, mark, seen, past, used>>

\* A sender repairs a torn tail, which turns it into a malformed line.
AppendRow(r) ==
    LET added == IF torn THEN <<Malformed, r>> ELSE <<r>> IN
    /\ r \notin used /\ Len(file \o added) <= MaxLen
    /\ file' = file \o added /\ torn' = FALSE
    /\ used' = used \union {r}
    /\ UNCHANGED <<cursor, mark, drain, alive, seen, past, faults>>

\* A writer dies in its append.
Tear ==
    /\ Spend("tear", MaxTear)
    /\ torn' = TRUE
    /\ UNCHANGED <<file, cursor, mark, drain, alive, seen, past, used>>

\* The queue is truncated, or its oldest lines are removed.
Rotate ==
    /\ Spend("rotate", MaxRotate)
    /\ \E n \in 1 .. Len(file) : file' = SubSeq(file, n + 1, Len(file))
    /\ torn' = FALSE
    /\ UNCHANGED <<cursor, mark, drain, alive, seen, past, used>>

DrainStep(d) ==
    \/ Seed(d) \/ Read(d) \/ Resync(d)
    \/ Handle(d) \/ HandledAll(d) \/ WriteMark(d)

Next ==
    \/ \E d \in Drain : DrainStep(d) \/ Throw(d)
    \/ \E w \in Window : Start(w) \/ Crash(w)
    \/ \E r \in Row : AppendRow(r)
    \/ Tear \/ Rotate

Spec == Init /\ [][Next]_vars

\* Every drain call runs on, and a live window starts one every three seconds.
FairSpec == Spec /\ \A d \in Drain : WF_vars(DrainStep(d))

-----------------------------------------------------------------------------
(* Properties.                                                             *)

Handled == UNION {seen[w] : w \in Window}

\* "a fresh pid resumes where the ROLE left off [...] catching gap events"
\* (durable_inbox.py:173): the rows that a new window skips have all been
\* handled by some window of the role, whatever drains overlapped, crashed
\* between the cursor and the mark, or were held at an event.  The mark has no
\* anchor, so this is about queues that are not rotated (MaxRotate = 0).
ResumesWhereRoleLeftOff == \A w \in Window : past[w] \subseteq Handled

\* The anchor: a cursor that the next drain takes for in step with the queue
\* stands behind rows that this window has handled, or was seeded past, also
\* when the file was rotated and has grown past the cursor since.
InStep(w) ==
    /\ cursor[w] # None /\ cursor[w].line <= Len(file)
    /\ cursor[w].anchor = AnchorAt(file, cursor[w].line)

AnchoredCursorIsSound ==
    \A w \in Window : InStep(w) =>
        Upto(file, cursor[w].line) \subseteq seen[w] \union past[w]

\* Every row in the queue reaches every window that keeps running, after a
\* handler raised, a torn line or a rotation of the queue under its cursor,
\* unless the row was rotated away first or the window was seeded past it.
EveryWindowSeesEveryRow ==
    \A w \in Window : \A r \in Row :
        (r \in Upto(file, Len(file)) /\ w \in alive) ~>
            \/ r \in seen[w] \union past[w]
            \/ r \notin Upto(file, Len(file)) \/ w \notin alive
=============================================================================
