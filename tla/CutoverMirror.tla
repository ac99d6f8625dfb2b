---------------------------- MODULE CutoverMirror ----------------------------
(***************************************************************************)
(* The cutover state of each role: the database registry is canonical,     *)
(* kernel_cutover.json is its local projection, and a relay caches what it *)
(* read (company_message_plane/client.py, company_cutover_mirror.py and    *)
(* get_cutover_state of kernel_plane_bridge.py).  A state is represented   *)
(* by the number of the set_cutover that committed it, 0 for the seeded    *)
(* file_bus_only, so that older and newer can be told apart.               *)
(***************************************************************************)
EXTENDS Naturals

CONSTANTS
    Role,      \* roles in the registry
    Setter,    \* processes in set_cutover
    Relay,     \* relay processes that call get_cutover_state
    None,
    TTL,       \* _CACHE_TTL_SEC, in ticks
    MaxSet,    \* set_cutover commits
    MaxUnread, \* reads of the mirror that fail
    MaxClock

Process == Setter \union Relay

VARIABLES
    db,         \* kernel_company_message_cutover_registry
    mirror,     \* kernel_cutover.json
    proc,       \* the call each process is in
    cache,      \* _cutover_cache of each relay
    clock,      \* time.monotonic
    unread,     \* reads of the mirror that failed so far
    confirmed   \* history: when a set_cutover returned, and what it had set

vars == <<db, mirror, proc, cache, clock, unread, confirmed>>

State == 0 .. MaxSet
Mirror == [Role -> State]
Idle == [pc |-> "idle", role |-> None, at |-> 0, value |-> 0, data |-> None]
Pc == {"idle", "waiting", "locked", "project", "replace", "fallback", "answer"}

TypeOK ==
    /\ db \in [Role -> State] /\ mirror \in Mirror
    /\ proc \in [Process -> [pc: Pc, role: Role \union {None},
                             at: 0 .. MaxClock, value: State,
                             data: Mirror \union {None}]]
    /\ \A p \in Process : proc[p].pc = "replace" => proc[p].data \in Mirror
    /\ cache \in [Relay -> [Role -> [at: 0 .. MaxClock, value: State]
                                        \union {None}]]
    /\ clock \in 0 .. MaxClock /\ unread \in 0 .. MaxUnread
    /\ confirmed \subseteq Role \X State \X (0 .. MaxClock)

Init ==
    /\ db = [r \in Role |-> 0] /\ mirror = [r \in Role |-> 0]
    /\ proc = [p \in Process |-> Idle]
    /\ cache = [p \in Relay |-> [r \in Role |-> None]]
    /\ clock = 0 /\ unread = 0 /\ confirmed = {}

-----------------------------------------------------------------------------
At(p, c) == proc[p].pc = c
R(p) == proc[p].role
Goto(p, c) == proc' = [proc EXCEPT ![p].pc = c]
Return(p) == proc' = [proc EXCEPT ![p] = Idle]

\* Deviation: no lock around the database operation and its projection.
WrongLockFree == TRUE

\* locked_cutover_mirror: one flock from before the database operation until
\* after the projection.
LockFree == \A p \in Process : ~(proc[p].pc \in {"locked", "project", "replace"})

-----------------------------------------------------------------------------
(* set_cutover and get_cutover_state.                                      *)

SetCutover(p, r) ==
    /\ p \in Setter /\ At(p, "idle")
    /\ proc' = [proc EXCEPT ![p].pc = "waiting", ![p].role = r]
    /\ UNCHANGED <<db, mirror, cache, clock, unread, confirmed>>

Fresh(p, r) == cache[p][r] # None /\ clock - cache[p][r].at < TTL

GetCutoverState(p, r) ==
    /\ p \in Relay /\ At(p, "idle")
    /\ proc' = [proc EXCEPT ![p] = [Idle EXCEPT
           !.pc = IF Fresh(p, r) THEN "answer" ELSE "waiting",
           !.role = r, !.at = clock,
           !.value = IF Fresh(p, r) THEN cache[p][r].value ELSE 0]]
    /\ UNCHANGED <<db, mirror, cache, clock, unread, confirmed>>

Lock(p) ==
    /\ At(p, "waiting") /\ LockFree
    /\ Goto(p, "locked")
    /\ UNCHANGED <<db, mirror, cache, clock, unread, confirmed>>

\* The number of the last commit.
Latest == CHOOSE n \in State : /\ \E r \in Role : db[r] = n
                               /\ \A r \in Role : db[r] <= n

\* The upsert of the registry and its commit.
Commit(p) ==
    /\ p \in Setter /\ At(p, "locked") /\ Latest < MaxSet
    /\ db' = [db EXCEPT ![R(p)] = Latest + 1]
    /\ proc' = [proc EXCEPT ![p].pc = "project", ![p].value = Latest + 1]
    /\ UNCHANGED <<mirror, cache, clock, unread, confirmed>>

\* The commit is done and its acknowledgment is lost: set_cutover raises.
CommitUnknown(p) ==
    /\ p \in Setter /\ At(p, "locked") /\ Latest < MaxSet
    /\ db' = [db EXCEPT ![R(p)] = Latest + 1]
    /\ Return(p)
    /\ UNCHANGED <<mirror, cache, clock, unread, confirmed>>

GetCutover(p) ==
    /\ p \in Relay /\ At(p, "locked")
    /\ proc' = [proc EXCEPT ![p].pc = "project", ![p].value = db[R(p)]]
    /\ UNCHANGED <<db, mirror, cache, clock, unread, confirmed>>

\* The database or the lock is out of reach: set_cutover raises, a relay
\* reads the mirror.
DatabaseFails(p) ==
    /\ proc[p].pc \in {"waiting", "locked"}
    /\ IF p \in Relay THEN Goto(p, "fallback") ELSE Return(p)
    /\ UNCHANGED <<db, mirror, cache, clock, unread, confirmed>>

\* read_cutover_mirror of a projection that cannot be read: every role is
\* inactive.
Unreadable == [r \in Role |-> 0]

\* read_cutover_mirror: data is the projection, or the default.
MirrorRead(data) ==
    \/ data = mirror /\ UNCHANGED unread
    \/ data = Unreadable /\ unread < MaxUnread /\ unread' = unread + 1

\* _write_locked reads the whole projection and replaces it.
LoadMirror(p) ==
    /\ At(p, "project")
    /\ \E data \in {mirror, Unreadable} :
           MirrorRead(data)
           /\ proc' = [proc EXCEPT ![p].pc = "replace", ![p].data = data]
    /\ UNCHANGED <<db, mirror, cache, clock, confirmed>>

\* The call is over: set_cutover returns, a relay caches what it read with
\* the time at which it asked.
Done(p) ==
    IF p \in Setter
    THEN /\ confirmed' = confirmed \union {<<R(p), proc[p].value, clock>>}
         /\ Return(p) /\ UNCHANGED cache
    ELSE /\ cache' = [cache EXCEPT ![p][R(p)] =
                          [at |-> proc[p].at, value |-> proc[p].value]]
         /\ proc' = [proc EXCEPT ![p].pc = "answer", ![p].data = None]
         /\ UNCHANGED confirmed

ReplaceMirror(p) ==
    /\ At(p, "replace")
    /\ mirror' = [proc[p].data EXCEPT ![R(p)] = proc[p].value]
    /\ Done(p)
    /\ UNCHANGED <<db, clock, unread>>

\* The projection fails: set_cutover raises after its commit, a relay goes on
\* with the canonical value.
ProjectionFails(p) ==
    /\ proc[p].pc \in {"project", "replace"}
    /\ IF p \in Setter THEN Return(p) /\ UNCHANGED <<cache, confirmed>>
                       ELSE Done(p)
    /\ UNCHANGED <<db, mirror, clock, unread>>

\* read_cutover_mirror, without the lock: os.replace makes it atomic.
ReadMirror(p) ==
    /\ At(p, "fallback")
    /\ \E data \in {mirror, Unreadable} :
           /\ MirrorRead(data)
           /\ proc' = [proc EXCEPT ![p].pc = "answer", ![p].value = data[R(p)]]
           /\ cache' = [cache EXCEPT ![p][R(p)] =
                            [at |-> proc[p].at, value |-> data[R(p)]]]
    /\ UNCHANGED <<db, mirror, clock, confirmed>>

\* The caller uses the answer: to dual-write, to claim, or not to.
Answer(p) ==
    /\ At(p, "answer") /\ Return(p)
    /\ UNCHANGED <<db, mirror, cache, clock, unread, confirmed>>

\* A process dies and its flock with it.
Crash(p) ==
    /\ ~At(p, "idle") /\ Return(p)
    /\ cache' = IF p \in Relay
                THEN [cache EXCEPT ![p] = [r \in Role |-> None]] ELSE cache
    /\ UNCHANGED <<db, mirror, clock, unread, confirmed>>

Tick ==
    /\ clock < MaxClock /\ clock' = clock + 1
    /\ UNCHANGED <<db, mirror, proc, cache, unread, confirmed>>

Next ==
    \/ \E p \in Process :
           \/ \E r \in Role : SetCutover(p, r) \/ GetCutoverState(p, r)
           \/ Lock(p) \/ Commit(p) \/ CommitUnknown(p)
           \/ GetCutover(p) \/ DatabaseFails(p)
           \/ LoadMirror(p) \/ ReplaceMirror(p) \/ ProjectionFails(p)
           \/ ReadMirror(p) \/ Answer(p) \/ Crash(p)
    \/ Tick

Spec == Init /\ [][Next]_vars

-----------------------------------------------------------------------------
(* Properties.                                                             *)

\* "Taking the lock before reading/changing the DB prevents a delayed snapshot
\* from replacing a later rollback" (company_cutover_mirror.py:69): once
\* set_cutover has returned, no reader, setter or failure takes the projection
\* of its role back to an older state.  A mirror that cannot be read is written
\* anew with one role (test_malformed_or_symlinked_mirror_is_inactive), so the
\* property is about mirrors that could be read.
MirrorKeepsConfirmed ==
    unread = 0 => \A c \in confirmed : mirror[c[1]] >= c[2]

\* The projection only shows states that the database has committed, whichever
\* step of set_cutover fails or is interrupted and whatever is read of the
\* mirror.
MirrorIsCommitted == \A r \in Role : mirror[r] <= db[r]

\* A relay that asks TTL or more after a set_cutover has returned acts on that
\* state or a later one, whether it reads its cache, the database or, with
\* the database out of reach, the mirror, if it can be read.
AnswersAreCurrent ==
    \A p \in Relay : unread = 0 /\ At(p, "answer") =>
        \A c \in confirmed :
            c[1] = R(p) /\ c[3] + TTL <= proc[p].at => proc[p].value >= c[2]
=============================================================================
