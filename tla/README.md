# A TLA+ development for cc-suite

cc-suite is a governed multi-agent runtime: admitted agent processes act on a
checkout, on message queues and on a PostgreSQL kernel only through brokers that
check a live authority, journal what they are about to do, and recover what a
crash interrupted.  This directory models those protocols, checks them with TLC
and proves the central results with TLAPS.  Definitions keep the names of the
code where they can; `PROJECT.json` maps every definition to its lines.

## 1. The system

| part | state | operations | talks to |
| --- | --- | --- | --- |
| effect broker, workspace effects (`scripts/company_scribe_effect_broker.py`) | effect journal, job table, mutation lock; the checkout, branch and index it shares | workspace_write, _edit, _mkdir, _command, _commit; recovery at start | authority (admission), checkout, guardian |
| effect broker, channel effects (same file) | effect journal; queue, audit and delivery files | channel_send, channel_reply; recovery at start | webhook (shared delivery journal), agents (queues) |
| command guardian (same file) | guardian and command processes, watchdog, gates, heartbeat and status pipes, the command's record | spawn, register, release, watch, fence, kill, report; recovery of a running record | broker journal, authority |
| scribe webhook and delivery store (`channels/scribe`) | in-memory projection of the delivery journal, in-flight map, source cursors | ensurePending, notify, markDelivered, acknowledge through the broker, retry at start | broker, source queues |
| durable inbox, send receipts (`channels/shared`, `mcp_servers/channel_relay`) | queue files, per-process cursors, role checkpoint | append with receipt, drain, resync | agents, relay |
| message plane (`company_message_plane`, ddl 062, 065) | messages, leases, per-recipient sequence | send, claim, consume | kernel database |
| cutover mirror and kernel bridge | local projection of the cutover state, its lock | set, read, dual write | message plane, relay |
| scribe admission and supervisor (`fleet_kernel/company_scribe_*.py`, ddl 025, 039) | session, admission and intent rows; ACTIVE.json, lease pointer, restart request, write-once receipts; runtime.lock | launch, prepare, admit, tick (renew, fence, restart), rollback | database, runtime process, broker's authority |
| role admission and supervisor (`company_role_runtime.py` and the role half of the same files, ddl 031, 040, 075) | the same without a lease pointer | launch, prepare, admit, tick | database, runtime process |
| release packages (`company_scribe_admission.py`, ddl 031) | output directory, install roots, HELD and ROLLBACK pointers, package rows | build, install, register, rollback | database |
| company workspace (`company_workspace*.py`, ddl 020) | versioned objectives, events, reviews | create, transition, review, complete | database |
| shared state m2-m8, evaluation plane, identity and founder authority | leases, outbox, handoffs, approvals, spend, queues, qualification records, keys | one store and its migrations each | database |

The behaviours that are hard are the same everywhere: two threads or processes
between a check and the act it guards; a crash between a journal record and the
mutation it announces; a retry of something already done; an authority that
lapses at the wrong moment; a record that can be left behind and never resolved.
`PROJECT.json` lists them under "hazards" at the line where each one bites.

What makes the parts correct:

* broker: an effect lands at most once and only from the state it was planned
  on; effects are serialized; a failed effect left nothing, a completed one
  landed; a lapsed authority stops mutations; recovery always ends;
* channels: a row is appended once; an acknowledgment is final and the delivery
  journal stays loadable; no event is lost or notified before it is durable;
* message plane: gapless sequences, one live lease per message, every
  message consumed by one claimant;
* command guardian: behind a terminal record nothing runs, a running command can
  be found by whoever survives, and every command stops in the end;
* admission: one process has authority; only a lost one is fenced; a begun
  fence is carried through; a recovery rests on complete evidence;
* packages: what becomes current was verified, and can be rolled back to what
  was current before;
* workspace: completion only with a review of the exact version.

## 2. The modules

| module | stands for |
| --- | --- |
| `EffectBroker` | the workspace half of the broker: threads, journal, lock and gate, command supervisor, recovery |
| `SerializedEffects` | what the broker promises its callers |
| `EffectBrokerRefinement` | the refinement mapping from the first to the second |
| `EffectBrokerProofs` | theorems about `EffectBroker`: lock and gate, records, late mutations |
| `EffectBrokerRefinementProofs` | the proof of the refinement |
| `ChannelEffects` | the channel half of the broker |
| `ChannelEffectsProofs` | theorems about `ChannelEffects` |
| `SendReceipt` | the receipt-or-loud append to a queue, by bun and python writers |
| `DurableInbox` | the cursors and the high-water mark with which a role's windows read its queue |
| `MessagePlane` | send, claim and consume of the database's message plane, and their callers |
| `CutoverMirror` | the cutover registry, its local projection and the relays' cache |
| `CommandGuardian` | one sandboxed command: worker, watchdog, guardian, command, recovery |
| `CommandGuardianProofs` | theorems about `CommandGuardian` |
| `ScribeAdmission` | launch, admission, renewal, fence and restart of the scribe |
| `RoleAdmission` | the same for a company role |
| `ScribeAdmissionProofs`, `RoleAdmissionProofs` | theorems about the two |
| `Packages` | build, installation, registration and rollback of release packages |
| `MCStores` | `SendReceipt`, `DurableInbox`, `CutoverMirror` and `Packages` for TLC |
| `StoresProofs` | theorems about these four |
| `MCQueues` | `MessagePlane` and `DurableInbox` under fairness for TLC |
| `QueuesProofs` | theorems about these two |
| `MCEffectBroker`, `MCChannelEffects`, `MCCommandGuardian`, `MCScribeAdmission`, `MCRoleAdmission`, `MCSendReceipt` | the other instances |

### EffectBroker

`journal` has one record per effect_id (`effect-journal/<sha>.json`), with the
prestate and the desired state a replay compares.  `thread` holds the connection
threads and the recovery; each is at one point of its handler.  `mutex` is
`_WORKSPACE_MUTATION_LOCK`, `jobs` the command supervisor's table.  `fs`, `branch`
and `index` are the checkout.  A commit is its ancestry: a branch is the sequence
of its commits, so that two commits are equal exactly when their hashes are.

A tool call is a sequence of actions whose boundaries are the points at which the
code can be interrupted with a difference: the gate (`CallTool`), the journal
record (`Prepare*`, `StartCommand`, `CommandSeals`), the authority check
(`CheckAuthority`), the system call (`Apply`), the index (`CheckIndex`,
`ResetIndex`), the terminal record (`Complete`).  A replay enters at `Resume*`.
`Raise` is an exception at any of these points, `Crash` the end of the process at
any of them, `Lapse` and `Renew` the authority, `External` another writer of the
checkout (an edit, `git add`, a commit, a reset).

Decisions of the abstraction:

* a request is an identity (the code compares a hash of the arguments) with its
  path and the bytes it produces; malformed requests are refused before any
  state changes and are left out;
* `submit`'s branches for a running or publishing record that has no job are not
  modelled: the recovery resolves every record before the daemon serves, so only
  jobs of this daemon can be in those states;
* the private Git objects of a prepared commit are part of its record;
* the last re-read before `os.replace` or `update-ref` and the authority check
  next to it are one step, the system call another: the code's remaining window;
* one broker serves a state directory (the singleton lock of the supervisor).

### ChannelEffects

`log` holds the rows of each queue, of the audit log and, per event, of the
delivery journal.  A call holds its record's flock (`EffectLocked`), an append the
file's (`FileLocked`) from the scan to the write; the first row of a file is
linked into place without any lock (`CreateFile`, `LinkFile`) and the temporary
name removed afterwards (`UnlinkTemporary`).  `twice` is the set of files that have
both names: opening one of them is refused (`RefuseFile`), and only its creator, if
it lives, makes it a file that can be opened.  Timestamps are modelled because two
rows with one identity and different timestamps conflict.
The webhook's rows (`DeliveryRow`) are the environment.  Replies name events by
event_id: the webhook resolves a send_id before it calls the broker.

### SendReceipt

`file` is the queue as the sequence of pieces appended to it: rows, which end in
their own newline, the residue of a write that did not complete, and the newline
that repairs one.  A residue is a part of a row's text (`Torn`) or all of it without
the newline (`Cut`), which a repair completes to a line that consumers parse.  An append is `Open`, `Inspect` (size and last byte),
`Write` (repair and row in one O_APPEND write) and `Verify`.  A bun writer takes no
lock and, if its row is not at the recorded offset, scans behind it, where it takes
a last chunk without a newline as well (`ScanFrom`); a python writer holds the flock from `Open` to `Verify` and only compares at the offset.
`ShortWrite`, `AppendFails`, `SyncFails` and `Die` are the faults.  A bun writer
does not look at the count `writeSync` returns, so it goes on to `Verify` after a
short write.  The 4 MiB bound of the scan is left out.

### DurableInbox

`file` holds the complete lines of the queue, `torn` whether a residue follows.
Each window has a `cursor` (line and content anchor), the role has one `mark`
(line only).  A `drain` is a call of `drainQueue` with the lines it read: `Seed`,
`Read`, `Resync` if it finds itself out of step, `Handle` for each line,
`HandledAll` or `Throw`, which save the cursor and compare the mark, and
`WriteMark`.  The steps end where the code awaits or another process can step in.
`channel.ts` starts a drain every three seconds without waiting for the last one,
so a window may have several.  `seen` and `past` are history: what a window has
handled and what its first drain was seeded past.  `Rotate` (an operator's
truncation, which the code's resync exists for), `Tear` and `AppendRow` are the
environment.

### MessagePlane

A message is named by its (sender, idempotency key); `last` is the sequence row
of each recipient, `client` the transaction each client is in.  The steps of a
transaction are those another one can see or wait for: the lookup of the key
(`Send`, `SendAgain`), the locked sequence row (`Reserve`), insert and commit
(`InsertCommits`, `InsertFails`); the locked message (`ClaimLocks`) and the commit
of the lease (`ClaimCommits`); `Consumes`.  A lost connection rolls back, or
hides a commit from its caller.  Senders stand for `dual_write_send`, relays for
`claim_kernel_events`, which claims and at once consumes, and the third kind of
client for `handoff_roundtrip`.  A relay that finds its role not kernel-active, or
whose claims are refused, is `inactive` and claims nothing; `FindCutover` is what it
finds, either answer at any time.  A send depends on the cutover of the sender or
the recipient, so it may happen whatever the recipient's relay finds.  Nothing in the code reads a lease's expiry, so
leases have none here.  Payloads, byte proofs and admissions (every caller passes
`require_live_admission=False`) are abstracted.

### CutoverMirror

A state is the number of the `set_cutover` that committed it, counted over both
roles.  `set_cutover` and `get_cutover_state` take the mirror's flock (`Lock`), use
the database (`Commit`, `GetCutover`), and replace the whole projection
(`LoadMirror`, `ReplaceMirror`).  `DatabaseFails`, `CommitUnknown` (the
acknowledgment of the commit is lost) and `ProjectionFails` are the error paths,
`Crash` releases the lock, and a read of the mirror that fails yields the empty
projection.  The relay's cache keeps the time at which the relay asked, before it
read.

### CommandGuardian

`EffectBroker` sees a command as running, sealed, failed or uncertain; this module
opens that box for one command.  `worker` is the thread in
`_execute_sandboxed_command` or, after a restart, the recovery of its record:
`pc`, the outcome it will report, whether it knows the command's identity, and
whether a kill is unproved (`dirty`, `unsure`).  `guardian` and `child` are the two
processes; a pipe is the token in it.  The worker registers the guardian, waits
for a beat of the watchdog, releases the guardian, reads the child's identity,
registers it, and only then releases the child; each of these is an action, and
after each the broker may die (`BrokerDies`), the guardian be killed
(`GuardianDies`), the worker raise (`WorkerRaises`), the authority lapse or the
deadline pass.  `Fence` is the `finally` block that closes the worker's ends; the
kills, their proofs and the second attempts follow as actions, shared with the
recovery.  A timeout is not a clock: where the code waits with a bound, giving up
is a choice.  Left out: the sandbox profile (which denies fork, so the command is
one process), the snapshot of the checkout, arguments and output.

### ScribeAdmission and RoleAdmission

A candidate is one worker session with the admission row, the recovery intent and
the binding that carry its identity, named by its order.  Rows are `cand`,
`worker` (one lease token per worker, which every new session overwrites) and
`mandate`; files are `active`, `lease`, `request`, `candidate`, `bootstrap` and the
write-once artifacts `once`, which a crash may leave torn; processes are `proc` and
`holder` of runtime.lock.  Three actors run without a common lock: the supervisor's
tick, the operator's prepare and admit commands, and a rollback by hand; `act` is
where each of them is.  A rolled-back binding goes to an `Archive`: the tick uses
`revoked-bindings`, a rollback by hand that or any other directory (`aside`), and
whoever continues a rollback refuses a pointer into a directory that is not its own
(`RollbackArchive`).  Their steps end at each file and each transaction, and
`Crash` may fall between any two of them.  A `Launch` is a runtime process: lock and
bootstrap request, workspace binding, cursor migration (scribe only), wait for
admission, serve.

`RoleAdmission` is a module of its own because the code differs where it matters:
the tick fences again on every pass over a revoked pointer, the fence kills no
process and reads the database authority once more before it revokes, a missing
binding is never restored, an expired recovery candidate is never abandoned, and
by ddl 075 a lease renewed after it lapsed gives no authority before the next
renewal in time.

Merged steps and omissions: the two loads of ACTIVE.json inside `_resume` are one
step, as are a check and the write behind it for the workspace binding and the
cursor, and the lock with the bootstrap request.  The registration of a role's
admission target, the host-family gate and the profile checks are fixed
configuration; heartbeat files are left out.  Digests and signatures are the
identity of what they name.

### Packages

Operators build, install, register and roll back without a lock.  `built` and
`dest` are the bytes of a package in the output directory and in its install root:
`fresh` after the rename that publishes them, since nothing was synced, and `torn`
after a power failure.  `held` and `rollback` are the pointers, replaced one after
the other; `row` is the state of the package's row.  Others are assumed not to
change the source of a build while it runs.

## 3. The runs

| run | instance | what it shows |
| --- | --- | --- |
| `broker` | 2 effects, 2 clients, every tool on one path, 2 crashes, 1 lapse, 1 exception | effects are serialized, recovery is never wedged, failed effects left nothing, completed ones landed, one late mutation, journal records only move forward; the broker implements `SerializedEffects`; recovery ends, every call returns |
| `broker_external` | 2 effects, 1 client, 2 foreign changes, 1 crash, 1 exception | an effect lands again only if a foreign change put its prestate back; foreign changes are not overwritten by a replay |
| `channel` | 2 effects, 2 clients, one queue, one event, two verdicts, 1 crash, 1 lapse | rows once, audit after queue, delivery journal loadable, verdicts final, one late row per file; every call returns, and recovery ends unless a prepared reply was overtaken by another verdict or a crash left a file with two names |
| `channel_disagree` | two replies with different verdicts | **violated**: see Findings |
| `stores` | four stores, see below | drains: no window is seeded past, or stands behind, a row nobody handled; appends: a send reported ok is a parseable line or lacks only its newline, a parseable line stays one, python's ok is a parseable line and bun's is exactly that or an unended one; cutover: a confirmed state stays projected, only committed states are, relays act on states at most TTL old; packages: only verified bytes become current, ROLLBACK names what was held, one installed package per deployment, roots apart |
| `receipt_mixed` | one bun and one python writer, no fault | **violated**: see Findings |
| `queues` | two ways to a role, see below | database: gapless sequences, one message per key, claims in order, one delivery per message, every message consumed unless its claimant abandoned it or no relay may claim it; queue file: the anchor tells a stale cursor, every row reaches every running window |
| `guardian` | one command, 2 faults | behind a terminal record nothing runs; a running command is recorded; a result is that of a command that ended by itself; every command that must stop does, and every worker returns |
| `scribe` | 3 candidates, 2 launches, 1 event | one process has authority; a rollback receipt means that its epoch is inactive; recoveries rest on complete evidence and find the cursor's migration; a completed restart is receipted; a fence is carried through; a lapsed row whose process is healthy is renewed |
| `scribe_fence`, `scribe_stranded` | 2 candidates, 2 launches, 1 event | **violated**: see Findings |
| `role` | 3 candidates, 3 launches, 1 event | one process serves; requests and recoveries have their evidence; only lost authority is fenced; a fence ends in a request; a lapsed row is renewed or fenced |

`stores` and `queues` are compositions of modules that have no state in common.  An
interleaving of such modules can violate none of their properties that one of them
alone does not, so a behaviour chooses one store (`store`, `way`) and leaves the
others as they started: the state space is the sum of the parts, not the product.

Why the bounds suffice.  Two effects on one path are every pair of tools that can
disturb each other; a second path or branch would only add independent effects.
Two crashes reach every point of every handler and of the recovery that follows,
which may itself be interrupted.  Two foreign changes are what an A-B-A of a path
or a commit and its reset need.  In `channel` there is no budget for exceptions
because the lapse makes any step raise that checks the authority, and every later
one until the renewal; timestamps are only compared for equality and a record is
prepared once, so the first effect's is fixed (`Readings`) and the other's is equal
to it or not.  In the queues, two writers of each kind and three
rows are every race for an offset, with a row before or behind it; two windows, one
with two overlapping drains, are the role's fast and slow one, and a queue of two
lines can shrink below a cursor and grow past it again.  In the message plane a
sender and a roundtrip race for one key and for one sequence row, and the roundtrip
and the relay of one of the two roles for one message; relays of different roles
share nothing.  Two roles show
whether one role's projection disturbs the other's, and two commits whether an
older one can replace a newer one.  Two scribe packages and a role's are one to
hold and one to roll back to, beside another root, in three commands of two
operators with one death or power failure.  For a command, two faults are the
pair that is hard: broker and guardian both gone, in either order, or either with
a lapse or an exception.
Three candidates are an admitted epoch, its recovery and the one that overtakes
it; two launches (three for a role, whose fence kills nothing) are the process
and its successor.  One event is
one crash, lapse, rollback by hand, workspace change or completed mandate, on top
of the deaths of processes, which are not counted.  The fault counters, the length
of the queue, the clock and the numbers of candidates, launches, commands and
commits are the only bounds (`Max*`); for safety the theorems of section 5 lift
them.  Symmetry is used in `stores`, which checks
no liveness: no definition names a row.

A property that is a conjunction has its parts defined and explained under their
own names: `RecordsAreTrue` (`RecoveryNeverWedged`, `FailedLeavesNothing`,
`CompletedMeansApplied`), `LogsAreSound` (`SentOnce`, `AuditMeansQueued`,
`JournalLoads`), `ChannelProgress` (`RecoversUnlessBlocked`, `ChannelCallsReturn`),
`InboxIsSound` (`ResumesWhereRoleLeftOff`, `AnchoredCursorIsSound`), `SendsAreTrue`
(`OkMeansComplete`, `ReadableStays`, `VerdictIsTrue`), `MirrorIsTrue`
(`MirrorKeepsConfirmed`, `MirrorIsCommitted`, `AnswersAreCurrent`),
`PointersAreSound` (`RollbackWasHeld`, `RootsAreApart`, `OneInstalled`),
`QueuesAreSound` (`SequencesAreGapless`, `AnswersNameOneMessage`,
`AnchoredCursorIsSound`), `DeliveredOnceInOrder` (`DeliveredOnce`,
`ClaimedInOrder`), `EvidenceIsSound` (what the files of an admission are evidence
of).  A module's `TypeOK` is part of the first invariant of its run where it is not
listed by itself.

Deadlock is checked.  Where a store may stop (rows, faults and commands run out)
the compositions say so by `Rest`; only `guardian` turns the check off, because the
end of its one command is the end of its behaviour.

Fairness.  In the broker, `StartDaemon`, because the supervisor restarts its broker;
`Step(t)`, because threads are scheduled and their system calls return;
`Raise(t)` only while the authority fails, because then the check does raise;
`Renew`, an assumption about the environment: the supervisor's renewals succeed
again some day.  Clients' calls, crashes, lapses, exceptions and foreign changes
are not fair.  In `DurableInbox`, the steps of a drain and its next start are fair,
because `setInterval` starts one every three seconds; windows need not start, rows
need not come and handlers raise only finitely often.  In `MessagePlane` the steps
of a call that has begun are fair, and so is the claim of a relay that goes on
finding that it may claim, since its role's polling repeats it; what it finds, and
whether anybody sends, is not.  In `CommandGuardian` worker, guardian, recovery and
the child up to its exec are scheduled, a dead broker is started again and init
waits for zombies; nothing is assumed of the command, the clock, the authority or
the watchdog, whose check may hang in the database.  In the admissions `Tick` is
fair, because launchd starts the supervisor again and again, and so is `Started`,
the rest of a command that has begun; launched processes and operators owe nothing.

## 4. Findings

`channel_disagree`: two concurrent `channel_reply` calls with different effect_ids
and verdicts on one delivered event both journal a prepared record; one appends
its acknowledgment, and nothing can ever resolve the other.  From the next start
on, `_recover_prepared_channel_effects` raises and the daemon never serves, its
workspace effects included.  The docstring says "Finish durable channel effects
before the daemon advertises readiness."

`receipt_mixed`: the flock of the python append excludes python writers only.  A
bun append between its size and its write moves the python row behind the offset
at which it is read back, so the sender is told "SEND FAILED — NOT delivered"
about a row that is in the queue, and is told to deliver it in another way.  The
bun append has a scan for this race; the python one has none.

`scribe_fence`: the scribe's tick decides on one reading of ACTIVE.json and fences
what a second reading names.  Prepare, admit and the rollback command take no
supervisor lock, so a healthy epoch that was admitted in between is revoked: one of
a second initial candidate after a rollback by hand, or of a recovery over a
revoked pointer.  The docstring of `_admission_row_lineage_broken` says what a fence
is for: a row that is gone or not live, never a mere expired clock.  The role's
rollback re-reads the database first, and there the property (`FencesOnlyLost`)
holds.

`scribe_stranded`: an admission that dies between its row and ACTIVE.json, or whose
ACTIVE.json is overwritten by the pointer of a rollback in progress, leaves a live
row that no file names.  Every later tick resumes the old rollback and raises, and
nothing closes the row after its process has died.  A comment of ddl 025 calls
exactly this the case that closing must not make impossible.

Further defects and limits, which the models show.  The first five are the named
exceptions of properties that pass, so that the runs show them to be the only ones;
each is needed, that is, TLC refutes the property without it:

* a new queue, audit or delivery file is published by `link`, and its temporary name
  is removed by a later `unlink` (`company_scribe_effect_broker.py:3712`, `:3723`).
  A daemon that dies in between leaves a file with a link count of two.  Every later
  open of it, the recovery's included, is refused as unsafe (`:3747`), and nothing
  removes the other name: the daemon never serves again, although its docstring and
  `docs/runtime.md` promise crash recovery.  `LeftLinked` in `ChannelProgress`;
* the bun append ignores the count that `writeSync` returns.  If the write loses only
  its newline, the scan (`send_receipt.ts:90`) takes the unended last chunk for the
  row and the sender is told ok.  Consumers skip the line until a repair, and a
  writer that looked at the tail before the short write appends right behind it and
  makes both rows one unparseable line.  The file's header promises a true receipt
  or a loud failure, "NEVER a false ok".  The second case of `OkMeansComplete`;
* `kernel_claim_company_message_v1` gives every lease an expiry and counts attempts
  up to five, but it claims only queued messages, and nothing sets a leased one back
  (ddl 062, line 475).  A message whose claimant dies, loses its connection or is a
  `handoff_roundtrip` that had sent another one stays leased for ever; the bridge
  consumes at once "so the message is not re-leased forever".  `Abandoned` in
  `ConsumedOrAbandoned`;
* a send is written to the database if the sender's or the recipient's role is
  kernel-active, but a relay claims only if its own role is.  After a cutover of one
  role, messages to the others stay queued until theirs (`Unclaimed` in
  `ConsumedOrAbandoned`); the file queue has delivered them already;
* a rollback by hand has to name an archive directory.  If it is not the tick's
  `revoked-bindings`, every tick refuses the pointer it leaves
  (`company_scribe_admission.py:3456`) and no intent for the next epoch is written
  (`aside` in `FenceCompletes`).

The others are outside what the properties claim:

* the role's mark has no content anchor.  If a queue is truncated and grows past
  the mark before anybody drains it, a new window skips the new rows before the
  mark (`MaxRotate = 1` in `Stores.cfg` exhibits it), although
  `durable_inbox.py` seeds "WITHOUT dropping events".  `ResumesWhereRoleLeftOff`
  is therefore about queues that are not rotated;
* the mark that `saveRoleCheckpoint` calls MONOTONIC can move backward, since
  load, compare and write are separate steps of several processes; `stores`
  shows that the consequence is a replay, never a loss;
* a write-once artifact that a crash left torn is refused for ever; the fences and
  rows of the admissions are claimed except for it (`Torn`);
* a role's admission is not idempotent after a crash, its missing binding is never
  restored, and its recovery candidate that expired is never abandoned; a
  completed mandate blocks renewal and recovery alike;
* each prepared candidate overwrites the worker's one lease token, so that a
  renewal of the admitted session is refused from then on; `RenewsLapsedRow` and
  `LapsedRowRecovers` are about sessions that still own it;
* an install that dies between its two pointers, or one of the package that is
  already held, forgets what was held before it;
* the guardian closes its control pipe before it kills, reaps and reports
  (`company_scribe_effect_broker.py:2279`): a watchdog that ticks in between ends,
  and a command that finished is reported as fenced.  Nothing runs then, only the
  reason is wrong;
* `os.replace` is no compare-and-swap: a foreign write during the very call is lost
  (`ReplacesOnlyItsPrestate` excepts it);
* the restart's epoch receipt requires the workspace state that the rollback saw,
  and is refused for ever if a role has changed it since
  (`company_scribe_admission.py:4895`, `RestartExact`);
* a first launch that died leaves a state directory in which every later initial
  launch is refused (`company_scribe_runtime.py:1132`), by design.

Hazards that no model reaches yet: a power failure that tears the last row of a
channel file (`company_scribe_effect_broker.py:3764`); the webhook's five-second
bound on a broker call and the order of its rows and notifications
(`webhook.ts:120`, `durable_delivery.ts:519`); a queue line whose handler always
raises (`durable_inbox.ts:259`), and `pushEvent`, which swallows a failed
notification (`channel.ts:324`); the relay's daemon call and the merge of its two
planes (`server.py:480`, `kernel_plane_bridge.py:204`); the moment in which the
lock's prober holds it itself (`company_scribe_admission.py:661`), and a process
that was admitted again between a revocation and its kill
(`company_scribe_admission.py:2263`).

## 5. The proofs

Every safety property that a passing run checks, invariants and action
properties, is also a theorem: it holds for any sets of effects, clients, paths,
rows, windows and processes and any number of faults that the named assumptions
of the modules allow.  The assumptions (`RequestAssumption`, `RequestShape`,
`ClockAssumption`, `CellAssumption`, `OwnerAssumption`, `ReceiptAssumption`,
`MirrorAssumption`, `PackageAssumption`, `ClientAssumption`, `RoleAssumption`,
`InboxAssumption`, `FaultAssumption`, and each module's `SentinelAssumption` and
`BoundAssumption`) give constants their sorts, keep sentinels apart from values
and bounds natural; TLC evaluates them in the runs.  Three theorems have a
hypothesis beside these, named with them below: `BrokerRefines` (and
`BrokerRefinesAlone`), `InboxSound` and `QueuesSound`.

None of the properties is inductive by itself.  Each proof has an inductive
invariant, one case or lemma per action, and lemmas on what the shared writes
(leaving a handler, replacing a record, appending a row) preserve.  An action
property follows from the invariant and the same case split.

### The workspace broker

`EffectBrokerProofs`:

* `TypeCorrect`, `Serialized`: `Spec => []TypeOK`, `Spec => []AtMostOneUnresolved`;
* `JournalIsTrue`: `Spec => []RecordsAreTrue`;
* `LandsOnce`: `Spec => []AppliedAtMostOnce`;
* `OneLateMutation`: `Spec => []AtMostOneLateMutation`;
* `ReplacesPrestate`, `JournalForward`: `Spec => ReplacesOnlyItsPrestate`,
  `Spec => JournalMovesForward` (action properties).

The first two follow from `Inv`: `TypeOK`, `LockInv` (a thread that is not idle
holds the mutation lock, so all others are idle), `GateInv` (whoever is inside the
gate is the only one whose record may be unresolved; while nobody is, at most one
is) and `PcInv` (what each program counter implies about the record).  The others
add `RecordInv`: for each record, what is true of it while no thread works on it
(`QuietRecord`), that a landing can be read off the checkout as long as nobody else
changed it (`Landable`), and that it landed at most once and once more per foreign
change; and for each thread what it has already done to the record it works on
(`WorkInv`).  The gate is what makes this inductive: an effect that lands
disturbs no other record because no other one is unresolved.  `LateInv` says that
behind the first late mutation no thread is left past its authority check.

`EffectBrokerRefinementProofs`: `BrokerRefines`, `Spec /\ [](Extern = 0) =>
ImplementsPromise`, and `BrokerRefinesAlone`, which concludes the same from
`MaxExternal = 0`.  The promise of `SerializedEffects` is one to callers who have
the checkout to themselves; with foreign changes an effect may land twice
(`broker_external`) and the promise is not made.  There is a lemma per action that
it is an abstract step or a stutter.

### The channels

`ChannelEffectsProofs`: `LogsSound` (`[]LogsAreSound`), `RepliesDurable`
(`[]ReplyIsDurable`), `OneLateRow` (`[]OneLateRowPerFile`).  The invariant joins
`ThreadsOK` (what a thread has found and written at each step of its call),
`RecordsOK` (a record's state says which of its rows are in the logs),
`EffectsApart` and `FilesApart` (the two flocks exclude), `RowsOnce`,
`AuditMeansQueued`, `JournalLoads` and `LateInv`.  The hard case is the writers
that no file lock separates, those that create a file by a link: the link succeeds
only on an absent file, and a late row leaves no absent file behind.

### The command

`CommandGuardianProofs`, for every number of faults, in any order:
`GuardianTypeCorrect`, `TerminalCommandsStopped` (`[]TerminalMeansStopped`),
`RunningCommandsRecorded` (`[]RunningIsRecorded`), `ResultsAreReal`
(`[]CompletedMeansExited`).  The inductive invariant `IInv` adds to the types:
`Known` (the gate of the command opens only behind a record that names it, and a
worker that may have opened it knows whom to kill), `Stopped` (a released command
is dead at every step behind its kill, and only a released one ever runs: this is
what lets a worker that does not know the command, and a recovery whose record
names none, skip the kill), `Forks` (what the guardian has forked and written when)
and `Verdicts` (wherever the word "exited" is found, in the pipe, in the worker or
in the record, the command ended by itself; while the worker still listens, nobody
but the guardian can have killed it).

### The admissions

`RoleAdmissionProofs`: `EvidenceSound` (`[]EvidenceIsSound`), `OneProcessServes`
(`[]OneServes`), `FencesLost` (`FencesOnlyLost`, an action property).
`ActInv` says what an actor knows at each step, `Artifacts` and `Underway` that
each rollback step has made what the next one relies on, `RowInv` that a recovery
row follows a fenced epoch and is the only one that does, `LockInv` and `LiveInv`
relate rows to processes and the runtime lock, and `FenceInv` says that a process
which did not hold the lock when it was measured is dead: this makes the stale
measurement of the fence harmless.  `EpochInv` states that a row with the last
epoch exists, since that a finite set has a maximum is itself an induction.

`ScribeAdmissionProofs`: `EvidenceSound`, `RecoveryEvidence`
(`[]RecoveryHasEvidence`), `ExclusiveAuthority` (`[]AuthorityIsExclusive`).  The
invariant has the same shape, with `Underway` for the tick and for the rollback by
hand, `RestartInv` (what each step of a restart has left), `RowInv` (of the open
rows that continue one epoch there is only one), `HomeInv` (what the first launch
leaves, so that recoveries find the migration whole) and `CanonInv`.

### The stores

`StoresProofs` is about `MCStores`, whose behaviours are those of one store each:

* `PointersSound` and `UseIsVerified` (`[]PointersAreSound`, `VerifiedBeforeUse`)
  from `PkgInv`: a command about to change a pointer or a row has verified bytes
  that are still whole, since what tears them ends the command too, and what it
  will keep for a rollback was held;
* `SendsTrue` (`SendsAreTrue`) from `ReceiptInv`: a writer's row, whole or cut, can
  only be behind the offset it recorded, and directly behind its repair if it saw
  a torn tail; a row told ok is a line or a cut one at the start of a line; writers
  under way have different rows, and a row not sent is nowhere;
* `MirrorTrue` (`[]MirrorIsTrue`) from `MirrorInv`: the flock excludes, what the
  holder has read is current, and a cached answer shows whatever was confirmed
  before the relay asked;
* `InboxSound` (`[]InboxIsSound`) under `MaxRotate = 0`, from `InboxInv`: a
  position, in a cursor, the mark or a drain, stands only behind rows that were
  handled.  The hypothesis is the reach of the property: the role's mark has no
  anchor, and after a rotation a new window does skip rows nobody handled;
* `StoresTypeCorrect` (`[]StoresTypeOK`).

### The two ways to a role

`QueuesProofs` is about `MCQueues`:

* `DeliveryOnceInOrder` (`DeliveredOnceInOrder`) and the database half of
  `QueuesSound` (`[]QueuesAreSound`) from `PlaneInv`: a client's transaction still
  holds what it locked (`Clients`: a reserved number is the next one, a claimed
  message is still queued, row locks exclude), the messages of a recipient are
  numbered from one up to the sequence row (`Numbered`, with their cardinality), a
  message was returned at most once (`GivenOnce`), and while no connection was lost
  whatever is queued before a locked message is locked too (`InOrder`);
* the file half of `QueuesSound` from `InboxInv`, under rotation.  A line number
  means nothing there, so `AnchorOK` speaks of content: wherever the queue has the
  line a cursor is anchored to, its window took every line before it.  `Tracks`
  says the same of what a drain has read and `Evolves` how a step may change a
  queue.  `MaxTear <= 1` is assumed: the model has one unparseable line, so two
  residues would be the same line twice and an anchor on one would fit the other.

### What is only model-checked

The liveness properties, which are about fairness and outside what the prover
supports: `RecoveryCompletes`, `EveryCallReturns`, `ChannelProgress`,
`ConsumedOrAbandoned`, `EveryWindowSeesEveryRow`, `FenceCompletes`,
`RenewsLapsedRow`, `LapsedRowRecovers`, `CommandStops`, `CommandReturns`.  The
runs that show a violation have nothing to prove.

## 6. Plan

Done: the broker (workspace effects, channel effects, commands), `SendReceipt`,
`DurableInbox`, `MessagePlane`, `CutoverMirror`, both admissions and `Packages`, with
theorems for all their safety properties.  Next, in this order:

1. Proofs about what the following modules add; the lemmas of `QueuesProofs` on
   queues that rotate are the ones a `ChannelRelay` will need.
2. `DeliveryStore` (webhook, delivery store) composed with `ChannelEffects`, with
   the five-second call timeout.
3. `ChannelRelay`: the daemon call, its timeout and the direct fallback, the dual
   write, and `pending` with its limit and the merge of both planes.
4. `CompanyWorkspace`, `OwnershipLease`, `Outbox`, `Approvals`, the shadow
   migrations, `QualificationStore`, `FounderAuthority`.

The suite of runs is kept small: a run asks all the questions of its component, and
components that share nothing share a run.

## 7. What is not modelled

Process measurements (peer identity, executable hashes), MCP framing, sandbox
profiles, signatures and hashes, text graders and linters, launch scripts and
licence tools: they keep no protocol state.  `ddl/061` is a held draft.  The
remaining parts are in the plan.
