------------------------------ MODULE MCStores ------------------------------
(***************************************************************************)
(* The file stores that several processes share without one lock over all: *)
(* a role's queue as its windows drain it (DurableInbox), the queue as its *)
(* senders append to it (SendReceipt), the cutover mirror (CutoverMirror)  *)
(* and the install roots (Packages).  They have no state in common, so a   *)
(* behaviour explores one of them and leaves the others as they started.   *)
(***************************************************************************)
EXTENDS DurableInbox, TLC

CONSTANTS w1, w2, d1, d2, d3,                             \* DurableInbox
          SendRow, Bun, Python, Torn, Newline, MaxFault, MaxSync,  \* SendReceipt
          Role, Setter, Relay, TTL, MaxSet, MaxUnread, MaxClock,   \* CutoverMirror
          Operator, ScribePackage, RolePackage, MaxFaults, MaxCommands  \* Packages

ASSUME ReceiptAssumption ==
    /\ Bun \cap Python = {} /\ Torn # Newline
    /\ {Torn, Newline, None} \cap SendRow = {} /\ None \notin {Torn, Newline}
    /\ [cut: SendRow] \cap (SendRow \union {Torn, Newline}) = {}
    /\ {MaxFault, MaxSync} \subseteq Nat
ASSUME MirrorAssumption ==
    /\ Setter \cap Relay = {} /\ None \notin Setter \union Relay
    /\ {TTL, MaxSet, MaxUnread, MaxClock} \subseteq Nat /\ TTL > 0
ASSUME PackageAssumption ==
    /\ ScribePackage \cap RolePackage = {} /\ None \notin ScribePackage \union RolePackage
    /\ {MaxFaults, MaxCommands} \subseteq Nat

VARIABLES
    store,                                            \* the store explored
    sendFile, writer, result, sendFaults,             \* SendReceipt
    db, mirror, proc, cache, clock, unread, confirmed, \* CutoverMirror
    built, dest, held, rollback, row, command, everHeld, pkgFaults, commands

Receipt == INSTANCE SendReceipt
    WITH Row <- SendRow, Relay <- Python, file <- sendFile, faults <- sendFaults
Mirror == INSTANCE CutoverMirror
Pkg == INSTANCE Packages
    WITH Package <- ScribePackage \union RolePackage, Complete <- ScribePackage,
         proc <- command, faults <- pkgFaults

sends == <<sendFile, writer, result, sendFaults>>
mirrors == <<db, mirror, proc, cache, clock, unread, confirmed>>
installs == <<built, dest, held, rollback, row, command, everHeld, pkgFaults, commands>>
storesVars == <<store, vars, sends, mirrors, installs>>

\* Two overlapping drains of one window and one of another.
Overlapping == (d1 :> w1) @@ (d2 :> w1) @@ (d3 :> w2)

\* Rows of the queue are told apart only by identity.
Symmetry == Permutations(Row)

StoresInit ==
    /\ Init /\ Receipt!Init /\ Mirror!Init /\ Pkg!Init
    /\ store \in {"inbox", "receipt", "mirror", "packages"}
    /\ store # "packages" =>
          \A k \in ScribePackage \union RolePackage : built[k] = "absent"

InboxSteps ==
    store = "inbox" /\ Next /\ UNCHANGED <<store, sends, mirrors, installs>>
ReceiptSteps ==
    store = "receipt" /\ Receipt!Next /\ UNCHANGED <<store, vars, mirrors, installs>>
MirrorSteps ==
    store = "mirror" /\ Mirror!Next /\ UNCHANGED <<store, vars, sends, installs>>
PackageSteps ==
    store = "packages" /\ Pkg!Next /\ UNCHANGED <<store, vars, sends, mirrors>>

\* Rows, faults and commands run out, except for the mirror's.
Rest == store # "mirror" /\ UNCHANGED storesVars

StoresNext == InboxSteps \/ ReceiptSteps \/ MirrorSteps \/ PackageSteps \/ Rest

StoresSpec == StoresInit /\ [][StoresNext]_storesVars

-----------------------------------------------------------------------------
(* The properties of the four modules, under one name each. *)

\* Every variable of every store has its type.
StoresTypeOK ==
    CASE store = "inbox" -> TypeOK
      [] store = "receipt" -> Receipt!TypeOK
      [] store = "mirror" -> Mirror!TypeOK
      [] store = "packages" -> Pkg!TypeOK

\* durable_inbox.ts with overlapping drains, deaths and raising handlers: neither
\* the role's mark nor a window's cursor stands behind a row nobody has handled.
InboxIsSound == ResumesWhereRoleLeftOff /\ AnchoredCursorIsSound

\* send_receipt.ts and _append_row_durable: a row whose sender was told ok is a line
\* that every consumer parses, unless its write stopped right before the newline; no
\* later append, repair or residue makes a row unreadable; and what a bun writer
\* reports of its write is exact but for that newline.
SendsAreTrue ==
    []Receipt!OkMeansComplete /\ Receipt!ReadableStays /\ Receipt!VerdictIsTrue

\* locked_cutover_mirror, set_cutover and get_cutover_state: the mirror shows only
\* committed states, no failure or delayed snapshot takes it back behind a
\* confirmed one, and a relay's answer is at most TTL behind.
MirrorIsTrue ==
    Mirror!MirrorKeepsConfirmed /\ Mirror!MirrorIsCommitted /\ Mirror!AnswersAreCurrent

\* install_held_package: a package becomes HELD or registered only while its
\* installed bytes are exact, across deaths, races and power failures.
VerifiedBeforeUse == Pkg!VerifiedBeforeUse

\* install_held_package, rollback_held_package and register_installed_package by
\* racing operators: ROLLBACK names a package that was held, the scribe's and the
\* role's roots are apart, and one package per deployment is installed.
PointersAreSound == Pkg!RollbackWasHeld /\ Pkg!RootsAreApart /\ Pkg!OneInstalled

=============================================================================
