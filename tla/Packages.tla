------------------------------ MODULE Packages ------------------------------
(***************************************************************************)
(* Release packages: the build of a held package, its installation, the    *)
(* HELD and ROLLBACK pointers and the registration of the installed bytes. *)
(*                                                                         *)
(* Build, install and rollback are commands of operators that share the    *)
(* output directory, the install roots and the database, without a lock.   *)
(* The scribe and a role have an install root each.  Staging directories   *)
(* have private names, so that only the rename that publishes one is seen  *)
(* by others.  Digests, manifests and modes are what verify_package        *)
(* compares; here they are bytes that are whole or torn.                   *)
(***************************************************************************)
EXTENDS Naturals, FiniteSets

CONSTANTS
    Operator,      \* concurrent commands
    Package,       \* digests of packages
    RolePackage,   \* those of the role's install root
    Complete,      \* those that are the complete current release
    None,          \* no pointer
    MaxFaults,     \* deaths of commands and power failures
    MaxCommands    \* commands given

VARIABLES
    built,      \* the bytes under the output directory
    dest,       \* the bytes under packages/ of the install root
    held,       \* HELD.json of the two roots
    rollback,   \* ROLLBACK.json of the scribe's root
    row,        \* the states of the rows of kernel_company_scribe_packages
    proc,       \* [pc, pkg, seen] of a command
    everHeld,   \* history: what a HELD pointer ever named
    faults,     \* history: faults so far
    commands    \* history: commands given so far

stores == <<built, dest>>
pointers == <<held, rollback, everHeld>>
vars == <<stores, pointers, row, proc, faults, commands>>

Root == {"scribe", "role"}
RootOf(k) == IF k \in RolePackage THEN "role" ELSE "scribe"
Pointer == Package \union {None}

\* Fresh bytes are renamed into place, but copytree and write_bytes sync nothing.
Bytes == {"absent", "fresh", "whole", "torn"}
Idle == [pc |-> "idle", pkg |-> None, seen |-> None]
Pc == {"idle", "build", "publish", "look", "copy", "check", "keep", "write",
       "register", "current", "restore", "swap"}

\* Every variable has its type.
TypeOK ==
    /\ {built, dest} \subseteq [Package -> Bytes]
    /\ held \in [Root -> Pointer]
    /\ rollback \in (Package \ RolePackage) \union {None}
    /\ row \in [Package -> {"none", "held", "installed", "retired"}]
    /\ proc \in [Operator -> [pc: Pc, pkg: Pointer, seen: Pointer]]
    /\ everHeld \subseteq Package
    /\ faults \in 0 .. MaxFaults /\ commands \in 0 .. MaxCommands

\* Some packages are built already.
Init ==
    /\ built \in [Package -> {"absent", "whole"}]
    /\ dest = [k \in Package |-> "absent"]
    /\ held = [r \in Root |-> None] /\ rollback = None
    /\ row = [k \in Package |-> "none"]
    /\ proc = [p \in Operator |-> Idle]
    /\ everHeld = {} /\ faults = 0 /\ commands = 0

At(p, pc) == proc[p].pc = pc
K(p) == proc[p].pkg
Begin(p, pc, k) ==
    /\ At(p, "idle") /\ commands < MaxCommands /\ commands' = commands + 1
    /\ proc' = [proc EXCEPT ![p] = [pc |-> pc, pkg |-> k, seen |-> None]]
Go(p, pc) == proc' = [proc EXCEPT ![p].pc = pc]
End(p) == proc' = [proc EXCEPT ![p] = Idle]

\* verify_package, verify_company_role_package: any torn file is told.
Verified(bytes) == bytes \in {"fresh", "whole"}

-----------------------------------------------------------------------------
(* build_held_package, build_complete_held_package, build_company_role_package *)

\* The commit's blobs, the frozen channel bundle and the runtime are staged and
\* verified.
Build(p, k) ==
    /\ Begin(p, "build", k)
    /\ UNCHANGED <<stores, pointers, row, faults>>

\* A target that is there already is verified and returned, or refused.
BuildLook(p) ==
    /\ At(p, "build")
    /\ IF built[K(p)] = "absent" THEN Go(p, "publish") ELSE End(p)
    /\ UNCHANGED <<stores, pointers, row, faults, commands>>

\* os.replace fails on a directory that is not empty.
BuildPublish(p) ==
    /\ At(p, "publish")
    /\ built' = [built EXCEPT ![K(p)] = IF @ = "absent" THEN "fresh" ELSE @]
    /\ End(p)
    /\ UNCHANGED <<dest, pointers, row, faults, commands>>

-----------------------------------------------------------------------------
(* _cmd_install: install_held_package, install_company_role_package *)

\* The package is verified where it was built.
Install(p, k) ==
    /\ Verified(built[k]) /\ Begin(p, "look", k)
    /\ UNCHANGED <<stores, pointers, row, faults>>

InstallLook(p) ==
    /\ At(p, "look")
    /\ Go(p, IF dest[K(p)] = "absent" THEN "copy" ELSE "check")
    /\ UNCHANGED <<stores, pointers, row, faults, commands>>

\* The verified copy is renamed, unless another command was faster.
InstallCopy(p) ==
    /\ At(p, "copy")
    /\ IF dest[K(p)] = "absent"
       THEN dest' = [dest EXCEPT ![K(p)] = "fresh"] /\ Go(p, "check")
       ELSE End(p) /\ UNCHANGED dest
    /\ UNCHANGED <<built, pointers, row, faults, commands>>

\* Deviation: a directory under the digest's name is taken for the package.
WrongInstallCheck(p) ==
    /\ At(p, "check")
    /\ proc' = [proc EXCEPT ![p].seen = held[RootOf(K(p))],
                            ![p].pc = IF K(p) \in RolePackage \/ held["scribe"] = None
                                      THEN "write" ELSE "keep"]
    /\ UNCHANGED <<stores, pointers, row, faults, commands>>

\* Whoever installed the destination, it is verified; the scribe's command reads
\* the HELD pointer that it will keep.
InstallCheck(p) ==
    /\ At(p, "check")
    /\ IF Verified(dest[K(p)])
       THEN proc' = [proc EXCEPT ![p].seen = held[RootOf(K(p))],
                         ![p].pc = IF K(p) \in RolePackage \/ held["scribe"] = None
                                   THEN "write" ELSE "keep"]
       ELSE End(p)
    /\ UNCHANGED <<stores, pointers, row, faults, commands>>

\* Deviation: the pointer kept for a rollback is the one about to be written.
WrongInstallKeep(p) ==
    /\ At(p, "keep")
    /\ rollback' = K(p) /\ Go(p, "write")
    /\ UNCHANGED <<stores, held, everHeld, row, faults, commands>>

InstallKeep(p) ==
    /\ At(p, "keep")
    /\ rollback' = proc[p].seen /\ Go(p, "write")
    /\ UNCHANGED <<stores, held, everHeld, row, faults, commands>>

InstallWrite(p) ==
    /\ At(p, "write")
    /\ held' = [held EXCEPT ![RootOf(K(p))] = K(p)]
    /\ everHeld' = everHeld \union {K(p)}
    /\ Go(p, "register")
    /\ UNCHANGED <<stores, rollback, row, faults, commands>>

\* What the transaction requires: a complete release (a role's package is one by
\* its profile), a row that is not retired, and the partial unique index on the
\* installed package of a deployment.
Registrable(k) ==
    /\ Verified(dest[k]) /\ k \in RolePackage \union Complete
    /\ row[k] # "retired"
    /\ \A j \in Package \ {k} : RootOf(j) = RootOf(k) => row[j] # "installed"

\* register_installed_package, register_company_role_package: one transaction,
\* which also fails when the database does.
Register(p) ==
    /\ At(p, "register")
    /\ \/ Registrable(K(p)) /\ row' = [row EXCEPT ![K(p)] = "installed"]
       \/ UNCHANGED row
    /\ End(p)
    /\ UNCHANGED <<stores, pointers, faults, commands>>

-----------------------------------------------------------------------------
(* rollback_held_package *)

\* The pointer is read and its package verified ...
RollbackHeld(p) ==
    /\ rollback # None /\ Verified(dest[rollback])
    /\ Begin(p, "current", rollback)
    /\ UNCHANGED <<stores, pointers, row, faults>>

\* ... then the current pointer ...
RollbackCurrent(p) ==
    /\ At(p, "current")
    /\ proc' = [proc EXCEPT ![p].pc = "restore", ![p].seen = held["scribe"]]
    /\ UNCHANGED <<stores, pointers, row, faults, commands>>

\* ... and the two are written, one after the other.
RollbackRestore(p) ==
    /\ At(p, "restore")
    /\ held' = [held EXCEPT !["scribe"] = K(p)]
    /\ everHeld' = everHeld \union {K(p)}
    /\ IF proc[p].seen = None THEN End(p) ELSE Go(p, "swap")
    /\ UNCHANGED <<stores, rollback, row, faults, commands>>

RollbackSwap(p) ==
    /\ At(p, "swap")
    /\ rollback' = proc[p].seen /\ End(p)
    /\ UNCHANGED <<stores, held, everHeld, row, faults, commands>>

-----------------------------------------------------------------------------
(* The environment. *)

Crash(p) ==
    /\ ~At(p, "idle") /\ faults < MaxFaults /\ faults' = faults + 1
    /\ End(p)
    /\ UNCHANGED <<stores, pointers, row, commands>>

\* Pointers are synced and survive a power failure; fresh bytes may be lost.
PowerLoss ==
    /\ faults < MaxFaults /\ faults' = faults + 1
    /\ \E S, T \in SUBSET Package :
          /\ \A k \in S : built[k] = "fresh"
          /\ \A k \in T : dest[k] = "fresh"
          /\ S \union T # {}
          /\ built' = [k \in Package |-> IF k \in S THEN "torn" ELSE built[k]]
          /\ dest' = [k \in Package |-> IF k \in T THEN "torn" ELSE dest[k]]
    /\ proc' = [p \in Operator |-> Idle]
    /\ UNCHANGED <<pointers, row, commands>>

\* The file system writes its caches.
Flush ==
    /\ \E k \in Package : "fresh" \in {built[k], dest[k]}
    /\ built' = [k \in Package |-> IF built[k] = "fresh" THEN "whole" ELSE built[k]]
    /\ dest' = [k \in Package |-> IF dest[k] = "fresh" THEN "whole" ELSE dest[k]]
    /\ UNCHANGED <<pointers, row, proc, faults, commands>>

\* An administrator retires a registered package; no code of the repository does.
Retire(k) ==
    /\ row[k] = "installed" /\ row' = [row EXCEPT ![k] = "retired"]
    /\ UNCHANGED <<stores, pointers, proc, faults, commands>>

Next ==
    \/ \E p \in Operator :
          \/ \E k \in Package : Build(p, k) \/ Install(p, k)
          \/ BuildLook(p) \/ BuildPublish(p)
          \/ InstallLook(p) \/ InstallCopy(p) \/ InstallCheck(p) \/ InstallKeep(p)
          \/ InstallWrite(p) \/ Register(p)
          \/ RollbackHeld(p) \/ RollbackCurrent(p) \/ RollbackRestore(p) \/ RollbackSwap(p)
          \/ Crash(p)
    \/ PowerLoss \/ Flush \/ \E k \in Package : Retire(k)

Spec == Init /\ [][Next]_vars

-----------------------------------------------------------------------------
(* Properties *)

\* "Install exact bytes", install_held_package: although commands race, die and
\* lose power after a rename that nothing synced, a package becomes HELD or
\* registered only while its installed bytes are the exact ones.
VerifiedBeforeUse ==
    [][/\ \A r \in Root : held'[r] # held[r] => Verified(dest[held'[r]])
       /\ \A k \in Package : row'[k] = "installed" /\ row[k] # "installed" =>
              Verified(dest[k])]_vars

\* rollback_held_package restores a prior HELD pointer: whatever interleaving of
\* installs and rollbacks wrote it, ROLLBACK names a package that was held.
RollbackWasHeld == rollback # None => rollback \in everHeld

\* register_installed_package is one transaction under the partial unique index:
\* no deployment has two installed packages, and a refused registration leaves no
\* row behind.
OneInstalled ==
    \A k \in Package :
        /\ row[k] # "held"
        /\ row[k] = "installed" =>
              \A j \in Package \ {k} : RootOf(j) = RootOf(k) => row[j] # "installed"

\* The roots are apart: no HELD pointer of one root names a package of the other,
\* and what is registered or held was installed under its own root.
RootsAreApart ==
    /\ \A r \in Root : held[r] # None => RootOf(held[r]) = r /\ dest[held[r]] # "absent"
    /\ \A k \in Package : row[k] # "none" => dest[k] # "absent"

=============================================================================
