---------------------------- MODULE StoresProofs ----------------------------
(***************************************************************************)
(* Proofs about the file stores.  They have no state in common, so each    *)
(* store has an invariant of its own, which the steps of the others leave  *)
(* alone.                                                                  *)
(***************************************************************************)
EXTENDS MCStores, SequenceTheorems, TLAPS

-----------------------------------------------------------------------------
(* Packages.                                                               *)

AnyPackage == ScribePackage \union RolePackage
CommandRow == [pc: Pkg!Pc, pkg: AnyPackage \union {None}, seen: AnyPackage \union {None}]

\* A command that is about to change a pointer has a package whose bytes were
\* verified and are still whole, and what it will keep for a rollback was held.
CommandOK(t) ==
    /\ t.pc # "idle" => t.pkg \in AnyPackage
    /\ t.pc \in {"keep", "write", "current", "restore"} => Pkg!Verified(dest[t.pkg])
    /\ t.pc \in {"keep", "current", "restore", "swap"} => t.pkg \notin RolePackage
    /\ t.pc \in {"keep", "swap"} => t.seen # None
    /\ t.pc \in {"keep", "restore", "swap"} /\ t.seen # None =>
          t.seen \in everHeld \ RolePackage

PkgInv ==
    /\ Pkg!TypeOK /\ Pkg!RollbackWasHeld /\ Pkg!RootsAreApart /\ Pkg!OneInstalled
    /\ \A r \in Pkg!Root : held[r] # None => held[r] \in everHeld
    /\ \A p \in Operator : CommandOK(command[p])

\* The types, by themselves.
LEMMA PkgTypes ==
    ASSUME Pkg!TypeOK
    PROVE  /\ built \in [AnyPackage -> Pkg!Bytes] /\ dest \in [AnyPackage -> Pkg!Bytes]
           /\ held \in [Pkg!Root -> AnyPackage \union {None}]
           /\ rollback \in (AnyPackage \ RolePackage) \union {None}
           /\ row \in [AnyPackage -> {"none", "held", "installed", "retired"}]
           /\ command \in [Operator -> CommandRow]
           /\ everHeld \subseteq AnyPackage
           /\ pkgFaults \in 0 .. MaxFaults /\ commands \in 0 .. MaxCommands
           /\ None \notin AnyPackage /\ MaxFaults \in Nat /\ MaxCommands \in Nat
  BY PackageAssumption DEF Pkg!TypeOK, Pkg!Pointer, AnyPackage, CommandRow

\* Installed bytes stay, and stay verified but for a power failure.
DestStays ==
    \A k \in AnyPackage :
        /\ dest[k] # "absent" => dest'[k] # "absent"
        /\ Pkg!Verified(dest[k]) => Pkg!Verified(dest'[k])

\* A command moves, with what its next step relies on.
LEMMA CommandMoves ==
    ASSUME PkgInv, DestStays, everHeld \subseteq everHeld',
           \/ command' = command
           \/ \E p \in Operator, t \in CommandRow :
                 CommandOK(t)' /\ command' = [command EXCEPT ![p] = t]
    PROVE  command' \in [Operator -> CommandRow] /\ \A p \in Operator : CommandOK(command[p])'
  <1>0. command \in [Operator -> CommandRow] /\ None \notin AnyPackage
    BY PkgTypes DEF PkgInv
  <1>1. ASSUME NEW p \in Operator, command'[p] = command[p] PROVE CommandOK(command[p])'
    BY <1>1 DEF PkgInv, CommandOK, DestStays
  <1>2. CASE command' = command BY <1>0, <1>1, <1>2
  <1>3. CASE \E p \in Operator, t \in CommandRow :
                CommandOK(t)' /\ command' = [command EXCEPT ![p] = t]
    <2>1. PICK p \in Operator, t \in CommandRow :
             CommandOK(t)' /\ command' = [command EXCEPT ![p] = t]
      BY <1>3
    <2>2. /\ command' \in [Operator -> CommandRow] /\ command'[p] = t
          /\ \A q \in Operator : q # p => command'[q] = command[q]
      BY <1>0, <2>1
    <2>3. CommandOK(command[p])' BY <2>1, <2>2 DEF CommandOK
    <2> QED BY <1>1, <2>2, <2>3
  <1> QED BY <1>2, <1>3

\* The command ends, or goes on with its package.
LEMMA CommandEnds ==
    ASSUME PkgInv, DestStays, everHeld \subseteq everHeld', NEW p \in Operator, Pkg!End(p)
    PROVE  command' \in [Operator -> CommandRow] /\ \A q \in Operator : CommandOK(command[q])'
  <1>1. Pkg!Idle \in CommandRow /\ Pkg!Idle.pc = "idle" BY DEF Pkg!Idle, CommandRow, Pkg!Pc
  <1>2. CommandOK(Pkg!Idle)' BY DEF CommandOK, Pkg!Idle
  <1> QED BY <1>1, <1>2, CommandMoves DEF Pkg!End

LEMMA CommandGoes ==
    ASSUME PkgInv, DestStays, everHeld \subseteq everHeld', NEW p \in Operator,
           NEW pc \in Pkg!Pc, Pkg!Go(p, pc), command[p].pc # "idle",
           pc = "write" => Pkg!Verified(dest'[command[p].pkg]),
           pc \notin {"keep", "current", "restore", "swap"}
    PROVE  command' \in [Operator -> CommandRow] /\ \A q \in Operator : CommandOK(command[q])'
  <1>1. command \in [Operator -> CommandRow] /\ command[p] \in CommandRow
    BY PkgTypes DEF PkgInv
  <1> DEFINE t == [command[p] EXCEPT !.pc = pc]
  <1>2. t \in CommandRow /\ t.pc = pc /\ t.pkg = command[p].pkg BY <1>1 DEF CommandRow
  <1>3. command' = [command EXCEPT ![p] = t] BY DEF Pkg!Go
  <1>4. PICK u \in CommandRow : u = t BY <1>2
  <1>5. CommandOK(u)' BY <1>2, <1>4 DEF PkgInv, CommandOK
  <1> HIDE DEF t
  <1> QED BY <1>3, <1>4, <1>5, CommandMoves

\* A new command.
LEMMA CommandBegins ==
    ASSUME PkgInv, DestStays, everHeld \subseteq everHeld', NEW p \in Operator,
           NEW pc \in {"build", "look", "current"}, NEW k \in AnyPackage, Pkg!Begin(p, pc, k),
           pc = "current" => k \notin RolePackage /\ Pkg!Verified(dest'[k])
    PROVE  /\ command' \in [Operator -> CommandRow] /\ \A q \in Operator : CommandOK(command[q])'
           /\ commands' \in 0 .. MaxCommands
  <1>0. commands \in 0 .. MaxCommands /\ MaxCommands \in Nat BY PkgTypes DEF PkgInv
  <1> DEFINE t == [pc |-> pc, pkg |-> k, seen |-> None]
  <1>1. t \in CommandRow /\ t.pc = pc /\ t.pkg = k BY DEF CommandRow, Pkg!Pc
  <1>2. PICK u \in CommandRow : u = t BY <1>1
  <1>3. CommandOK(u)' BY <1>1, <1>2 DEF CommandOK
  <1>4. command' = [command EXCEPT ![p] = u] BY <1>2 DEF Pkg!Begin
  <1>5. commands' \in 0 .. MaxCommands BY <1>0 DEF Pkg!Begin
  <1> QED BY <1>3, <1>4, <1>5, CommandMoves

\* No pointer and no row changes.
LEMMA PkgStays ==
    ASSUME PkgInv, UNCHANGED <<held, rollback, everHeld, row>>,
           built' \in [AnyPackage -> Pkg!Bytes], dest' \in [AnyPackage -> Pkg!Bytes],
           \A k \in AnyPackage : dest[k] # "absent" => dest'[k] # "absent",
           command' \in [Operator -> CommandRow], \A p \in Operator : CommandOK(command[p])',
           pkgFaults' \in 0 .. MaxFaults, commands' \in 0 .. MaxCommands
    PROVE  PkgInv'
  <1>0. /\ held \in [Pkg!Root -> AnyPackage \union {None}]
        /\ row \in [AnyPackage -> {"none", "held", "installed", "retired"}]
    BY PkgTypes DEF PkgInv
  <1>1. Pkg!TypeOK' BY DEF PkgInv, Pkg!TypeOK, Pkg!Pointer, AnyPackage, CommandRow
  <1>2. Pkg!RollbackWasHeld' BY DEF PkgInv, Pkg!RollbackWasHeld
  <1>3. Pkg!RootsAreApart'
    BY <1>0 DEF PkgInv, Pkg!RootsAreApart, Pkg!RootOf, Pkg!Root, AnyPackage
  <1>4. Pkg!OneInstalled' BY DEF PkgInv, Pkg!OneInstalled, Pkg!RootOf
  <1>5. \A r \in Pkg!Root : held'[r] # None => held'[r] \in everHeld' BY DEF PkgInv
  <1> QED BY <1>1, <1>2, <1>3, <1>4, <1>5 DEF PkgInv

\* The steps of a command that write no pointer and no row.
PkgQuiet(p) ==
    \/ \E k \in AnyPackage : Pkg!Build(p, k) \/ Pkg!Install(p, k)
    \/ Pkg!BuildLook(p) \/ Pkg!BuildPublish(p)
    \/ Pkg!InstallLook(p) \/ Pkg!InstallCopy(p) \/ Pkg!InstallCheck(p)
    \/ Pkg!RollbackHeld(p) \/ Pkg!RollbackCurrent(p) \/ Pkg!Crash(p)

LEMMA PkgQuietSteps ==
    ASSUME PkgInv, NEW p \in Operator, PkgQuiet(p)
    PROVE  PkgInv' /\ UNCHANGED <<held, row>>
  <1> USE DEF Pkg!stores, Pkg!pointers
  <1>0. /\ built \in [AnyPackage -> Pkg!Bytes] /\ dest \in [AnyPackage -> Pkg!Bytes]
        /\ command \in [Operator -> CommandRow] /\ command[p] \in CommandRow
        /\ pkgFaults \in 0 .. MaxFaults /\ commands \in 0 .. MaxCommands
        /\ MaxFaults \in Nat /\ None \notin AnyPackage
        /\ held \in [Pkg!Root -> AnyPackage \union {None}]
        /\ rollback \in (AnyPackage \ RolePackage) \union {None}
        /\ {"absent", "fresh", "whole", "torn"} = Pkg!Bytes
    BY PkgTypes DEF PkgInv, Pkg!Bytes
  <1>1. UNCHANGED <<held, rollback, everHeld, row>>
    BY DEF PkgQuiet, Pkg!Build, Pkg!Install, Pkg!BuildLook, Pkg!BuildPublish,
           Pkg!InstallLook, Pkg!InstallCopy, Pkg!InstallCheck, Pkg!RollbackHeld,
           Pkg!RollbackCurrent, Pkg!Crash
  <1>2. dest' = dest => DestStays BY DEF DestStays
  <1>3. command[p].pc # "idle" => command[p].pkg \in AnyPackage BY DEF PkgInv, CommandOK
  <1>4. CASE \E k \in AnyPackage : Pkg!Build(p, k) \/ Pkg!Install(p, k)
    <2>1. PICK k \in AnyPackage : Pkg!Build(p, k) \/ Pkg!Install(p, k) BY <1>4
    <2>2. UNCHANGED <<built, dest, pkgFaults>> BY <2>1 DEF Pkg!Build, Pkg!Install
    <2>3. Pkg!Begin(p, "build", k) \/ Pkg!Begin(p, "look", k)
      BY <2>1 DEF Pkg!Build, Pkg!Install
    <2> QED BY <1>0, <1>1, <1>2, <2>2, <2>3, CommandBegins, PkgStays
  <1>5. CASE Pkg!BuildLook(p)
    <2>1. UNCHANGED <<built, dest, pkgFaults, commands>> BY <1>5 DEF Pkg!BuildLook
    <2>2. command[p].pc # "idle" /\ (Pkg!Go(p, "publish") \/ Pkg!End(p))
      BY <1>5 DEF Pkg!BuildLook, Pkg!At
    <2>3. "publish" \in Pkg!Pc BY DEF Pkg!Pc
    <2>4. command' \in [Operator -> CommandRow] /\ \A q \in Operator : CommandOK(command[q])'
      BY <1>1, <1>2, <2>1, <2>2, <2>3, CommandGoes, CommandEnds
    <2> QED BY <1>0, <1>1, <2>1, <2>4, PkgStays
  <1>6. CASE Pkg!BuildPublish(p)
    <2>1. UNCHANGED <<dest, pkgFaults, commands>> /\ Pkg!End(p) BY <1>6 DEF Pkg!BuildPublish
    <2>2. built' \in [AnyPackage -> Pkg!Bytes] BY <1>0, <1>6 DEF Pkg!BuildPublish
    <2>3. command' \in [Operator -> CommandRow] /\ \A q \in Operator : CommandOK(command[q])'
      BY <1>1, <1>2, <2>1, CommandEnds
    <2> QED BY <1>0, <1>1, <2>1, <2>2, <2>3, PkgStays
  <1>7. CASE Pkg!InstallLook(p)
    <2>1. UNCHANGED <<built, dest, pkgFaults, commands>> BY <1>7 DEF Pkg!InstallLook
    <2>2. command[p].pc # "idle" /\ (Pkg!Go(p, "copy") \/ Pkg!Go(p, "check"))
      BY <1>7 DEF Pkg!InstallLook, Pkg!At
    <2>3. "copy" \in Pkg!Pc /\ "check" \in Pkg!Pc BY DEF Pkg!Pc
    <2>4. command' \in [Operator -> CommandRow] /\ \A q \in Operator : CommandOK(command[q])'
      BY <1>1, <1>2, <2>1, <2>2, <2>3, CommandGoes
    <2> QED BY <1>0, <1>1, <2>1, <2>4, PkgStays
  <1>8. CASE Pkg!InstallCopy(p)
    <2>0. PICK k \in AnyPackage : k = command[p].pkg /\ command[p].pc # "idle"
      BY <1>3, <1>8 DEF Pkg!InstallCopy, Pkg!At
    <2>1. UNCHANGED <<built, pkgFaults, commands>> BY <1>8 DEF Pkg!InstallCopy
    <2>2. \/ dest[k] = "absent" /\ dest' = [dest EXCEPT ![k] = "fresh"] /\ Pkg!Go(p, "check")
          \/ dest' = dest /\ Pkg!End(p)
      BY <1>8, <2>0 DEF Pkg!InstallCopy, Pkg!K
    <2>3. dest' \in [AnyPackage -> Pkg!Bytes] /\ DestStays
      BY <1>0, <2>2 DEF DestStays, Pkg!Verified
    <2>4. "check" \in Pkg!Pc BY DEF Pkg!Pc
    <2>5. command' \in [Operator -> CommandRow] /\ \A q \in Operator : CommandOK(command[q])'
      BY <1>1, <2>0, <2>2, <2>3, <2>4, CommandGoes, CommandEnds
    <2> QED BY <1>0, <1>1, <2>1, <2>3, <2>5, PkgStays DEF DestStays
  <1>9. CASE Pkg!InstallCheck(p)
    <2>1. UNCHANGED <<built, dest, pkgFaults, commands>> BY <1>9 DEF Pkg!InstallCheck
    <2>2. PICK k \in AnyPackage : k = command[p].pkg /\ command[p].pc # "idle"
      BY <1>3, <1>9 DEF Pkg!InstallCheck, Pkg!At
    <2> DEFINE pc == IF k \in RolePackage \/ held["scribe"] = None THEN "write" ELSE "keep"
               t == [command[p] EXCEPT !.seen = held[Pkg!RootOf(k)], !.pc = pc]
    <2>3. CASE Pkg!Verified(dest[k]) /\ command' = [command EXCEPT ![p] = t]
      <3>0. pc \in {"write", "keep"} /\ pc \in Pkg!Pc BY DEF Pkg!Pc
      <3>1. held[Pkg!RootOf(k)] \in AnyPackage \union {None}
        BY <1>0 DEF Pkg!RootOf, Pkg!Root
      <3>2. pc = "keep" => k \notin RolePackage /\ Pkg!RootOf(k) = "scribe" /\ held["scribe"] # None
        BY DEF Pkg!RootOf
      <3>3. held["scribe"] # None => held["scribe"] \in everHeld \ RolePackage
        BY DEF PkgInv, Pkg!RootsAreApart, Pkg!RootOf, Pkg!Root
      <3> HIDE DEF pc
      <3>4. /\ t \in CommandRow /\ t.pc = pc /\ t.pkg = k /\ t.seen = held[Pkg!RootOf(k)]
        BY <1>0, <2>2, <3>0, <3>1 DEF CommandRow
      <3>5. PICK u \in CommandRow : u = t BY <3>4
      <3> HIDE DEF t
      <3>6. CommandOK(u)'
        BY <1>1, <2>1, <2>2, <2>3, <3>0, <3>2, <3>3, <3>4, <3>5 DEF CommandOK
      <3>7. command' \in [Operator -> CommandRow] /\ \A q \in Operator : CommandOK(command[q])'
        BY <1>1, <1>2, <2>1, <2>3, <3>5, <3>6, CommandMoves
      <3> QED BY <1>0, <1>1, <2>1, <3>7, PkgStays
    <2>4. CASE Pkg!End(p)
      <3>1. command' \in [Operator -> CommandRow] /\ \A q \in Operator : CommandOK(command[q])'
        BY <1>1, <1>2, <2>1, <2>4, CommandEnds
      <3> QED BY <1>0, <1>1, <2>1, <3>1, PkgStays
    <2> QED BY <1>9, <2>2, <2>3, <2>4 DEF Pkg!InstallCheck, Pkg!K
  <1>10. CASE Pkg!RollbackHeld(p)
    <2>1. UNCHANGED <<built, dest, pkgFaults>> BY <1>10 DEF Pkg!RollbackHeld
    <2>2. PICK k \in AnyPackage \ RolePackage : k = rollback
      BY <1>0, <1>10 DEF Pkg!RollbackHeld
    <2>3. Pkg!Begin(p, "current", k) /\ Pkg!Verified(dest[k]) BY <1>10, <2>2 DEF Pkg!RollbackHeld
    <2> QED BY <1>0, <1>1, <1>2, <2>1, <2>2, <2>3, CommandBegins, PkgStays
  <1>11. CASE Pkg!RollbackCurrent(p)
    <2>1. UNCHANGED <<built, dest, pkgFaults, commands>> BY <1>11 DEF Pkg!RollbackCurrent
    <2> DEFINE t == [command[p] EXCEPT !.pc = "restore", !.seen = held["scribe"]]
    <2>2. command' = [command EXCEPT ![p] = t] /\ command[p].pc = "current"
      BY <1>11 DEF Pkg!RollbackCurrent, Pkg!At
    <2>3. held["scribe"] \in AnyPackage \union {None} BY <1>0 DEF Pkg!Root
    <2>4. held["scribe"] # None => held["scribe"] \in everHeld \ RolePackage
      BY DEF PkgInv, Pkg!RootsAreApart, Pkg!RootOf, Pkg!Root
    <2>5. /\ t \in CommandRow /\ t.pc = "restore" /\ t.pkg = command[p].pkg
          /\ t.seen = held["scribe"]
      BY <1>0, <2>3 DEF CommandRow, Pkg!Pc
    <2>6. PICK u \in CommandRow : u = t BY <2>5
    <2>7. CommandOK(command[p]) BY DEF PkgInv
    <2> HIDE DEF t
    <2>8. CommandOK(u)' BY <1>1, <2>1, <2>2, <2>4, <2>5, <2>6, <2>7 DEF CommandOK
    <2>9. command' \in [Operator -> CommandRow] /\ \A q \in Operator : CommandOK(command[q])'
      BY <1>1, <1>2, <2>1, <2>2, <2>6, <2>8, CommandMoves
    <2> QED BY <1>0, <1>1, <2>1, <2>9, PkgStays
  <1>12. CASE Pkg!Crash(p)
    <2>1. UNCHANGED <<built, dest, commands>> /\ Pkg!End(p) BY <1>12 DEF Pkg!Crash
    <2>2. pkgFaults' \in 0 .. MaxFaults BY <1>0, <1>12 DEF Pkg!Crash
    <2>3. command' \in [Operator -> CommandRow] /\ \A q \in Operator : CommandOK(command[q])'
      BY <1>1, <1>2, <2>1, CommandEnds
    <2> QED BY <1>0, <1>1, <2>1, <2>2, <2>3, PkgStays
  <1> QED BY <1>1, <1>4, <1>5, <1>6, <1>7, <1>8, <1>9, <1>10, <1>11, <1>12 DEF PkgQuiet

\* What a step uses is verified: a package that becomes HELD, or registered.
UseOK ==
    /\ \A r \in Pkg!Root : held'[r] # held[r] => Pkg!Verified(dest[held'[r]])
    /\ \A k \in AnyPackage : row'[k] = "installed" /\ row[k] # "installed" =>
          Pkg!Verified(dest[k])

\* HELD is made to name a verified package of its root.
LEMMA PkgHolds ==
    ASSUME PkgInv, NEW k \in AnyPackage, Pkg!Verified(dest[k]),
           held' = [held EXCEPT ![Pkg!RootOf(k)] = k], everHeld' = everHeld \union {k},
           UNCHANGED <<built, dest, rollback, row, pkgFaults, commands>>,
           command' \in [Operator -> CommandRow], \A p \in Operator : CommandOK(command[p])'
    PROVE  PkgInv' /\ UseOK
  <1>0. /\ held \in [Pkg!Root -> AnyPackage \union {None}] /\ everHeld \subseteq AnyPackage
        /\ None \notin AnyPackage /\ Pkg!RootOf(k) \in Pkg!Root /\ dest[k] # "absent"
    BY PkgTypes DEF PkgInv, Pkg!RootOf, Pkg!Root, Pkg!Verified
  <1>1. /\ held' \in [Pkg!Root -> AnyPackage \union {None}] /\ held'[Pkg!RootOf(k)] = k
        /\ \A r \in Pkg!Root : r # Pkg!RootOf(k) => held'[r] = held[r]
    BY <1>0
  <1>2. Pkg!TypeOK' BY <1>0, <1>1 DEF PkgInv, Pkg!TypeOK, Pkg!Pointer, AnyPackage, CommandRow
  <1>3. Pkg!RollbackWasHeld' BY DEF PkgInv, Pkg!RollbackWasHeld
  <1>4. Pkg!RootsAreApart'
    <2>1. ASSUME NEW r \in Pkg!Root, held'[r] # None
          PROVE  Pkg!RootOf(held'[r]) = r /\ dest[held'[r]] # "absent"
      BY <1>0, <1>1, <2>1 DEF PkgInv, Pkg!RootsAreApart
    <2>2. \A j \in AnyPackage : row'[j] # "none" => dest'[j] # "absent"
      BY DEF PkgInv, Pkg!RootsAreApart, AnyPackage
    <2> QED BY <2>1, <2>2 DEF Pkg!RootsAreApart, Pkg!RootOf, AnyPackage
  <1>5. Pkg!OneInstalled' BY DEF PkgInv, Pkg!OneInstalled, Pkg!RootOf
  <1>6. \A r \in Pkg!Root : held'[r] # None => held'[r] \in everHeld' BY <1>1 DEF PkgInv
  <1>7. UseOK BY <1>1 DEF UseOK
  <1> QED BY <1>2, <1>3, <1>4, <1>5, <1>6, <1>7 DEF PkgInv

\* ROLLBACK is made to name a package of the scribe's root that was held.
LEMMA PkgKeeps ==
    ASSUME PkgInv, NEW k \in everHeld \ RolePackage, rollback' = k,
           UNCHANGED <<built, dest, held, everHeld, row, pkgFaults, commands>>,
           command' \in [Operator -> CommandRow], \A p \in Operator : CommandOK(command[p])'
    PROVE  PkgInv' /\ UseOK
  <1>0. everHeld \subseteq AnyPackage BY PkgTypes DEF PkgInv
  <1>1. Pkg!TypeOK' BY <1>0 DEF PkgInv, Pkg!TypeOK, Pkg!Pointer, AnyPackage, CommandRow
  <1>2. Pkg!RollbackWasHeld' BY DEF Pkg!RollbackWasHeld
  <1>3. Pkg!RootsAreApart' BY DEF PkgInv, Pkg!RootsAreApart, Pkg!RootOf
  <1>4. Pkg!OneInstalled' BY DEF PkgInv, Pkg!OneInstalled, Pkg!RootOf
  <1>5. \A r \in Pkg!Root : held'[r] # None => held'[r] \in everHeld' BY DEF PkgInv
  <1>6. UseOK BY DEF UseOK
  <1> QED BY <1>1, <1>2, <1>3, <1>4, <1>5, <1>6 DEF PkgInv

\* The row of an installed package is registered or retired.
LEMMA PkgRows ==
    ASSUME PkgInv, NEW k \in AnyPackage,
           UNCHANGED <<built, dest, held, rollback, everHeld, pkgFaults, commands>>,
           \/ Pkg!Registrable(k) /\ row' = [row EXCEPT ![k] = "installed"]
           \/ row[k] = "installed" /\ row' = [row EXCEPT ![k] = "retired"],
           command' \in [Operator -> CommandRow], \A p \in Operator : CommandOK(command[p])'
    PROVE  PkgInv' /\ UseOK
  <1>0. row \in [AnyPackage -> {"none", "held", "installed", "retired"}]
    BY PkgTypes DEF PkgInv
  <1>1. /\ row' \in [AnyPackage -> {"none", "held", "installed", "retired"}]
        /\ row'[k] \in {"installed", "retired"} /\ \A j \in AnyPackage : j # k => row'[j] = row[j]
        /\ row'[k] = "installed" => Pkg!Registrable(k)
    BY <1>0
  <1>2. dest[k] # "absent"
    BY DEF PkgInv, Pkg!RootsAreApart, Pkg!Registrable, Pkg!Verified, AnyPackage
  <1>3. Pkg!TypeOK' BY <1>1 DEF PkgInv, Pkg!TypeOK, Pkg!Pointer, AnyPackage, CommandRow
  <1>4. Pkg!RollbackWasHeld' BY DEF PkgInv, Pkg!RollbackWasHeld
  <1>5. Pkg!RootsAreApart'
    BY <1>1, <1>2 DEF PkgInv, Pkg!RootsAreApart, Pkg!RootOf, AnyPackage
  <1>6. Pkg!OneInstalled'
    <2>1. ASSUME NEW i \in AnyPackage, NEW j \in AnyPackage, i # j, row'[i] = "installed",
                 Pkg!RootOf(j) = Pkg!RootOf(i)
          PROVE  row'[j] # "installed"
      <3>1. \A x, y \in AnyPackage : x # y /\ Pkg!RootOf(y) = Pkg!RootOf(x) /\ row[x] = "installed"
               => row[y] # "installed"
        BY DEF PkgInv, Pkg!OneInstalled, AnyPackage
      <3>2. row'[k] = "installed" =>
               \A x \in AnyPackage : x # k /\ Pkg!RootOf(x) = Pkg!RootOf(k) => row[x] # "installed"
        BY <1>1 DEF Pkg!Registrable, AnyPackage
      <3> QED BY <1>1, <2>1, <3>1, <3>2
    <2>2. \A i \in AnyPackage : row'[i] # "held"
      BY <1>1 DEF PkgInv, Pkg!OneInstalled, AnyPackage
    <2> QED BY <2>1, <2>2 DEF Pkg!OneInstalled, AnyPackage, Pkg!RootOf
  <1>7. \A r \in Pkg!Root : held'[r] # None => held'[r] \in everHeld' BY DEF PkgInv
  <1>8. UseOK BY <1>1 DEF UseOK, Pkg!Registrable
  <1> QED BY <1>3, <1>4, <1>5, <1>6, <1>7, <1>8 DEF PkgInv

\* The steps of a command that write a pointer or a row.
PkgWrites(p) ==
    \/ Pkg!InstallKeep(p) \/ Pkg!InstallWrite(p) \/ Pkg!Register(p)
    \/ Pkg!RollbackRestore(p) \/ Pkg!RollbackSwap(p)

LEMMA PkgWriteSteps ==
    ASSUME PkgInv, NEW p \in Operator, PkgWrites(p)
    PROVE  PkgInv' /\ UseOK
  <1> USE DEF Pkg!stores, Pkg!pointers
  <1>0. /\ built \in [AnyPackage -> Pkg!Bytes] /\ dest \in [AnyPackage -> Pkg!Bytes]
        /\ command \in [Operator -> CommandRow] /\ command[p] \in CommandRow
        /\ pkgFaults \in 0 .. MaxFaults /\ commands \in 0 .. MaxCommands
        /\ CommandOK(command[p])
    BY PkgTypes DEF PkgInv
  <1>1. UNCHANGED <<built, dest, pkgFaults, commands>> /\ command[p].pc # "idle"
    BY DEF PkgWrites, Pkg!InstallKeep, Pkg!InstallWrite, Pkg!Register, Pkg!RollbackRestore,
           Pkg!RollbackSwap, Pkg!At
  <1>2. DestStays BY <1>1 DEF DestStays
  <1>3. PICK k \in AnyPackage : k = command[p].pkg BY <1>0, <1>1 DEF CommandOK
  <1>4. everHeld \subseteq everHeld'
    BY DEF PkgWrites, Pkg!InstallKeep, Pkg!InstallWrite, Pkg!Register, Pkg!RollbackRestore,
           Pkg!RollbackSwap
  <1>5. {"write", "register"} \subseteq Pkg!Pc BY DEF Pkg!Pc
  <1>6. CASE Pkg!InstallKeep(p)
    <2>1. command[p].pc = "keep" /\ Pkg!Go(p, "write")
      BY <1>6 DEF Pkg!InstallKeep, Pkg!At
    <2>2. Pkg!Verified(dest[k]) /\ command[p].seen \in everHeld \ RolePackage
      BY <1>0, <1>3, <2>1 DEF CommandOK
    <2>3. PICK j \in everHeld \ RolePackage : j = command[p].seen BY <2>2
    <2>4. command' \in [Operator -> CommandRow] /\ \A q \in Operator : CommandOK(command[q])'
      BY <1>1, <1>2, <1>3, <1>4, <1>5, <2>1, <2>2, CommandGoes
    <2>5. rollback' = j /\ UNCHANGED <<held, everHeld, row>> BY <1>6, <2>3 DEF Pkg!InstallKeep
    <2> QED BY <1>1, <2>3, <2>4, <2>5, PkgKeeps
  <1>7. CASE Pkg!InstallWrite(p)
    <2>1. command[p].pc = "write" /\ Pkg!Go(p, "register")
      BY <1>7 DEF Pkg!InstallWrite, Pkg!At
    <2>2. Pkg!Verified(dest[k]) BY <1>0, <1>3, <2>1 DEF CommandOK
    <2>3. command' \in [Operator -> CommandRow] /\ \A q \in Operator : CommandOK(command[q])'
      BY <1>1, <1>2, <1>4, <1>5, <2>1, CommandGoes
    <2>4. /\ held' = [held EXCEPT ![Pkg!RootOf(k)] = k] /\ everHeld' = everHeld \union {k}
          /\ UNCHANGED <<rollback, row>>
      BY <1>3, <1>7 DEF Pkg!InstallWrite, Pkg!K
    <2> QED BY <1>1, <2>2, <2>3, <2>4, PkgHolds
  <1>8. CASE Pkg!Register(p)
    <2>1. UNCHANGED <<held, rollback, everHeld>> /\ Pkg!End(p) BY <1>8 DEF Pkg!Register
    <2>2. command' \in [Operator -> CommandRow] /\ \A q \in Operator : CommandOK(command[q])'
      BY <1>2, <1>4, <2>1, CommandEnds
    <2>3. CASE row' = row
      <3>1. PkgInv' BY <1>0, <1>1, <2>1, <2>2, <2>3, PkgStays
      <3> QED BY <2>1, <2>3, <3>1 DEF UseOK
    <2>4. CASE Pkg!Registrable(k) /\ row' = [row EXCEPT ![k] = "installed"]
      BY <1>1, <2>1, <2>2, <2>4, PkgRows
    <2> QED BY <1>3, <1>8, <2>3, <2>4 DEF Pkg!Register, Pkg!K
  <1>9. CASE Pkg!RollbackRestore(p)
    <2>1. command[p].pc = "restore" BY <1>9 DEF Pkg!RollbackRestore, Pkg!At
    <2>2. Pkg!Verified(dest[k]) /\ k \notin RolePackage BY <1>0, <1>3, <2>1 DEF CommandOK
    <2>3. /\ held' = [held EXCEPT ![Pkg!RootOf(k)] = k] /\ everHeld' = everHeld \union {k}
          /\ UNCHANGED <<rollback, row>>
      BY <1>3, <1>9, <2>2 DEF Pkg!RollbackRestore, Pkg!K, Pkg!RootOf
    <2>4. command' \in [Operator -> CommandRow] /\ \A q \in Operator : CommandOK(command[q])'
      <3>1. CASE Pkg!End(p) BY <1>2, <1>4, <3>1, CommandEnds
      <3>2. CASE command[p].seen # None /\ Pkg!Go(p, "swap")
        <4> DEFINE t == [command[p] EXCEPT !.pc = "swap"]
        <4>1. /\ t \in CommandRow /\ t.pc = "swap" /\ t.pkg = k
              /\ t.seen \in everHeld \ RolePackage /\ t.seen # None
          BY <1>0, <1>3, <2>1, <3>2 DEF CommandRow, CommandOK, Pkg!Pc
        <4>2. PICK u \in CommandRow : u = t BY <4>1
        <4>3. CommandOK(u)' BY <1>4, <2>2, <4>1, <4>2 DEF CommandOK
        <4>4. command' = [command EXCEPT ![p] = u] BY <3>2, <4>2 DEF Pkg!Go
        <4> QED BY <1>2, <1>4, <4>3, <4>4, CommandMoves
      <3> QED BY <1>9, <3>1, <3>2 DEF Pkg!RollbackRestore
    <2> QED BY <1>1, <2>2, <2>3, <2>4, PkgHolds
  <1>10. CASE Pkg!RollbackSwap(p)
    <2>1. command[p].pc = "swap" /\ Pkg!End(p) BY <1>10 DEF Pkg!RollbackSwap, Pkg!At
    <2>2. PICK j \in everHeld \ RolePackage : j = command[p].seen
      BY <1>0, <2>1 DEF CommandOK
    <2>3. command' \in [Operator -> CommandRow] /\ \A q \in Operator : CommandOK(command[q])'
      BY <1>2, <1>4, <2>1, CommandEnds
    <2>4. rollback' = j /\ UNCHANGED <<held, everHeld, row>> BY <1>10, <2>2 DEF Pkg!RollbackSwap
    <2> QED BY <1>1, <2>2, <2>3, <2>4, PkgKeeps
  <1> QED BY <1>6, <1>7, <1>8, <1>9, <1>10 DEF PkgWrites

\* Power failures, the caches and an administrator.
LEMMA PkgWorldSteps ==
    ASSUME PkgInv, Pkg!PowerLoss \/ Pkg!Flush \/ \E k \in AnyPackage : Pkg!Retire(k)
    PROVE  PkgInv' /\ UseOK
  <1> USE DEF Pkg!stores, Pkg!pointers
  <1>0. /\ built \in [AnyPackage -> Pkg!Bytes] /\ dest \in [AnyPackage -> Pkg!Bytes]
        /\ command \in [Operator -> CommandRow]
        /\ pkgFaults \in 0 .. MaxFaults /\ commands \in 0 .. MaxCommands /\ MaxFaults \in Nat
        /\ {"absent", "fresh", "whole", "torn"} = Pkg!Bytes
    BY PkgTypes DEF PkgInv, Pkg!Bytes
  <1>1. UNCHANGED <<held, row>> => UseOK BY DEF UseOK
  <1>2. CASE Pkg!PowerLoss
    <2>1. /\ UNCHANGED <<held, rollback, everHeld, row, commands>>
          /\ pkgFaults' \in 0 .. MaxFaults
      BY <1>0, <1>2 DEF Pkg!PowerLoss
    <2>2. PICK S, T \in SUBSET AnyPackage :
             /\ \A k \in T : dest[k] = "fresh"
             /\ built' = [k \in AnyPackage |-> IF k \in S THEN "torn" ELSE built[k]]
             /\ dest' = [k \in AnyPackage |-> IF k \in T THEN "torn" ELSE dest[k]]
      BY <1>2 DEF Pkg!PowerLoss, AnyPackage
    <2>3. /\ built' \in [AnyPackage -> Pkg!Bytes] /\ dest' \in [AnyPackage -> Pkg!Bytes]
          /\ \A k \in AnyPackage : dest[k] # "absent" => dest'[k] # "absent"
      BY <1>0, <2>2
    <2>4. command' = [p \in Operator |-> Pkg!Idle] BY <1>2 DEF Pkg!PowerLoss
    <2>5. Pkg!Idle \in CommandRow BY DEF Pkg!Idle, CommandRow, Pkg!Pc
    <2>6. command' \in [Operator -> CommandRow] BY <2>4, <2>5
    <2>7. \A p \in Operator : CommandOK(command[p])' BY <2>4 DEF CommandOK, Pkg!Idle
    <2> QED BY <1>0, <1>1, <2>1, <2>3, <2>6, <2>7, PkgStays
  <1>3. CASE Pkg!Flush
    <2>1. UNCHANGED <<held, rollback, everHeld, row, command, pkgFaults, commands>>
      BY <1>3 DEF Pkg!Flush
    <2>2. /\ built' = [k \in AnyPackage |-> IF built[k] = "fresh" THEN "whole" ELSE built[k]]
          /\ dest' = [k \in AnyPackage |-> IF dest[k] = "fresh" THEN "whole" ELSE dest[k]]
      BY <1>3 DEF Pkg!Flush, AnyPackage
    <2>3. built' \in [AnyPackage -> Pkg!Bytes] /\ dest' \in [AnyPackage -> Pkg!Bytes]
      BY <1>0, <2>2
    <2>4. DestStays BY <1>0, <2>2 DEF DestStays, Pkg!Verified
    <2>5. command' \in [Operator -> CommandRow] /\ \A q \in Operator : CommandOK(command[q])'
      BY <2>1, <2>4, CommandMoves
    <2> QED BY <1>0, <1>1, <2>1, <2>3, <2>4, <2>5, PkgStays DEF DestStays
  <1>4. CASE \E k \in AnyPackage : Pkg!Retire(k)
    <2>1. PICK k \in AnyPackage : Pkg!Retire(k) BY <1>4
    <2>2. /\ UNCHANGED <<built, dest, held, rollback, everHeld, command, pkgFaults, commands>>
          /\ row[k] = "installed" /\ row' = [row EXCEPT ![k] = "retired"]
      BY <2>1 DEF Pkg!Retire
    <2>3. DestStays BY <2>2 DEF DestStays
    <2>4. command' \in [Operator -> CommandRow] /\ \A q \in Operator : CommandOK(command[q])'
      BY <2>2, <2>3, CommandMoves
    <2> QED BY <2>2, <2>4, PkgRows
  <1> QED BY <1>2, <1>3, <1>4

LEMMA PkgInit == ASSUME Pkg!Init PROVE PkgInv
  <1>0. MaxFaults \in Nat /\ MaxCommands \in Nat BY PackageAssumption
  <1>1. Pkg!Idle \in CommandRow /\ Pkg!Idle.pc = "idle" BY DEF Pkg!Idle, CommandRow, Pkg!Pc
  <1>2. command = [p \in Operator |-> Pkg!Idle] BY DEF Pkg!Init
  <1>3. command \in [Operator -> CommandRow] /\ \A p \in Operator : CommandOK(command[p])
    BY <1>1, <1>2 DEF CommandOK
  <1>4. {built, dest} \subseteq [AnyPackage -> Pkg!Bytes] BY DEF Pkg!Init, Pkg!Bytes, AnyPackage
  <1>5. Pkg!TypeOK
    BY <1>0, <1>3, <1>4 DEF Pkg!Init, Pkg!TypeOK, Pkg!Pointer, AnyPackage, CommandRow
  <1>6. Pkg!RollbackWasHeld /\ Pkg!RootsAreApart /\ Pkg!OneInstalled
    BY DEF Pkg!Init, Pkg!RollbackWasHeld, Pkg!RootsAreApart, Pkg!OneInstalled
  <1>7. \A r \in Pkg!Root : held[r] # None => held[r] \in everHeld BY DEF Pkg!Init
  <1> QED BY <1>3, <1>5, <1>6, <1>7 DEF PkgInv

LEMMA PkgNext ==
    ASSUME PkgInv, [StoresNext]_storesVars
    PROVE  PkgInv' /\ UseOK
  <1>1. CASE UNCHANGED installs
    <2>1. UNCHANGED <<built, dest, held, rollback, row, command, everHeld, pkgFaults, commands>>
      BY <1>1 DEF installs
    <2>2. DestStays BY <2>1 DEF DestStays
    <2>3. command' \in [Operator -> CommandRow] /\ \A q \in Operator : CommandOK(command[q])'
      BY <2>1, <2>2, CommandMoves
    <2>4. PkgInv' BY <2>1, <2>2, <2>3, PkgTypes, PkgStays DEF DestStays, PkgInv
    <2> QED BY <2>1, <2>4 DEF UseOK
  <1>2. CASE Pkg!Next
    <2>1. \/ \E p \in Operator : PkgQuiet(p) \/ PkgWrites(p)
          \/ Pkg!PowerLoss \/ Pkg!Flush \/ \E k \in AnyPackage : Pkg!Retire(k)
      BY <1>2 DEF Pkg!Next, PkgQuiet, PkgWrites, AnyPackage
    <2>2. UNCHANGED <<held, row>> => UseOK BY DEF UseOK
    <2> QED BY <2>1, <2>2, PkgQuietSteps, PkgWriteSteps, PkgWorldSteps
  <1> QED
    BY <1>1, <1>2 DEF StoresNext, InboxSteps, ReceiptSteps, MirrorSteps, PackageSteps, Rest,
                      storesVars

LEMMA PkgSafe == StoresSpec => []PkgInv
  <1>1. StoresInit => PkgInv BY PkgInit DEF StoresInit
  <1>2. PkgInv /\ [StoresNext]_storesVars => PkgInv' BY PkgNext
  <1> QED BY <1>1, <1>2, PTL DEF StoresSpec

\* install_held_package, rollback_held_package and register_installed_package,
\* whatever the number of packages, racing operators, deaths and power failures:
\* ROLLBACK names a package that was held, a HELD pointer and a row are of packages
\* installed under their own root, and no deployment has two installed packages.
THEOREM PointersSound == StoresSpec => []PointersAreSound
  <1>1. PkgInv => PointersAreSound BY DEF PkgInv, PointersAreSound
  <1> QED BY <1>1, PkgSafe, PTL

\* install_held_package, rollback_held_package and register_installed_package: a
\* package becomes HELD, by an install or by a rollback, or registered only in a
\* step at which the bytes under its install root are the exact ones, although the
\* check was made steps before and power failures tear bytes in between.
THEOREM UseIsVerified == StoresSpec => VerifiedBeforeUse
  <1>1. PkgInv /\ [StoresNext]_storesVars =>
          [/\ \A r \in Pkg!Root : held'[r] # held[r] => Pkg!Verified(dest[held'[r]])
           /\ \A k \in ScribePackage \union RolePackage :
                 row'[k] = "installed" /\ row[k] # "installed" => Pkg!Verified(dest[k])]_(Pkg!vars)
    BY PkgNext DEF UseOK, AnyPackage
  <1> QED BY <1>1, PkgSafe, PTL DEF StoresSpec, VerifiedBeforeUse, Pkg!VerifiedBeforeUse

-----------------------------------------------------------------------------
(* SendReceipt.  Rows are only ever appended, by the writer that has them, *)
(* behind the offset it has recorded.                                      *)

WriterRow == [pc: Receipt!Pc, row: SendRow \union {None}, offset: Nat, repair: BOOLEAN]
Holds(i, x) == i \in 1 .. Len(sendFile) /\ sendFile[i] = x

\* Piece i is the text of row r, with or without its newline; piece i, if there is
\* one, ends its line.
HasText(i, r) == i \in 1 .. Len(sendFile) /\ sendFile[i] \in {r, Receipt!Cut(r)}
EndsLine(i) == i \in 1 .. Len(sendFile) => sendFile[i] \in SendRow \union {Newline}

\* What a writer that goes on with record t relies on: its row's text is not in the
\* file before it writes it; what it has seen at its offset stays; and if the text is
\* in the file, it is behind the offset, and behind the repair if there was one.
WriterOK(t) ==
    /\ t.pc # "idle" => t.row \in SendRow /\ result[t.row] = "sending"
    /\ t.pc \in {"opened", "inspected"} => \A i \in Nat : ~HasText(i, t.row)
    /\ t.pc \in {"inspected", "written"} =>
          IF t.repair THEN t.offset <= Len(sendFile) + 1
          ELSE t.offset <= Len(sendFile) /\ EndsLine(t.offset)
    /\ t.pc = "written" => \A i \in Nat : HasText(i, t.row) =>
          t.offset < i /\ (t.repair => Holds(i - 1, Newline))

\* A row that consumers parse, or that lacks nothing but its newline.
AllThere(r) ==
    \/ Receipt!Readable(r)
    \/ \E i \in 1 .. Len(sendFile) :
          Receipt!LineStart(i) /\ sendFile[i] = Receipt!Cut(r)

ReceiptInv ==
    /\ Receipt!TypeOK
    /\ \A r \in SendRow : result[r] = "ok" => AllThere(r)
    /\ \A w \in Receipt!Writer : WriterOK(writer[w])
    /\ \A v, w \in Receipt!Writer :
          v # w /\ writer[v].pc # "idle" /\ writer[w].pc # "idle" => writer[v].row # writer[w].row
    /\ \A r \in SendRow : result[r] = "none" => \A i \in Nat : ~HasText(i, r)

\* A row without its newline is a piece of its own.
LEMMA CutFacts ==
    ASSUME NEW r \in SendRow
    PROVE  /\ Receipt!Cut(r) \in Receipt!Token /\ Receipt!Cut(r) \notin SendRow
           /\ Receipt!Cut(r) # Torn /\ Receipt!Cut(r) # Newline
           /\ \A q \in SendRow : Receipt!Cut(q) = Receipt!Cut(r) => q = r
  <1>1. Receipt!Cut(r) \in [cut: SendRow] BY DEF Receipt!Cut
  <1>2. \A q \in SendRow : Receipt!Cut(q) = Receipt!Cut(r) => q = r
    <2> SUFFICES ASSUME NEW q \in SendRow, Receipt!Cut(q) = Receipt!Cut(r) PROVE q = r
      OBVIOUS
    <2>1. Receipt!Cut(q).cut = Receipt!Cut(r).cut OBVIOUS
    <2> QED BY <2>1 DEF Receipt!Cut
  <1> QED BY <1>1, <1>2, ReceiptAssumption DEF Receipt!Token

LEMMA ReceiptTypes ==
    ASSUME Receipt!TypeOK
    PROVE  /\ sendFile \in Seq(Receipt!Token) /\ Len(sendFile) \in Nat
           /\ writer \in [Receipt!Writer -> WriterRow]
           /\ result \in [SendRow -> {"none", "sending", "ok", "failed"}]
           /\ sendFaults \in [write: 0 .. MaxFault, sync: 0 .. MaxSync]
           /\ Torn \notin SendRow /\ Newline \notin SendRow /\ Torn # Newline
           /\ MaxFault \in Nat /\ MaxSync \in Nat
  BY ReceiptAssumption DEF Receipt!TypeOK, WriterRow

\* What a writer may add to the file.
Pieces(w) == {Newline, Torn, writer[w].row, Receipt!Cut(writer[w].row)}

FileGrows(S) ==
    /\ sendFile' \in Seq(Receipt!Token) /\ Len(sendFile) <= Len(sendFile')
    /\ \A i \in 1 .. Len(sendFile) : sendFile'[i] = sendFile[i]
    /\ \A i \in 1 .. Len(sendFile') : i > Len(sendFile) => sendFile'[i] \in S

\* A write, completed or not, adds the repair of a writer that has found a torn tail,
\* and its piece behind it.
LEMMA FileAppends ==
    ASSUME ReceiptInv, NEW w \in Receipt!Writer, writer[w].pc # "idle",
           \/ sendFile' = sendFile \o Receipt!Repair(w) \o <<Receipt!RowOf(w)>>
           \/ Receipt!Residue(w)
    PROVE  /\ FileGrows(Pieces(w)) /\ Pieces(w) \subseteq Receipt!Token
           /\ \A i \in 1 .. Len(sendFile') :
                 i > Len(sendFile) /\ sendFile'[i] # Newline /\ writer[w].repair =>
                    i > Len(sendFile) + 1 /\ sendFile'[i - 1] = Newline
  <1>0. /\ sendFile \in Seq(Receipt!Token) /\ writer[w] \in WriterRow
        /\ Newline \in Receipt!Token /\ Len(sendFile) \in Nat
    BY ReceiptTypes DEF ReceiptInv, Receipt!Token
  <1>1. writer[w].row \in SendRow BY DEF ReceiptInv, WriterOK
  <1>2. Pieces(w) \subseteq Receipt!Token
    BY <1>1, CutFacts DEF Pieces, Receipt!Token
  <1> DEFINE rests == {<<>>, <<Torn>>, <<writer[w].row>>, <<Receipt!Cut(writer[w].row)>>}
  <1>3. PICK rest \in rests : sendFile' = sendFile \o Receipt!Repair(w) \o rest
    BY DEF Receipt!Residue, Receipt!RowOf
  <1>4. CASE rest = <<>>
    <2>1. CASE writer[w].repair
      <3>1. sendFile' = (sendFile \o <<Newline>>) \o <<>> BY <1>3, <1>4, <2>1 DEF Receipt!Repair
      <3>2. /\ sendFile' \in Seq(Receipt!Token) /\ Len(sendFile') = Len(sendFile) + 1
            /\ \A i \in 1 .. Len(sendFile) : sendFile'[i] = sendFile[i]
            /\ sendFile'[Len(sendFile) + 1] = Newline
        BY <1>0, <3>1
      <3> QED BY <1>0, <1>2, <3>2 DEF FileGrows, Pieces
    <2>2. CASE ~writer[w].repair
      <3>1. sendFile' = (sendFile \o <<>>) \o <<>> BY <1>3, <1>4, <2>2 DEF Receipt!Repair
      <3>2. sendFile' = sendFile BY <1>0, <3>1
      <3> QED BY <1>0, <1>2, <3>2 DEF FileGrows
    <2> QED BY <2>1, <2>2
  <1>5. CASE rest # <<>>
    <2>0. PICK x \in Pieces(w) : rest = <<x>> BY <1>5 DEF Pieces
    <2>1. CASE writer[w].repair
      <3>1. sendFile' = (sendFile \o <<Newline>>) \o <<x>> BY <1>3, <2>0, <2>1 DEF Receipt!Repair
      <3>2. /\ sendFile' \in Seq(Receipt!Token) /\ Len(sendFile') = Len(sendFile) + 2
            /\ \A i \in 1 .. Len(sendFile) : sendFile'[i] = sendFile[i]
            /\ sendFile'[Len(sendFile) + 1] = Newline /\ sendFile'[Len(sendFile) + 2] = x
        BY <1>0, <1>2, <3>1
      <3> QED BY <1>0, <1>2, <3>2 DEF FileGrows, Pieces
    <2>2. CASE ~writer[w].repair
      <3>1. sendFile' = (sendFile \o <<>>) \o <<x>> BY <1>3, <2>0, <2>2 DEF Receipt!Repair
      <3>2. /\ sendFile' \in Seq(Receipt!Token) /\ Len(sendFile') = Len(sendFile) + 1
            /\ \A i \in 1 .. Len(sendFile) : sendFile'[i] = sendFile[i]
            /\ sendFile'[Len(sendFile) + 1] = x
        BY <1>0, <1>2, <3>1
      <3> QED BY <1>0, <1>2, <2>2, <3>2 DEF FileGrows
    <2> QED BY <2>1, <2>2
  <1> QED BY <1>4, <1>5

\* What was readable stays so, and so does what lacks only its newline.
LEMMA ReadableGrows ==
    ASSUME ReceiptInv, NEW S, FileGrows(S), NEW r
    PROVE  /\ Receipt!Readable(r) => Receipt!Readable(r)'
           /\ AllThere(r) => AllThere(r)'
  <1>0. /\ sendFile \in Seq(Receipt!Token) /\ Len(sendFile) \in Nat /\ Len(sendFile') \in Nat
        /\ Len(sendFile) <= Len(sendFile')
        /\ \A i \in 1 .. Len(sendFile) : sendFile'[i] = sendFile[i]
    BY ReceiptTypes DEF ReceiptInv, FileGrows
  <1>1. \A i \in 1 .. Len(sendFile) : Receipt!LineStart(i) => Receipt!LineStart(i)'
    BY <1>0 DEF Receipt!LineStart
  <1>2. \A i \in 1 .. Len(sendFile) : Receipt!Whole(i, r) => Receipt!Whole(i, r)'
    BY <1>0 DEF Receipt!Whole, Receipt!Cut
  <1>3. ASSUME Receipt!Readable(r) PROVE Receipt!Readable(r)'
    <2>1. PICK i \in 1 .. Len(sendFile) : Receipt!LineAt(i, r) BY <1>3 DEF Receipt!Readable
    <2>2. Receipt!LineAt(i, r)' BY <1>1, <1>2, <2>1 DEF Receipt!LineAt
    <2>3. i \in 1 .. Len(sendFile') BY <1>0
    <2> QED BY <2>2, <2>3 DEF Receipt!Readable
  <1>4. ASSUME NEW i \in 1 .. Len(sendFile), Receipt!LineStart(i),
               sendFile[i] = Receipt!Cut(r)
        PROVE  AllThere(r)'
    <2>1. /\ Receipt!LineStart(i)' /\ i \in 1 .. Len(sendFile')
          /\ sendFile'[i] = Receipt!Cut(r)' /\ i \in 1 .. Len(sendFile)'
      BY <1>0, <1>1, <1>4 DEF Receipt!Cut
    <2> QED BY <2>1 DEF AllThere
  <1> QED BY <1>3, <1>4 DEF AllThere

\* A writer that the step is not about.
LEMMA OtherWriter ==
    ASSUME ReceiptInv, NEW S, FileGrows(S), NEW t \in WriterRow, WriterOK(t),
           t.row \notin S, Receipt!Cut(t.row) \notin S,
           t.pc # "idle" => result'[t.row] = result[t.row]
    PROVE  WriterOK(t)'
  <1>0. sendFile \in Seq(Receipt!Token) /\ Len(sendFile) \in Nat /\ Len(sendFile') \in Nat
    BY ReceiptTypes DEF ReceiptInv, FileGrows
  <1>1. \A i \in Nat : HasText(i, t.row)' => HasText(i, t.row)
    BY <1>0 DEF HasText, FileGrows, Receipt!Cut
  <1>2. \A x : \A i \in Nat : Holds(i, x) => Holds(i, x)' BY <1>0 DEF Holds, FileGrows
  <1>3. t.offset \in Nat /\ t.repair \in BOOLEAN BY DEF WriterRow
  <1>4. \A i \in Nat : i <= Len(sendFile) /\ EndsLine(i) => EndsLine(i)'
    BY <1>0 DEF EndsLine, FileGrows
  <1>5. \A i \in Nat : HasText(i, t.row) => i - 1 \in Nat BY <1>0 DEF HasText
  <1>6. (t.pc # "idle" => t.row \in SendRow /\ result[t.row] = "sending")' BY DEF WriterOK
  <1>7. (t.pc \in {"opened", "inspected"} => \A i \in Nat : ~HasText(i, t.row))'
    BY <1>1 DEF WriterOK
  <1>8. (t.pc \in {"inspected", "written"} =>
          IF t.repair THEN t.offset <= Len(sendFile) + 1
          ELSE t.offset <= Len(sendFile) /\ EndsLine(t.offset))'
    BY <1>0, <1>3, <1>4 DEF WriterOK, FileGrows
  <1>9. (t.pc = "written" => \A i \in Nat : HasText(i, t.row) =>
          t.offset < i /\ (t.repair => Holds(i - 1, Newline)))'
    BY <1>1, <1>2, <1>5 DEF WriterOK
  <1> QED BY <1>6, <1>7, <1>8, <1>9 DEF WriterOK

\* Writer w goes on with record t, and the file has grown by at most its row.
LEMMA WriterGoes ==
    ASSUME ReceiptInv, NEW w \in Receipt!Writer, NEW t \in WriterRow,
           NEW S \in SUBSET (Receipt!Token), FileGrows(S),
           \A r \in SendRow : r \in S \/ Receipt!Cut(r) \in S =>
              writer[w].pc # "idle" /\ r = writer[w].row /\ result'[r] # "none",
           writer' = [writer EXCEPT ![w] = t], WriterOK(t)',
           t.pc # "idle" => \A v \in Receipt!Writer :
              v # w /\ writer[v].pc # "idle" => writer[v].row # t.row,
           result' \in [SendRow -> {"none", "sending", "ok", "failed"}],
           \A r \in SendRow : result'[r] # result[r] =>
              /\ result[r] # "ok" /\ result'[r] # "none"
              /\ \A v \in Receipt!Writer : v # w /\ writer[v].pc # "idle" => writer[v].row # r,
           \A r \in SendRow : result'[r] = "ok" /\ result[r] # "ok" => AllThere(r),
           sendFaults' \in [write: 0 .. MaxFault, sync: 0 .. MaxSync]
    PROVE  ReceiptInv'
  <1>0. /\ sendFile \in Seq(Receipt!Token) /\ Len(sendFile) \in Nat
        /\ writer \in [Receipt!Writer -> WriterRow]
        /\ result \in [SendRow -> {"none", "sending", "ok", "failed"}]
        /\ sendFile' \in Seq(Receipt!Token) /\ Len(sendFile') \in Nat
    BY ReceiptTypes DEF ReceiptInv, FileGrows
  <1>1. /\ writer' \in [Receipt!Writer -> WriterRow] /\ writer'[w] = t
        /\ \A v \in Receipt!Writer : v # w => writer'[v] = writer[v]
    BY <1>0
  <1>2. ASSUME NEW v \in Receipt!Writer PROVE WriterOK(writer[v])'
    <2>1. CASE v = w BY <1>1, <2>1 DEF WriterOK, Holds, HasText, EndsLine
    <2>2. CASE v # w
      <3>1. PICK u \in WriterRow : u = writer[v] BY <1>0
      <3>2. WriterOK(u) BY <3>1 DEF ReceiptInv
      <3>3. u.pc # "idle" => u.row \in SendRow /\ result'[u.row] = result[u.row]
        BY <2>2, <3>1, <3>2 DEF WriterOK
      <3>4. CASE u.pc # "idle"
        <4>1. u.row \notin S /\ Receipt!Cut(u.row) \notin S
          BY <2>2, <3>1, <3>3, <3>4 DEF ReceiptInv
        <4>2. WriterOK(u)' BY <3>2, <3>3, <4>1, OtherWriter
        <4> QED BY <1>1, <2>2, <3>1, <4>2 DEF WriterOK, Holds, HasText, EndsLine
      <3>5. CASE u.pc = "idle" BY <1>1, <2>2, <3>1, <3>5 DEF WriterOK
      <3> QED BY <3>4, <3>5
    <2> QED BY <2>1, <2>2
  <1>3. ASSUME NEW r \in SendRow, result'[r] = "ok" PROVE AllThere(r)'
    <2>1. AllThere(r) BY <1>3 DEF ReceiptInv
    <2> QED BY <2>1, ReadableGrows
  <1>4. \A v, u \in Receipt!Writer :
           v # u /\ writer'[v].pc # "idle" /\ writer'[u].pc # "idle" =>
              writer'[v].row # writer'[u].row
    BY <1>1 DEF ReceiptInv
  <1>5. ASSUME NEW r \in SendRow, result'[r] = "none", NEW i \in Nat
        PROVE  ~HasText(i, r)'
    <2>1. result[r] = "none" BY <1>5
    <2>2. ~HasText(i, r) BY <2>1 DEF ReceiptInv
    <2>3. r \notin S /\ Receipt!Cut(r) \notin S BY <1>5
    <2> QED BY <1>0, <2>2, <2>3 DEF HasText, FileGrows, Receipt!Cut
  <1>6. \A v \in Receipt!Writer : writer'[v].pc # "idle" =>
           writer'[v].row \in SendRow /\ result'[writer'[v].row] = "sending"
    BY <1>2 DEF WriterOK
  <1>7. Receipt!TypeOK' BY <1>0, <1>1, <1>6 DEF Receipt!TypeOK, WriterRow
  <1> QED BY <1>2, <1>3, <1>4, <1>5, <1>7 DEF ReceiptInv

\* A writer that is through, with the verdict on its row.
LEMMA WriterEnds ==
    ASSUME ReceiptInv, NEW w \in Receipt!Writer, writer[w].pc # "idle",
           writer' = [writer EXCEPT ![w] = Receipt!Idle],
           \/ result' = result
           \/ result' = [result EXCEPT ![writer[w].row] = "failed"]
           \/ /\ AllThere(writer[w].row)
              /\ result' = [result EXCEPT ![writer[w].row] = "ok"],
           sendFile' = sendFile \/ Receipt!Residue(w),
           sendFaults' \in [write: 0 .. MaxFault, sync: 0 .. MaxSync]
    PROVE  ReceiptInv'
  <1>0. /\ writer \in [Receipt!Writer -> WriterRow]
        /\ result \in [SendRow -> {"none", "sending", "ok", "failed"}]
        /\ sendFile \in Seq(Receipt!Token) /\ Len(sendFile) \in Nat
        /\ Torn \notin SendRow /\ Newline \notin SendRow
    BY ReceiptTypes DEF ReceiptInv
  <1>1. PICK r \in SendRow : r = writer[w].row /\ result[r] = "sending"
    BY DEF ReceiptInv, WriterOK
  <1>2. Receipt!Idle \in WriterRow /\ Receipt!Idle.pc = "idle"
    BY DEF Receipt!Idle, WriterRow, Receipt!Pc
  <1>4. PICK u \in WriterRow : u = Receipt!Idle BY <1>2
  <1>5. Pieces(w) \subseteq Receipt!Token BY <1>1, CutFacts DEF Pieces, Receipt!Token
  <1>6. FileGrows(Pieces(w))
    <2>1. CASE sendFile' = sendFile BY <1>0, <2>1 DEF FileGrows
    <2>2. CASE Receipt!Residue(w) BY <2>2, FileAppends
    <2> QED BY <2>1, <2>2
  <1>7. /\ result' \in [SendRow -> {"none", "sending", "ok", "failed"}]
        /\ \A q \in SendRow : q # r => result'[q] = result[q]
        /\ result'[r] \in {"sending", "ok", "failed"}
        /\ result'[r] = "ok" => AllThere(r)
    BY <1>0, <1>1
  <1>8. \A v \in Receipt!Writer : v # w /\ writer[v].pc # "idle" => writer[v].row # r
    BY <1>1 DEF ReceiptInv
  <1>9. WriterOK(u)' BY <1>2, <1>4 DEF WriterOK
  <1>10. PICK S \in SUBSET (Receipt!Token) : S = Pieces(w) BY <1>5
  <1>11. /\ FileGrows(S)
         /\ \A q \in SendRow : q \in S \/ Receipt!Cut(q) \in S => q = r
    <2>1. FileGrows(S) BY <1>6, <1>10
    <2>2. \A q \in SendRow : q \in Pieces(w) \/ Receipt!Cut(q) \in Pieces(w) => q = r
      BY <1>0, <1>1, CutFacts DEF Pieces
    <2> QED BY <1>10, <2>1, <2>2
  <1>12. \A q \in SendRow : result'[q] # result[q] =>
            /\ result[q] # "ok" /\ result'[q] # "none"
            /\ \A v \in Receipt!Writer : v # w /\ writer[v].pc # "idle" => writer[v].row # q
    BY <1>1, <1>7, <1>8
  <1>13. \A q \in SendRow : result'[q] = "ok" /\ result[q] # "ok" => AllThere(q)
    BY <1>7
  <1>14. writer' = [writer EXCEPT ![w] = u] /\ u.pc = "idle" BY <1>2, <1>4
  <1>15. \A q \in SendRow : q \in S \/ Receipt!Cut(q) \in S =>
            writer[w].pc # "idle" /\ q = writer[w].row /\ result'[q] # "none"
    BY <1>1, <1>7, <1>11
  <1> QED BY <1>7, <1>15, <1>9, <1>11, <1>12, <1>13, <1>14, WriterGoes

\* A row is told ok on the exact bytes at its offset, or on a chunk behind it; either
\* way it is a line, or, to a bun writer, the last line without its newline, and a bun
\* writer misses neither.
LEMMA ReadBackIsTrue ==
    ASSUME ReceiptInv, NEW w \in Receipt!Writer, writer[w].pc = "written"
    PROVE  /\ Receipt!ReadBack(w) =>
                 \/ Receipt!Readable(writer[w].row)
                 \/ w \in Bun /\ Receipt!Unended(writer[w].row)
           /\ w \in Bun /\ (Receipt!Readable(writer[w].row) \/ Receipt!Unended(writer[w].row))
                 => Receipt!ReadBack(w)
  <1>0. /\ sendFile \in Seq(Receipt!Token) /\ Len(sendFile) \in Nat
        /\ writer[w] \in WriterRow
    BY ReceiptTypes DEF ReceiptInv
  <1> DEFINE n == writer[w].offset
             r == writer[w].row
  <1>1. n \in Nat /\ writer[w].repair \in BOOLEAN BY <1>0 DEF WriterRow
  <1>2. WriterOK(writer[w]) BY DEF ReceiptInv
  <1>3. /\ \A i \in Nat : HasText(i, r) => n < i /\ (writer[w].repair => Holds(i - 1, Newline))
        /\ ~writer[w].repair => EndsLine(n)
    BY <1>2 DEF WriterOK
  <1>a. Receipt!RowOf(w) = r BY DEF Receipt!RowOf
  <1>b. /\ Receipt!ExactAt(w) <=> n < Len(sendFile) /\ Receipt!Whole(n + 1, r)
        /\ Receipt!ScanFrom(w) <=>
              \E i \in n + 1 .. Len(sendFile) :
                 /\ i = n + 1 \/ Receipt!LineStart(i)
                 /\ Receipt!Whole(i, r) \/ (i = Len(sendFile) /\ sendFile[i] = Receipt!Cut(r))
    BY <1>a DEF Receipt!ExactAt, Receipt!ScanFrom
  <1> HIDE DEF n, r
  <1>4. \A i \in 1 .. Len(sendFile) :
           Receipt!Whole(i, r) \/ sendFile[i] = Receipt!Cut(r) => HasText(i, r)
    BY DEF Receipt!Whole, HasText
  <1>5. ASSUME HasText(n + 1, r) PROVE Receipt!LineStart(n + 1)
    <2>1. n + 1 \in Nat /\ (n + 1) - 1 = n /\ n + 1 <= Len(sendFile)
      BY <1>0, <1>1, <1>5 DEF HasText
    <2>2. CASE writer[w].repair
      <3>1. Holds(n, Newline) BY <1>3, <1>5, <2>1, <2>2
      <3> QED BY <2>1, <3>1 DEF Holds, Receipt!LineStart
    <2>3. CASE ~writer[w].repair
      <3>1. EndsLine(n) BY <1>3, <2>3
      <3>2. n = 0 \/ n \in 1 .. Len(sendFile) BY <1>0, <1>1, <2>1
      <3> QED BY <1>1, <2>1, <3>1, <3>2 DEF EndsLine, Receipt!LineStart
    <2> QED BY <1>1, <2>2, <2>3
  <1>6. ASSUME NEW i \in n + 1 .. Len(sendFile), i = n + 1 \/ Receipt!LineStart(i)
        PROVE  /\ Receipt!Whole(i, r) => Receipt!Readable(r)
               /\ i = Len(sendFile) /\ sendFile[i] = Receipt!Cut(r) => Receipt!Unended(r)
    <2>1. i \in 1 .. Len(sendFile) BY <1>0, <1>1
    <2>2. HasText(i, r) => Receipt!LineStart(i) BY <1>5, <1>6
    <2>3. Receipt!Whole(i, r) => Receipt!LineAt(i, r)
      BY <1>4, <2>1, <2>2 DEF Receipt!LineAt
    <2>4. ASSUME i = Len(sendFile), sendFile[i] = Receipt!Cut(r) PROVE Receipt!Unended(r)
      <3>1. Receipt!LineStart(i) BY <1>4, <2>1, <2>2, <2>4
      <3> QED BY <1>0, <2>1, <2>4, <3>1 DEF Receipt!Unended
    <2> QED BY <2>1, <2>3, <2>4 DEF Receipt!Readable
  <1>7. ASSUME Receipt!ExactAt(w) PROVE Receipt!Readable(r)
    <2>1. n + 1 \in n + 1 .. Len(sendFile) /\ Receipt!Whole(n + 1, r)
      BY <1>0, <1>1, <1>b, <1>7
    <2> QED BY <1>6, <2>1
  <1>8. ASSUME Receipt!ScanFrom(w) PROVE Receipt!Readable(r) \/ Receipt!Unended(r)
    BY <1>6, <1>8, <1>b
  <1>9. ASSUME NEW i \in 1 .. Len(sendFile), Receipt!LineStart(i),
               Receipt!Whole(i, r) \/ (i = Len(sendFile) /\ sendFile[i] = Receipt!Cut(r))
        PROVE  Receipt!ScanFrom(w)
    <2>1. HasText(i, r) /\ i \in Nat BY <1>0, <1>4, <1>9
    <2>2. n < i BY <1>3, <2>1
    <2>3. i \in n + 1 .. Len(sendFile) BY <1>0, <1>1, <2>1, <2>2
    <2> QED BY <1>9, <1>b, <2>3
  <1>10. ASSUME Receipt!Readable(r) PROVE Receipt!ScanFrom(w)
    <2>1. PICK i \in 1 .. Len(sendFile) : Receipt!LineAt(i, r) BY <1>10 DEF Receipt!Readable
    <2> QED BY <1>9, <2>1 DEF Receipt!LineAt
  <1>11. ASSUME Receipt!Unended(r) PROVE Receipt!ScanFrom(w)
    <2>1. PICK i \in 1 .. Len(sendFile) : i = Len(sendFile)
      BY <1>0, <1>11 DEF Receipt!Unended
    <2> QED BY <1>9, <1>11, <2>1 DEF Receipt!Unended
  <1> QED BY <1>7, <1>8, <1>10, <1>11 DEF r, Receipt!ReadBack

LEMMA AppendSteps ==
    ASSUME ReceiptInv, NEW w \in Receipt!Writer, Receipt!AppendRow(w)
    PROVE  ReceiptInv'
  <1>0. /\ sendFile \in Seq(Receipt!Token) /\ Len(sendFile) \in Nat
        /\ writer \in [Receipt!Writer -> WriterRow] /\ writer[w] \in WriterRow
        /\ result \in [SendRow -> {"none", "sending", "ok", "failed"}]
        /\ sendFaults \in [write: 0 .. MaxFault, sync: 0 .. MaxSync]
        /\ Torn \notin SendRow /\ Newline \notin SendRow /\ Torn # Newline
        /\ MaxFault \in Nat /\ MaxSync \in Nat
        /\ {Torn, Newline} \subseteq Receipt!Token /\ SendRow \subseteq Receipt!Token
    BY ReceiptTypes DEF ReceiptInv, Receipt!Token
  <1>1. Receipt!Fault => sendFaults' \in [write: 0 .. MaxFault, sync: 0 .. MaxSync]
    BY <1>0 DEF Receipt!Fault
  <1>2. sendFile' = sendFile => FileGrows({}) BY <1>0 DEF FileGrows
  <1>3. {"opened", "inspected", "written"} \subseteq Receipt!Pc BY DEF Receipt!Pc
  <1>4. writer[w].pc # "idle" =>
           /\ writer[w].row \in SendRow /\ result[writer[w].row] = "sending"
           /\ \A v \in Receipt!Writer : v # w /\ writer[v].pc # "idle" =>
                 writer[v].row # writer[w].row
    BY DEF ReceiptInv, WriterOK
  <1>5. ASSUME NEW r \in SendRow, Receipt!Open(w, r) PROVE ReceiptInv'
    <2> DEFINE t == [writer[w] EXCEPT !.pc = "opened", !.row = r]
    <2>1. t \in WriterRow /\ t.pc = "opened" /\ t.row = r BY <1>0, <1>3 DEF WriterRow
    <2>2. PICK u \in WriterRow : u = t BY <2>1
    <2>3. writer' = [writer EXCEPT ![w] = u] BY <1>0, <1>5, <2>2 DEF Receipt!Open
    <2> HIDE DEF t
    <2>4. /\ result[r] = "none" /\ result' = [result EXCEPT ![r] = "sending"]
          /\ sendFile' = sendFile /\ sendFaults' = sendFaults
      BY <1>5 DEF Receipt!Open
    <2>5. /\ result' \in [SendRow -> {"none", "sending", "ok", "failed"}]
          /\ result'[r] = "sending" /\ \A q \in SendRow : q # r => result'[q] = result[q]
      BY <1>0, <2>4
    <2>6. \A i \in Nat : ~HasText(i, r)' BY <2>4 DEF ReceiptInv, HasText, Receipt!Cut
    <2>7. WriterOK(u)' BY <2>1, <2>2, <2>5, <2>6 DEF WriterOK
    <2>8. \A v \in Receipt!Writer : writer[v].pc # "idle" => writer[v].row # r
      BY <2>4 DEF ReceiptInv, WriterOK
    <2>9. \A q \in SendRow : result'[q] # result[q] => q = r BY <2>5
    <2>10. u.row = r BY <2>1, <2>2
    <2>11. FileGrows({}) /\ sendFaults' \in [write: 0 .. MaxFault, sync: 0 .. MaxSync]
      BY <1>0, <1>2, <2>4
    <2>12. \A q \in SendRow : result'[q] # result[q] =>
              /\ result[q] # "ok" /\ result'[q] # "none"
              /\ \A v \in Receipt!Writer : v # w /\ writer[v].pc # "idle" => writer[v].row # q
      BY <2>4, <2>5, <2>8, <2>9
    <2>13. \A q \in SendRow : result'[q] = "ok" /\ result[q] # "ok" => AllThere(q)
      BY <2>5, <2>9
    <2>14. PICK S \in SUBSET (Receipt!Token) : S = {} OBVIOUS
    <2> QED BY <2>3, <2>5, <2>7, <2>8, <2>10, <2>11, <2>12, <2>13, <2>14, WriterGoes
  <1>6. ASSUME NEW u \in WriterRow, writer[w].pc # "idle", u.row = writer[w].row, u.pc # "idle",
               writer' = [writer EXCEPT ![w] = u], WriterOK(u)', result' = result,
               NEW S \in SUBSET (Receipt!Token), FileGrows(S),
               \A q \in SendRow : q \in S \/ Receipt!Cut(q) \in S => q = u.row,
               sendFaults' \in [write: 0 .. MaxFault, sync: 0 .. MaxSync]
        PROVE  ReceiptInv'
    <2>1. \A v \in Receipt!Writer : v # w /\ writer[v].pc # "idle" => writer[v].row # u.row
      BY <1>4, <1>6
    <2>2. \A r \in SendRow : r \in S \/ Receipt!Cut(r) \in S =>
              writer[w].pc # "idle" /\ r = writer[w].row /\ result'[r] # "none"
      BY <1>4, <1>6
    <2> QED BY <1>0, <1>6, <2>1, <2>2, WriterGoes
  <1>7. CASE Receipt!Inspect(w)
    <2> DEFINE n == IF Receipt!TornTail THEN Len(sendFile) + 1 ELSE Len(sendFile)
               t == [writer[w] EXCEPT !.pc = "inspected", !.repair = Receipt!TornTail,
                                      !.offset = n]
    <2>0. Receipt!TornTail \in BOOLEAN BY DEF Receipt!TornTail
    <2>1. n \in Nat BY <1>0
    <2> HIDE DEF n
    <2>2. /\ t \in WriterRow /\ t.pc = "inspected" /\ t.row = writer[w].row
          /\ t.repair = Receipt!TornTail /\ t.offset = n
      BY <1>0, <1>3, <2>0, <2>1 DEF WriterRow
    <2>3. PICK u \in WriterRow : u = t BY <2>2
    <2>4. writer' = [writer EXCEPT ![w] = u] BY <1>0, <1>7, <2>3 DEF Receipt!Inspect, n
    <2> HIDE DEF t
    <2>5. writer[w].pc = "opened" /\ UNCHANGED <<sendFile, result, sendFaults>>
      BY <1>7 DEF Receipt!Inspect, Receipt!At
    <2>6. /\ u.row \in SendRow /\ result'[u.row] = "sending"
          /\ \A i \in Nat : ~HasText(i, u.row)'
      BY <1>4, <2>2, <2>3, <2>5 DEF ReceiptInv, WriterOK, HasText, Receipt!Cut
    <2>7. IF u.repair THEN u.offset <= Len(sendFile') + 1
          ELSE u.offset <= Len(sendFile') /\ EndsLine(u.offset)'
      <3>1. sendFile' = sendFile /\ u.repair = Receipt!TornTail /\ u.offset = n
        BY <2>2, <2>3, <2>5
      <3>2. CASE Receipt!TornTail
        <4>1. n = Len(sendFile) + 1 BY <3>2 DEF n
        <4> QED BY <1>0, <3>1, <3>2, <4>1
      <3>3. CASE ~Receipt!TornTail
        <4>1. n = Len(sendFile) BY <3>3 DEF n
        <4>2. EndsLine(n) BY <1>0, <3>3, <4>1 DEF EndsLine, Receipt!TornTail
        <4>3. EndsLine(u.offset)' BY <3>1, <4>2 DEF EndsLine
        <4> QED BY <1>0, <3>1, <3>3, <4>1, <4>3
      <3> QED BY <3>2, <3>3
    <2>8. WriterOK(u)' BY <2>2, <2>3, <2>6, <2>7 DEF WriterOK
    <2>9. PICK S \in SUBSET (Receipt!Token) : S = {} OBVIOUS
    <2>10. FileGrows(S) BY <1>2, <2>5, <2>9
    <2> QED BY <1>0, <1>6, <2>2, <2>3, <2>4, <2>5, <2>8, <2>9, <2>10
  <1>8. ASSUME writer[w].pc = "inspected",
               \/ sendFile' = sendFile \o Receipt!Repair(w) \o <<Receipt!RowOf(w)>>
               \/ Receipt!Residue(w),
               writer' = [writer EXCEPT ![w].pc = "written"], result' = result,
               sendFaults' \in [write: 0 .. MaxFault, sync: 0 .. MaxSync]
        PROVE  ReceiptInv'
    <2> DEFINE t == [writer[w] EXCEPT !.pc = "written"]
    <2>1. /\ t \in WriterRow /\ t.pc = "written" /\ t.row = writer[w].row
          /\ t.repair = writer[w].repair /\ t.offset = writer[w].offset /\ t.offset \in Nat
          /\ t.repair \in BOOLEAN
      BY <1>0, <1>3 DEF WriterRow
    <2>2. PICK u \in WriterRow : u = t BY <2>1
    <2>3. writer' = [writer EXCEPT ![w] = u] BY <1>0, <1>8, <2>2
    <2> HIDE DEF t
    <2>4. writer[w].pc # "idle" /\ writer[w].row \in SendRow BY <1>4, <1>8
    <2>5. /\ FileGrows(Pieces(w)) /\ Pieces(w) \subseteq Receipt!Token
          /\ \A i \in 1 .. Len(sendFile') :
                i > Len(sendFile) /\ sendFile'[i] # Newline /\ writer[w].repair =>
                   i > Len(sendFile) + 1 /\ sendFile'[i - 1] = Newline
      BY <1>8, <2>4, FileAppends
    <2>6. Len(sendFile') \in Nat BY <2>5 DEF FileGrows
    <2>7. WriterOK(writer[w]) BY DEF ReceiptInv
    <2>8. u.row = writer[w].row /\ u.repair = writer[w].repair /\ u.offset = writer[w].offset
      BY <2>1, <2>2
    <2>9. IF u.repair THEN u.offset <= Len(sendFile) + 1
          ELSE u.offset <= Len(sendFile) /\ EndsLine(u.offset)
      BY <1>8, <2>7, <2>8 DEF WriterOK
    <2>10. IF u.repair THEN u.offset <= Len(sendFile') + 1
           ELSE u.offset <= Len(sendFile') /\ EndsLine(u.offset)'
      BY <1>0, <2>1, <2>5, <2>6, <2>8, <2>9 DEF EndsLine, FileGrows
    <2>11. ASSUME NEW i \in Nat, HasText(i, u.row)'
           PROVE  u.offset < i /\ (u.repair => Holds(i - 1, Newline)')
      <3>1. i \in 1 .. Len(sendFile') /\ sendFile'[i] \in {u.row, Receipt!Cut(u.row)}
        BY <2>11 DEF HasText, Receipt!Cut
      <3>2. ~HasText(i, u.row) BY <1>8, <2>7, <2>8 DEF WriterOK
      <3>3. i > Len(sendFile) BY <1>0, <2>5, <3>1, <3>2 DEF HasText, FileGrows
      <3>4. sendFile'[i] # Newline BY <1>0, <2>4, <2>8, <3>1, CutFacts
      <3>5. u.repair => i > Len(sendFile) + 1 /\ sendFile'[i - 1] = Newline
        BY <2>5, <2>8, <3>1, <3>3, <3>4
      <3>6. u.offset < i BY <1>0, <2>1, <2>8, <2>9, <3>3, <3>5
      <3> QED BY <1>0, <2>6, <3>1, <3>5, <3>6 DEF Holds
    <2>12. u.row \in SendRow /\ result'[u.row] = "sending" BY <1>4, <1>8, <2>8
    <2>13. WriterOK(u)'
      BY <2>1, <2>2, <2>10, <2>11, <2>12 DEF WriterOK
    <2>14. PICK S \in SUBSET (Receipt!Token) : S = Pieces(w) BY <2>5
    <2>15. \A q \in SendRow : q \in Pieces(w) \/ Receipt!Cut(q) \in Pieces(w) => q = u.row
      BY <1>0, <2>4, <2>8, CutFacts DEF Pieces
    <2>16. FileGrows(S) /\ \A q \in SendRow : q \in S \/ Receipt!Cut(q) \in S => q = u.row
      BY <2>5, <2>14, <2>15
    <2> QED BY <1>6, <1>8, <2>1, <2>2, <2>3, <2>4, <2>13, <2>16
  <1>9. CASE Receipt!Write(w)
    <2>1. /\ writer[w].pc = "inspected"
          /\ sendFile' = sendFile \o Receipt!Repair(w) \o <<Receipt!RowOf(w)>>
      BY <1>9 DEF Receipt!Write, Receipt!At
    <2>2. writer' = [writer EXCEPT ![w].pc = "written"] /\ UNCHANGED <<result, sendFaults>>
      BY <1>9 DEF Receipt!Write
    <2> QED BY <1>0, <1>8, <2>1, <2>2
  <1>10. CASE Receipt!ShortWrite(w)
    <2>1. writer[w].pc = "inspected" /\ Receipt!Residue(w) /\ Receipt!Fault
      BY <1>10 DEF Receipt!ShortWrite, Receipt!At
    <2>2. CASE writer' = [writer EXCEPT ![w].pc = "written"] /\ result' = result
      BY <1>1, <1>8, <2>1, <2>2
    <2>3. CASE Receipt!Finish(w, "failed")
      <3>1. /\ writer' = [writer EXCEPT ![w] = Receipt!Idle]
            /\ result' = [result EXCEPT ![writer[w].row] = "failed"]
        BY <2>3 DEF Receipt!Finish, Receipt!RowOf
      <3> QED BY <1>1, <2>1, <3>1, WriterEnds
    <2> QED BY <1>10, <2>2, <2>3 DEF Receipt!ShortWrite
  <1>11. CASE Receipt!Verify(w)
    <2>1. writer[w].pc = "written" /\ UNCHANGED <<sendFile, sendFaults>>
      BY <1>11 DEF Receipt!Verify, Receipt!At
    <2>2. /\ writer' = [writer EXCEPT ![w] = Receipt!Idle]
          /\ result' = [result EXCEPT ![writer[w].row] =
                IF Receipt!ReadBack(w) THEN "ok" ELSE "failed"]
      BY <1>11 DEF Receipt!Verify, Receipt!Finish, Receipt!RowOf
    <2>3. Receipt!ReadBack(w) => AllThere(writer[w].row)
      <3>1. Receipt!Unended(writer[w].row) => AllThere(writer[w].row)
        BY <1>0 DEF Receipt!Unended, AllThere
      <3> QED BY <2>1, <3>1, ReadBackIsTrue DEF AllThere
    <2>4. CASE Receipt!ReadBack(w) BY <1>0, <2>1, <2>2, <2>3, <2>4, WriterEnds
    <2>5. CASE ~Receipt!ReadBack(w) BY <1>0, <2>1, <2>2, <2>5, WriterEnds
    <2> QED BY <2>4, <2>5
  <1>12. CASE Receipt!AppendFails(w) \/ Receipt!SyncFails(w)
    <2>1. /\ writer[w].pc # "idle" /\ sendFile' = sendFile
          /\ sendFaults' \in [write: 0 .. MaxFault, sync: 0 .. MaxSync]
      BY <1>0, <1>1, <1>12 DEF Receipt!AppendFails, Receipt!SyncFails, Receipt!At
    <2>2. /\ writer' = [writer EXCEPT ![w] = Receipt!Idle]
          /\ result' = [result EXCEPT ![writer[w].row] = "failed"]
      BY <1>12 DEF Receipt!AppendFails, Receipt!SyncFails, Receipt!Finish, Receipt!RowOf
    <2> QED BY <2>1, <2>2, WriterEnds
  <1>13. CASE Receipt!Die(w)
    <2>1. /\ writer[w].pc # "idle" /\ (sendFile' = sendFile \/ Receipt!Residue(w))
          /\ writer' = [writer EXCEPT ![w] = Receipt!Idle] /\ result' = result
          /\ Receipt!Fault
      BY <1>13 DEF Receipt!Die, Receipt!At
    <2> QED BY <1>1, <2>1, WriterEnds
  <1> QED BY <1>5, <1>7, <1>9, <1>10, <1>11, <1>12, <1>13 DEF Receipt!AppendRow

LEMMA ReceiptInit == ASSUME Receipt!Init PROVE ReceiptInv
  <1>0. MaxFault \in Nat /\ MaxSync \in Nat BY ReceiptAssumption
  <1>1. Receipt!Idle \in WriterRow /\ Receipt!Idle.pc = "idle"
    BY DEF Receipt!Idle, WriterRow, Receipt!Pc
  <1>2. \A w \in Receipt!Writer : writer[w] = Receipt!Idle BY DEF Receipt!Init
  <1>3. \A w \in Receipt!Writer : WriterOK(writer[w]) BY <1>1, <1>2 DEF WriterOK
  <1>4. writer \in [Receipt!Writer -> WriterRow] BY <1>1 DEF Receipt!Init
  <1>5. sendFile = <<>> /\ sendFile \in Seq(Receipt!Token) BY DEF Receipt!Init
  <1>6. sendFaults \in [write: 0 .. MaxFault, sync: 0 .. MaxSync] BY <1>0 DEF Receipt!Init
  <1>7. Receipt!TypeOK
    BY <1>1, <1>2, <1>4, <1>5, <1>6 DEF Receipt!TypeOK, Receipt!Init, WriterRow
  <1>8. \A r \in SendRow : result[r] # "ok" BY DEF Receipt!Init
  <1>9. \A r, i : ~HasText(i, r) BY <1>5 DEF HasText
  <1> QED BY <1>1, <1>2, <1>3, <1>7, <1>8, <1>9 DEF ReceiptInv

\* What a step does to a row that was readable, and to the verdict of a writer.
ReadableGoes == \A r \in SendRow : Receipt!Readable(r) => Receipt!Readable(r)'
VerdictGoes ==
    \A w \in Receipt!Writer : Receipt!Verify(w) =>
       /\ w \in Python /\ result'[Receipt!RowOf(w)] = "ok" =>
             Receipt!Readable(Receipt!RowOf(w))
       /\ w \in Bun => (result'[Receipt!RowOf(w)] = "ok" <=>
             Receipt!Readable(Receipt!RowOf(w)) \/ Receipt!Unended(Receipt!RowOf(w)))

LEMMA ReceiptNext ==
    ASSUME ReceiptInv, [StoresNext]_storesVars
    PROVE  ReceiptInv' /\ ReadableGoes /\ VerdictGoes
  <1>0. /\ sendFile \in Seq(Receipt!Token) /\ Len(sendFile) \in Nat
        /\ writer \in [Receipt!Writer -> WriterRow]
        /\ result \in [SendRow -> {"none", "sending", "ok", "failed"}]
    BY ReceiptTypes DEF ReceiptInv
  <1>1. VerdictGoes
    <2>1. ASSUME NEW w \in Receipt!Writer, Receipt!Verify(w)
          PROVE  /\ w \in Python /\ result'[Receipt!RowOf(w)] = "ok" =>
                       Receipt!Readable(Receipt!RowOf(w))
                 /\ w \in Bun => (result'[Receipt!RowOf(w)] = "ok" <=>
                       \/ Receipt!Readable(Receipt!RowOf(w))
                       \/ Receipt!Unended(Receipt!RowOf(w)))
      <3>1. writer[w].pc = "written" BY <2>1 DEF Receipt!Verify, Receipt!At
      <3>2. writer[w].row \in SendRow BY <3>1 DEF ReceiptInv, WriterOK
      <3>3. result'[writer[w].row] = IF Receipt!ReadBack(w) THEN "ok" ELSE "failed"
        BY <1>0, <2>1, <3>2 DEF Receipt!Verify, Receipt!Finish, Receipt!RowOf
      <3>4. w \in Python => w \notin Bun BY ReceiptAssumption
      <3> QED BY <3>1, <3>3, <3>4, ReadBackIsTrue DEF Receipt!RowOf
    <2> QED BY <2>1 DEF VerdictGoes
  <1>2. CASE UNCHANGED sends
    <2>1. UNCHANGED <<sendFile, writer, result, sendFaults>> BY <1>2 DEF sends
    <2>2. ReceiptInv'
      BY <2>1 DEF ReceiptInv, Receipt!TypeOK, AllThere, Receipt!Readable, Receipt!LineAt,
                  Receipt!LineStart, Receipt!Whole, Receipt!Cut, WriterOK, Holds, HasText, EndsLine
    <2>3. ReadableGoes
      BY <2>1 DEF ReadableGoes, Receipt!Readable, Receipt!LineAt, Receipt!LineStart,
                  Receipt!Whole, Receipt!Cut
    <2> QED BY <1>1, <2>2, <2>3
  <1>3. CASE Receipt!Next
    <2>1. PICK w \in Receipt!Writer : Receipt!AppendRow(w) BY <1>3 DEF Receipt!Next
    <2>2. ReceiptInv' BY <2>1, AppendSteps
    <2>3. \E S : FileGrows(S)
      <3>1. sendFile' = sendFile => FileGrows({}) BY <1>0 DEF FileGrows
      <3>2. \/ sendFile' = sendFile
            \/ /\ writer[w].pc # "idle"
               /\ \/ sendFile' = sendFile \o Receipt!Repair(w) \o <<Receipt!RowOf(w)>>
                  \/ Receipt!Residue(w)
        BY <2>1 DEF Receipt!AppendRow, Receipt!Open, Receipt!Inspect, Receipt!Write,
                    Receipt!Verify, Receipt!ShortWrite, Receipt!AppendFails, Receipt!SyncFails,
                    Receipt!Die, Receipt!At
      <3> QED BY <3>1, <3>2, FileAppends
    <2>4. PICK S : FileGrows(S) BY <2>3
    <2>5. ReadableGoes BY <2>4, ReadableGrows DEF ReadableGoes
    <2> QED BY <1>1, <2>2, <2>5
  <1> QED
    BY <1>2, <1>3 DEF StoresNext, InboxSteps, ReceiptSteps, MirrorSteps, PackageSteps, Rest,
                      storesVars

LEMMA ReceiptSafe == StoresSpec => []ReceiptInv
  <1>1. StoresInit => ReceiptInv BY ReceiptInit DEF StoresInit
  <1>2. ReceiptInv /\ [StoresNext]_storesVars => ReceiptInv' BY ReceiptNext
  <1> QED BY <1>1, <1>2, PTL DEF StoresSpec

\* appendLineWithReceipt and _append_row_durable, whatever the number of bun daemons,
\* relays and rows and wherever writers race, run out of space or die: a row whose
\* sender was told ok is a line that every consumer parses, or its write stopped right
\* before the newline; a readable row stays readable; a relay's ok means a readable
\* row, and the verdict of a bun writer is exact but for the missing newline.
THEOREM SendsTrue == StoresSpec => SendsAreTrue
  <1>1. ReceiptInv => Receipt!OkMeansComplete
    BY DEF ReceiptInv, AllThere, Receipt!OkMeansComplete
  <1>2. ReceiptInv /\ [StoresNext]_storesVars =>
          [\A r \in SendRow : Receipt!Readable(r) => Receipt!Readable(r)']_(Receipt!vars)
    BY ReceiptNext DEF ReadableGoes
  <1>3. ReceiptInv /\ [StoresNext]_storesVars =>
          [\A w \in Receipt!Writer : Receipt!Verify(w) =>
              /\ w \in Python /\ result'[Receipt!RowOf(w)] = "ok" =>
                    Receipt!Readable(Receipt!RowOf(w))
              /\ w \in Bun => (result'[Receipt!RowOf(w)] = "ok" <=>
                    Receipt!Readable(Receipt!RowOf(w)) \/ Receipt!Unended(Receipt!RowOf(w)))
          ]_(Receipt!vars)
    BY ReceiptNext DEF VerdictGoes
  <1> QED BY <1>1, <1>2, <1>3, ReceiptSafe, PTL
          DEF StoresSpec, SendsAreTrue, Receipt!ReadableStays, Receipt!VerdictIsTrue

-----------------------------------------------------------------------------
(* CutoverMirror.  The holder of the lock has the last committed state of  *)
(* its role and, while every read succeeds, the whole projection.          *)

CallRow == [pc: Mirror!Pc, role: Role \union {None}, at: 0 .. MaxClock,
            value: Mirror!State, data: Mirror!Mirror \union {None}]
Entry == [at: 0 .. MaxClock, value: Mirror!State]
InLock == {"locked", "project", "replace"}

\* The last commit, which Latest chooses.
Top(n) == (\E r \in Role : db[r] = n) /\ \A r \in Role : db[r] <= n

\* What the call of p relies on when it goes on with record t.
CallOK(p, t) ==
    /\ t.pc # "idle" => t.role \in Role
    /\ t.pc = "fallback" => p \in Relay
    /\ t.at <= clock
    /\ t.pc \in {"project", "replace"} => t.value = db[t.role]
    /\ t.pc = "replace" =>
          /\ t.data \in Mirror!Mirror /\ \A r \in Role : t.data[r] <= db[r]
          /\ unread = 0 => t.data = mirror
    /\ p \in Relay /\ t.pc = "answer" /\ unread = 0 =>
          \A c \in confirmed : c[1] = t.role /\ c[3] + TTL <= t.at => t.value >= c[2]

\* A cached answer shows what was confirmed before it was asked for.
EntryOK(e, r) ==
    e # None =>
        /\ e.at <= clock
        /\ unread = 0 => \A c \in confirmed : c[1] = r /\ c[3] < e.at => e.value >= c[2]

MirrorWorld ==
    /\ db \in [Role -> Mirror!State] /\ mirror \in [Role -> Mirror!State]
    /\ cache \in [Relay -> [Role -> Entry \union {None}]]
    /\ clock \in 0 .. MaxClock /\ unread \in 0 .. MaxUnread
    /\ confirmed \subseteq Role \X Mirror!State \X (0 .. MaxClock)
    /\ Role # {} => \E n \in Mirror!State : Top(n)
    /\ Mirror!MirrorIsCommitted /\ Mirror!MirrorKeepsConfirmed
    /\ \A c \in confirmed : c[2] <= db[c[1]]
    /\ \A p \in Relay, r \in Role : EntryOK(cache[p][r], r)

MirrorInv ==
    /\ MirrorWorld
    /\ proc \in [Mirror!Process -> CallRow]
    /\ \A p \in Mirror!Process : CallOK(p, proc[p])
    /\ \A p, q \in Mirror!Process : proc[p].pc \in InLock /\ proc[q].pc \in InLock => p = q

LEMMA MirrorTypes ==
    ASSUME MirrorInv
    PROVE  Mirror!TypeOK
  <1>1. \A p \in Mirror!Process : proc[p].pc = "replace" => proc[p].data \in Mirror!Mirror
    BY DEF MirrorInv, CallOK
  <1> QED BY <1>1 DEF MirrorInv, MirrorWorld, Mirror!TypeOK, Mirror!Mirror, CallRow, Entry

LEMMA MirrorConstants ==
    /\ Mirror!State \subseteq Nat /\ 0 \in Mirror!State /\ TTL \in Nat /\ TTL > 0
    /\ MaxClock \in Nat /\ MaxUnread \in Nat /\ MaxSet \in Nat
    /\ Setter \cap Relay = {} /\ Mirror!Process = Setter \union Relay
  BY MirrorAssumption DEF Mirror!State, Mirror!Process

LEMMA ConfirmedRows ==
    ASSUME MirrorWorld, NEW c \in confirmed
    PROVE  c[1] \in Role /\ c[2] \in Mirror!State /\ c[2] \in Nat /\ c[3] \in Nat
  <1>1. c \in Role \X Mirror!State \X (0 .. MaxClock) BY DEF MirrorWorld
  <1>2. PICK x \in Role, y \in Mirror!State, z \in 0 .. MaxClock : c = <<x, y, z>> BY <1>1
  <1> QED BY <1>2, MirrorConstants

\* Time goes on, commits are never taken back, and what is confirmed anew is
\* confirmed now.
Later ==
    /\ clock' \in 0 .. MaxClock /\ clock <= clock'
    /\ unread' \in 0 .. MaxUnread /\ (unread' = 0 => unread = 0)
    /\ db' \in [Role -> Mirror!State] /\ \A r \in Role : db[r] <= db'[r]
    /\ \A c \in confirmed' : c \in confirmed \/ c[3] = clock

LEMMA EntryStays ==
    ASSUME MirrorInv, Later, NEW r \in Role, NEW e \in Entry \union {None}, EntryOK(e, r)
    PROVE  EntryOK(e, r)'
  <1>1. CASE e # None
    <2>0. clock \in 0 .. MaxClock /\ clock' \in 0 .. MaxClock
      BY DEF MirrorInv, MirrorWorld, Later
    <2>1. e.at \in Nat /\ e.value \in Nat /\ clock \in Nat /\ clock' \in Nat
      <3>1. e.at \in 0 .. MaxClock /\ e.value \in Mirror!State BY <1>1 DEF Entry
      <3>2. e.at \in Nat /\ clock \in Nat /\ clock' \in Nat BY <2>0, <3>1
      <3> QED BY <3>1, <3>2, MirrorConstants
    <2>2. e.at <= clock' BY <1>1, <2>1 DEF EntryOK, Later
    <2>3. ASSUME unread' = 0, NEW c \in confirmed', c[1] = r, c[3] < e.at PROVE e.value >= c[2]
      <3>1. CASE c \in confirmed BY <1>1, <2>3, <3>1 DEF EntryOK, Later
      <3>2. CASE c[3] = clock BY <1>1, <2>1, <2>3, <3>2 DEF EntryOK
      <3> QED BY <2>3, <3>1, <3>2 DEF Later
    <2> QED BY <2>2, <2>3 DEF EntryOK
  <1>2. CASE e = None BY <1>2 DEF EntryOK
  <1> QED BY <1>1, <1>2

\* A call that the step is not about: it does not hold the lock, or the step
\* changes neither the database nor the mirror.
LEMMA CallStays ==
    ASSUME MirrorInv, Later, NEW p \in Mirror!Process, NEW t \in CallRow, CallOK(p, t),
           t.pc \in InLock => UNCHANGED <<db, mirror>>
    PROVE  CallOK(p, t)'
  <1>a. clock \in 0 .. MaxClock /\ clock' \in 0 .. MaxClock
    BY DEF MirrorInv, MirrorWorld, Later
  <1>0. t.at \in Nat /\ t.value \in Nat /\ clock \in Nat /\ clock' \in Nat /\ TTL \in Nat /\ TTL > 0
    <2>1. t.at \in 0 .. MaxClock /\ t.value \in Mirror!State BY DEF CallRow
    <2>2. t.at \in Nat /\ clock \in Nat /\ clock' \in Nat BY <1>a, <2>1
    <2> QED BY <2>1, <2>2, MirrorConstants
  <1>1. t.at <= clock' BY <1>0 DEF CallOK, Later
  <1>2. t.pc \in {"project", "replace"} => t.value = db'[t.role] BY DEF CallOK, InLock
  <1>3. t.pc = "replace" =>
           /\ t.data \in Mirror!Mirror /\ \A r \in Role : t.data[r] <= db'[r]
           /\ unread' = 0 => t.data = mirror'
    BY DEF CallOK, InLock, Later
  <1>4. ASSUME p \in Relay, t.pc = "answer", unread' = 0,
               NEW c \in confirmed', c[1] = t.role, c[3] + TTL <= t.at
        PROVE  t.value >= c[2]
    <2>1. CASE c \in confirmed BY <1>4, <2>1 DEF CallOK, Later
    <2>2. CASE c[3] = clock BY <1>0, <1>4, <2>2 DEF CallOK
    <2> QED BY <1>4, <2>1, <2>2 DEF Later
  <1>5. (t.pc # "idle" => t.role \in Role) /\ (t.pc = "fallback" => p \in Relay) BY DEF CallOK
  <1> QED BY <1>1, <1>2, <1>3, <1>4, <1>5 DEF CallOK

\* The call of p goes on with record t.
LEMMA CallGoes ==
    ASSUME MirrorInv, Later, MirrorWorld', NEW p \in Mirror!Process, NEW t \in CallRow,
           proc' = [proc EXCEPT ![p] = t], CallOK(p, t)',
           UNCHANGED <<db, mirror>> \/ proc[p].pc \in InLock,
           t.pc \in InLock => proc[p].pc \in InLock \/ Mirror!LockFree
    PROVE  MirrorInv'
  <1>0. proc \in [Mirror!Process -> CallRow] BY DEF MirrorInv
  <1>1. /\ proc' \in [Mirror!Process -> CallRow] /\ proc'[p] = t
        /\ \A q \in Mirror!Process : q # p => proc'[q] = proc[q]
    BY <1>0
  <1>2. ASSUME NEW q \in Mirror!Process PROVE CallOK(q, proc[q])'
    <2>1. CASE q = p BY <1>1, <2>1 DEF CallOK
    <2>2. CASE q # p
      <3>1. PICK u \in CallRow : u = proc[q] BY <1>0
      <3>2. CallOK(q, u) BY <3>1 DEF MirrorInv
      <3>3. u.pc \in InLock => UNCHANGED <<db, mirror>> BY <2>2, <3>1 DEF MirrorInv
      <3>4. CallOK(q, u)' BY <3>2, <3>3, CallStays
      <3> QED BY <1>1, <2>2, <3>1, <3>4 DEF CallOK
    <2> QED BY <2>1, <2>2
  <1>3. ASSUME NEW q \in Mirror!Process, NEW o \in Mirror!Process,
               proc'[q].pc \in InLock, proc'[o].pc \in InLock
        PROVE  q = o
    <2>1. Mirror!LockFree => \A x \in Mirror!Process : proc[x].pc \notin InLock
      BY DEF Mirror!LockFree, InLock
    <2> QED BY <1>1, <1>3, <2>1 DEF MirrorInv
  <1> QED BY <1>1, <1>2, <1>3 DEF MirrorInv

\* A step that leaves the database alone.
LEMMA WorldGoes ==
    ASSUME MirrorInv, db' = db, mirror' \in [Role -> Mirror!State],
           \A r \in Role : mirror'[r] <= db[r],
           cache' \in [Relay -> [Role -> Entry \union {None}]],
           \A p \in Relay, r \in Role : cache'[p][r] = cache[p][r] \/ EntryOK(cache[p][r], r)',
           clock' \in 0 .. MaxClock, clock <= clock',
           unread' \in 0 .. MaxUnread, unread' = 0 => unread = 0,
           confirmed' \subseteq Role \X Mirror!State \X (0 .. MaxClock),
           \A c \in confirmed' : c \in confirmed \/ (c[3] = clock /\ c[2] <= db[c[1]]),
           unread' = 0 => \A c \in confirmed' : mirror'[c[1]] >= c[2]
    PROVE  MirrorWorld' /\ Later
  <1>0. db \in [Role -> Mirror!State] BY DEF MirrorInv, MirrorWorld
  <1>1. \A r \in Role : db[r] <= db'[r]
    <2>1. \A r \in Role : db[r] \in Nat BY <1>0, MirrorConstants
    <2> QED BY <2>1
  <1>2. Later BY <1>0, <1>1 DEF Later
  <1>3. ASSUME NEW p \in Relay, NEW r \in Role PROVE EntryOK(cache[p][r], r)'
    <2>1. CASE cache'[p][r] = cache[p][r]
      <3>1. PICK e \in Entry \union {None} : e = cache[p][r] BY DEF MirrorInv, MirrorWorld
      <3>2. EntryOK(e, r) BY <3>1 DEF MirrorInv, MirrorWorld
      <3>3. EntryOK(e, r)' BY <1>2, <3>2, EntryStays
      <3> QED BY <2>1, <3>1, <3>3 DEF EntryOK
    <2> QED BY <2>1
  <1>4. (Role # {} => \E n \in Mirror!State : Top(n))'
    BY DEF MirrorInv, MirrorWorld, Top
  <1>5. Mirror!MirrorIsCommitted' BY DEF Mirror!MirrorIsCommitted
  <1>6. Mirror!MirrorKeepsConfirmed' BY DEF Mirror!MirrorKeepsConfirmed
  <1>7. \A c \in confirmed' : c[2] <= db'[c[1]] BY DEF MirrorInv, MirrorWorld
  <1> QED BY <1>0, <1>2, <1>3, <1>4, <1>5, <1>6, <1>7 DEF MirrorWorld

\* One that leaves everything but the calls alone.
LEMMA WorldStays ==
    ASSUME MirrorInv, UNCHANGED <<db, mirror, cache, clock, unread, confirmed>>
    PROVE  MirrorWorld' /\ Later
  <1>0. /\ mirror \in [Role -> Mirror!State] /\ clock \in 0 .. MaxClock /\ clock <= clock
        /\ cache \in [Relay -> [Role -> Entry \union {None}]] /\ unread \in 0 .. MaxUnread
        /\ confirmed \subseteq Role \X Mirror!State \X (0 .. MaxClock)
        /\ \A r \in Role : mirror[r] <= db[r]
        /\ unread = 0 => \A c \in confirmed : mirror[c[1]] >= c[2]
    BY DEF MirrorInv, MirrorWorld, Mirror!MirrorIsCommitted, Mirror!MirrorKeepsConfirmed
  <1>1. /\ db' = db /\ mirror' \in [Role -> Mirror!State] /\ \A r \in Role : mirror'[r] <= db[r]
        /\ cache' \in [Relay -> [Role -> Entry \union {None}]]
        /\ \A p \in Relay, r \in Role : cache'[p][r] = cache[p][r]
    BY <1>0
  <1>2. /\ clock' \in 0 .. MaxClock /\ clock <= clock' /\ unread' \in 0 .. MaxUnread
        /\ unread' = 0 => unread = 0
    BY <1>0
  <1>3. /\ confirmed' \subseteq Role \X Mirror!State \X (0 .. MaxClock)
        /\ \A c \in confirmed' : c \in confirmed
        /\ unread' = 0 => \A c \in confirmed' : mirror'[c[1]] >= c[2]
    BY <1>0
  <1> QED BY <1>1, <1>2, <1>3, WorldGoes

\* The upsert: a new last commit, behind which no role falls.
LEMMA WorldCommits ==
    ASSUME MirrorInv, NEW r \in Role, Mirror!Latest < MaxSet,
           db' = [db EXCEPT ![r] = Mirror!Latest + 1],
           UNCHANGED <<mirror, cache, clock, unread, confirmed>>
    PROVE  /\ MirrorWorld' /\ Later
           /\ Mirror!Latest + 1 \in Mirror!State /\ db'[r] = Mirror!Latest + 1
  <1>0. /\ db \in [Role -> Mirror!State] /\ clock \in 0 .. MaxClock
        /\ mirror \in [Role -> Mirror!State] /\ unread \in 0 .. MaxUnread
        /\ Role # {} => \E n \in Mirror!State : Top(n)
    BY DEF MirrorInv, MirrorWorld
  <1>1. Mirror!Latest \in Mirror!State /\ Top(Mirror!Latest) BY <1>0 DEF Mirror!Latest, Top
  <1>2. PICK m \in Mirror!State : m = Mirror!Latest BY <1>1
  <1>3. m \in Nat /\ m < MaxSet /\ MaxSet \in Nat BY <1>2, MirrorConstants
  <1>4. m + 1 \in Mirror!State BY <1>3 DEF Mirror!State
  <1>5. \A q \in Role : db[q] \in Nat /\ db[q] <= m BY <1>0, <1>1, <1>2, MirrorConstants DEF Top
  <1>6. db' = [db EXCEPT ![r] = m + 1] BY <1>2
  <1>7. /\ db' \in [Role -> Mirror!State] /\ db'[r] = m + 1
        /\ \A q \in Role : q # r => db'[q] = db[q]
    BY <1>0, <1>4, <1>6
  <1>8. \A q \in Role : db'[q] \in Nat /\ db[q] <= db'[q] /\ db'[q] <= m + 1
    BY <1>3, <1>5, <1>7
  <1>9. Top(m + 1)' BY <1>7, <1>8 DEF Top
  <1>10. clock <= clock' BY <1>0
  <1>11. Later BY <1>0, <1>7, <1>8, <1>10 DEF Later
  <1>12. \A q \in Role : mirror[q] \in Nat /\ mirror[q] <= db[q]
    BY <1>0, MirrorConstants DEF MirrorInv, MirrorWorld, Mirror!MirrorIsCommitted
  <1>13. Mirror!MirrorIsCommitted' BY <1>5, <1>8, <1>12 DEF Mirror!MirrorIsCommitted
  <1>14. Mirror!MirrorKeepsConfirmed'
    BY DEF MirrorInv, MirrorWorld, Mirror!MirrorKeepsConfirmed
  <1>15. ASSUME NEW c \in confirmed' PROVE c[2] <= db'[c[1]]
    <2>1. c[1] \in Role /\ c[2] \in Nat BY ConfirmedRows DEF MirrorInv
    <2>2. c[2] <= db[c[1]] BY DEF MirrorInv, MirrorWorld
    <2> QED BY <1>5, <1>8, <2>1, <2>2
  <1>16. \A p \in Relay, q \in Role : EntryOK(cache[p][q], q)'
    BY DEF MirrorInv, MirrorWorld, EntryOK
  <1>17. MirrorWorld'
    <2>1. (Role # {} => \E n \in Mirror!State : Top(n))' BY <1>4, <1>9
    <2> QED BY <1>7, <1>13, <1>14, <1>15, <1>16, <2>1 DEF MirrorInv, MirrorWorld
  <1> QED BY <1>2, <1>4, <1>7, <1>11, <1>17

\* A call that returns, or whose process dies.
LEMMA CallReturns ==
    ASSUME MirrorInv, Later, MirrorWorld', NEW p \in Mirror!Process, Mirror!Return(p),
           UNCHANGED <<db, mirror>> \/ proc[p].pc \in InLock
    PROVE  MirrorInv'
  <1>1. Mirror!Idle \in CallRow /\ Mirror!Idle.pc = "idle" /\ Mirror!Idle.at = 0
    BY MirrorConstants DEF Mirror!Idle, CallRow, Mirror!Pc
  <1>2. PICK u \in CallRow : u = Mirror!Idle BY <1>1
  <1>3. clock' \in 0 .. MaxClock BY DEF Later
  <1>4. u.at <= clock' BY <1>1, <1>2, <1>3
  <1>5. CallOK(p, u)' BY <1>1, <1>2, <1>4 DEF CallOK
  <1>6. proc' = [proc EXCEPT ![p] = u] /\ u.pc \notin InLock
    BY <1>1, <1>2 DEF Mirror!Return, InLock
  <1> QED BY <1>5, <1>6, CallGoes

\* A call that takes the lock, or gives the database up.
LEMMA CallMoves ==
    ASSUME MirrorInv, UNCHANGED <<db, mirror, cache, clock, unread, confirmed>>,
           NEW p \in Mirror!Process, proc[p].pc # "idle", NEW pc \in {"locked", "fallback"},
           Mirror!Goto(p, pc), pc = "locked" => Mirror!LockFree, pc = "fallback" => p \in Relay
    PROVE  MirrorInv'
  <1>0. proc \in [Mirror!Process -> CallRow] /\ proc[p] \in CallRow /\ CallOK(p, proc[p])
    BY DEF MirrorInv
  <1> DEFINE t == [proc[p] EXCEPT !.pc = pc]
  <1>1. /\ t \in CallRow /\ t.pc = pc /\ t.role = proc[p].role /\ t.at = proc[p].at
    BY <1>0 DEF CallRow, Mirror!Pc
  <1>2. PICK u \in CallRow : u = t BY <1>1
  <1>3. proc' = [proc EXCEPT ![p] = u] BY <1>0, <1>2 DEF Mirror!Goto
  <1> HIDE DEF t
  <1>4. CallOK(p, u)' BY <1>0, <1>1, <1>2 DEF CallOK
  <1>5. MirrorWorld' /\ Later BY WorldStays
  <1>6. u.pc \in InLock => Mirror!LockFree BY <1>1, <1>2 DEF InLock
  <1> QED BY <1>3, <1>4, <1>5, <1>6, CallGoes

LEMMA CallsBegin ==
    ASSUME MirrorInv, NEW p \in Mirror!Process,
           \/ \E r \in Role : Mirror!SetCutover(p, r) \/ Mirror!GetCutoverState(p, r)
           \/ Mirror!Lock(p) \/ Mirror!DatabaseFails(p) \/ Mirror!Answer(p)
    PROVE  MirrorInv'
  <1>0. /\ proc \in [Mirror!Process -> CallRow] /\ proc[p] \in CallRow /\ CallOK(p, proc[p])
        /\ clock \in 0 .. MaxClock /\ cache \in [Relay -> [Role -> Entry \union {None}]]
    BY DEF MirrorInv, MirrorWorld
  <1>1. UNCHANGED <<db, mirror, cache, clock, unread, confirmed>>
    BY DEF Mirror!SetCutover, Mirror!GetCutoverState, Mirror!Lock, Mirror!DatabaseFails,
           Mirror!Answer
  <1>2. MirrorWorld' /\ Later BY <1>1, WorldStays
  <1>3. ASSUME NEW r \in Role, Mirror!SetCutover(p, r) PROVE MirrorInv'
    <2> DEFINE t == [proc[p] EXCEPT !.pc = "waiting", !.role = r]
    <2>1. t \in CallRow /\ t.pc = "waiting" /\ t.role = r /\ t.at = proc[p].at
      BY <1>0 DEF CallRow, Mirror!Pc
    <2>2. PICK u \in CallRow : u = t BY <2>1
    <2>3. proc' = [proc EXCEPT ![p] = u] BY <1>0, <1>3, <2>2 DEF Mirror!SetCutover
    <2> HIDE DEF t
    <2>4. CallOK(p, u)' BY <1>0, <1>1, <2>1, <2>2 DEF CallOK
    <2>5. u.pc \notin InLock BY <2>1, <2>2 DEF InLock
    <2> QED BY <1>1, <1>2, <2>3, <2>4, <2>5, CallGoes
  <1>4. ASSUME NEW r \in Role, Mirror!GetCutoverState(p, r) PROVE MirrorInv'
    <2> DEFINE pc == IF Mirror!Fresh(p, r) THEN "answer" ELSE "waiting"
               v == IF Mirror!Fresh(p, r) THEN cache[p][r].value ELSE 0
               t == [Mirror!Idle EXCEPT !.pc = pc, !.role = r, !.at = clock, !.value = v]
    <2>0. p \in Relay BY <1>4 DEF Mirror!GetCutoverState
    <2>1. PICK e \in Entry \union {None} : e = cache[p][r] BY <1>0, <2>0
    <2>2. EntryOK(e, r) BY <2>0, <2>1 DEF MirrorInv, MirrorWorld
    <2>3. Mirror!Fresh(p, r) => e # None /\ e \in Entry /\ clock - e.at < TTL /\ v = e.value
      BY <2>1 DEF Mirror!Fresh
    <2>4. v \in Mirror!State BY <2>3, MirrorConstants DEF Entry
    <2>5. pc \in Mirror!Pc /\ pc \in {"answer", "waiting"} BY DEF Mirror!Pc
    <2>6. pc = "answer" => Mirror!Fresh(p, r) OBVIOUS
    <2>7. proc' = [proc EXCEPT ![p] = t] BY <1>4 DEF Mirror!GetCutoverState
    <2> HIDE DEF pc, v
    <2>8. /\ t \in CallRow /\ t.pc = pc /\ t.role = r /\ t.at = clock /\ t.value = v
      BY <1>0, <2>4, <2>5, MirrorConstants DEF CallRow, Mirror!Idle
    <2>9. PICK u \in CallRow : u = t BY <2>8
    <2> HIDE DEF t
    <2>10. u.pc \in {"answer", "waiting"} /\ u.role = r /\ u.at = clock /\ u.value = v
      BY <2>5, <2>8, <2>9
    <2>11. ASSUME u.pc = "answer", unread = 0, NEW c \in confirmed, c[1] = r, c[3] + TTL <= clock
           PROVE  v >= c[2]
      <3>1. /\ e # None /\ e \in Entry /\ clock - e.at < TTL /\ v = e.value
        BY <2>3, <2>6, <2>8, <2>9, <2>11
      <3>2. e.at \in Nat /\ clock \in Nat /\ TTL \in Nat
        BY <1>0, <3>1, MirrorConstants DEF Entry
      <3>3. c[3] \in Nat BY ConfirmedRows DEF MirrorInv
      <3>4. c[3] < e.at BY <2>11, <3>1, <3>2, <3>3
      <3> QED BY <2>2, <2>11, <3>1, <3>4 DEF EntryOK
    <2>12. clock <= clock BY <1>0
    <2>13. CallOK(p, u)' BY <1>1, <2>10, <2>11, <2>12 DEF CallOK
    <2>14. u.pc \notin InLock BY <2>10 DEF InLock
    <2>15. proc' = [proc EXCEPT ![p] = u] BY <2>7, <2>9
    <2> QED BY <1>1, <1>2, <2>13, <2>14, <2>15, CallGoes
  <1>5. CASE Mirror!Lock(p)
    <2>1. Mirror!Goto(p, "locked") /\ Mirror!LockFree /\ proc[p].pc # "idle"
      BY <1>5 DEF Mirror!Lock, Mirror!At
    <2> QED BY <1>1, <2>1, CallMoves
  <1>6. CASE Mirror!DatabaseFails(p)
    <2>1. /\ proc[p].pc # "idle"
          /\ Mirror!Return(p) \/ (p \in Relay /\ Mirror!Goto(p, "fallback"))
      BY <1>6 DEF Mirror!DatabaseFails
    <2>2. CASE p \in Relay /\ Mirror!Goto(p, "fallback") BY <1>1, <2>1, <2>2, CallMoves
    <2>3. CASE Mirror!Return(p) BY <1>1, <1>2, <2>3, CallReturns
    <2> QED BY <2>1, <2>2, <2>3
  <1>7. CASE Mirror!Answer(p)
    <2>1. Mirror!Return(p) BY <1>7 DEF Mirror!Answer
    <2> QED BY <1>1, <1>2, <2>1, CallReturns
  <1> QED BY <1>3, <1>4, <1>5, <1>6, <1>7

LEMMA CallsCommit ==
    ASSUME MirrorInv, NEW p \in Mirror!Process,
           Mirror!Commit(p) \/ Mirror!CommitUnknown(p) \/ Mirror!GetCutover(p)
    PROVE  MirrorInv'
  <1>0. /\ proc \in [Mirror!Process -> CallRow] /\ proc[p] \in CallRow /\ CallOK(p, proc[p])
        /\ db \in [Role -> Mirror!State] /\ clock \in 0 .. MaxClock
    BY DEF MirrorInv, MirrorWorld
  <1>1. proc[p].pc = "locked" /\ UNCHANGED <<mirror, cache, clock, unread, confirmed>>
    BY DEF Mirror!Commit, Mirror!CommitUnknown, Mirror!GetCutover, Mirror!At
  <1>2. PICK r \in Role : r = proc[p].role BY <1>0, <1>1 DEF CallOK
  <1>3. proc[p].pc \in InLock BY <1>1 DEF InLock
  <1>4. ASSUME NEW v \in Mirror!State, MirrorWorld', Later, v = db'[r],
               proc' = [proc EXCEPT ![p].pc = "project", ![p].value = v]
        PROVE  MirrorInv'
    <2> DEFINE t == [proc[p] EXCEPT !.pc = "project", !.value = v]
    <2>1. /\ t \in CallRow /\ t.pc = "project" /\ t.role = r /\ t.at = proc[p].at /\ t.value = v
      BY <1>0, <1>2 DEF CallRow, Mirror!Pc
    <2>2. PICK u \in CallRow : u = t BY <2>1
    <2>3. proc' = [proc EXCEPT ![p] = u] BY <1>0, <1>4, <2>2
    <2> HIDE DEF t
    <2>4. CallOK(p, u)' BY <1>0, <1>1, <1>2, <1>4, <2>1, <2>2 DEF CallOK
    <2> QED BY <1>3, <1>4, <2>3, <2>4, CallGoes
  <1>5. CASE Mirror!Commit(p)
    <2>1. /\ Mirror!Latest < MaxSet /\ db' = [db EXCEPT ![r] = Mirror!Latest + 1]
          /\ proc' = [proc EXCEPT ![p].pc = "project", ![p].value = Mirror!Latest + 1]
      BY <1>2, <1>5 DEF Mirror!Commit, Mirror!R
    <2>2. /\ MirrorWorld' /\ Later
          /\ Mirror!Latest + 1 \in Mirror!State /\ db'[r] = Mirror!Latest + 1
      BY <1>1, <2>1, WorldCommits
    <2> QED BY <1>4, <2>1, <2>2
  <1>6. CASE Mirror!CommitUnknown(p)
    <2>1. /\ Mirror!Latest < MaxSet /\ db' = [db EXCEPT ![r] = Mirror!Latest + 1]
          /\ Mirror!Return(p)
      BY <1>2, <1>6 DEF Mirror!CommitUnknown, Mirror!R
    <2>2. MirrorWorld' /\ Later BY <1>1, <2>1, WorldCommits
    <2> QED BY <1>3, <2>1, <2>2, CallReturns
  <1>7. CASE Mirror!GetCutover(p)
    <2>1. db' = db /\ proc' = [proc EXCEPT ![p].pc = "project", ![p].value = db[r]]
      BY <1>2, <1>7 DEF Mirror!GetCutover, Mirror!R
    <2>2. MirrorWorld' /\ Later BY <1>1, <2>1, WorldStays
    <2>3. PICK v \in Mirror!State : v = db[r] BY <1>0
    <2> QED BY <1>4, <2>1, <2>2, <2>3
  <1> QED BY <1>5, <1>6, <1>7

\* read_cutover_mirror, whatever it sees: nothing that is not committed, and the
\* projection itself while every read succeeds.
LEMMA MirrorIsRead ==
    ASSUME MirrorInv, NEW data \in {mirror, Mirror!Unreadable}, Mirror!MirrorRead(data),
           UNCHANGED <<db, mirror, clock, confirmed>>
    PROVE  /\ data \in Mirror!Mirror /\ \A r \in Role : data[r] <= db[r]
           /\ unread' = 0 => unread = 0 /\ data = mirror
           /\ unread' \in 0 .. MaxUnread
  <1>0. /\ db \in [Role -> Mirror!State] /\ mirror \in Mirror!Mirror
        /\ unread \in 0 .. MaxUnread /\ Mirror!MirrorIsCommitted
    BY DEF MirrorInv, MirrorWorld, Mirror!Mirror
  <1>1. Mirror!Unreadable \in Mirror!Mirror /\ \A r \in Role : Mirror!Unreadable[r] <= db[r]
    <2>1. \A r \in Role : db[r] \in Nat BY <1>0, MirrorConstants
    <2> QED BY <2>1, MirrorConstants DEF Mirror!Unreadable, Mirror!Mirror
  <1>2. \A r \in Role : mirror[r] <= db[r] BY <1>0 DEF Mirror!MirrorIsCommitted
  <1>3. \/ data = mirror /\ unread' = unread
        \/ data = Mirror!Unreadable /\ unread < MaxUnread /\ unread' = unread + 1
    BY DEF Mirror!MirrorRead
  <1>4. MaxUnread \in Nat /\ unread \in Nat BY <1>0, MirrorConstants
  <1>5. (unread' = 0 => unread = 0 /\ data = mirror) /\ unread' \in 0 .. MaxUnread
    BY <1>0, <1>3, <1>4
  <1> QED BY <1>0, <1>1, <1>2, <1>5

\* A relay caches what it has read, with the time at which it asked.
LEMMA EntryIsStored ==
    ASSUME MirrorInv, NEW p \in Relay, NEW r \in Role, NEW v \in Mirror!State,
           r = proc[p].role, UNCHANGED <<db, clock, confirmed>>,
           unread' = 0 => \A c \in confirmed : c[1] = r => v >= c[2],
           cache' = [cache EXCEPT ![p][r] = [at |-> proc[p].at, value |-> v]]
    PROVE  /\ cache' \in [Relay -> [Role -> Entry \union {None}]]
           /\ \A q \in Relay, o \in Role :
                 cache'[q][o] = cache[q][o] \/ EntryOK(cache[q][o], o)'
  <1>0. /\ cache \in [Relay -> [Role -> Entry \union {None}]] /\ p \in Mirror!Process
        /\ clock \in 0 .. MaxClock
    BY MirrorConstants DEF MirrorInv, MirrorWorld
  <1>1. proc[p] \in CallRow /\ CallOK(p, proc[p]) BY <1>0 DEF MirrorInv
  <1>2. proc[p].at \in 0 .. MaxClock /\ proc[p].at <= clock BY <1>1 DEF CallRow, CallOK
  <1>3. PICK e \in Entry : e = [at |-> proc[p].at, value |-> v] BY <1>2 DEF Entry
  <1>4. e.at <= clock /\ e.value = v BY <1>2, <1>3
  <1>5. EntryOK(e, r)' BY <1>4 DEF EntryOK
  <1>6. /\ cache' \in [Relay -> [Role -> Entry \union {None}]] /\ cache'[p][r] = e
        /\ \A q \in Relay, o \in Role : q # p \/ o # r => cache'[q][o] = cache[q][o]
    BY <1>0, <1>3
  <1>7. EntryOK(cache[p][r], r)' BY <1>5, <1>6 DEF EntryOK
  <1> QED BY <1>6, <1>7

LEMMA CallsLoad ==
    ASSUME MirrorInv, NEW p \in Mirror!Process, Mirror!LoadMirror(p)
    PROVE  MirrorInv'
  <1>0. /\ proc \in [Mirror!Process -> CallRow] /\ proc[p] \in CallRow /\ CallOK(p, proc[p])
        /\ cache \in [Relay -> [Role -> Entry \union {None}]] /\ clock \in 0 .. MaxClock
        /\ mirror \in [Role -> Mirror!State] /\ Mirror!MirrorKeepsConfirmed
        /\ confirmed \subseteq Role \X Mirror!State \X (0 .. MaxClock)
        /\ Mirror!MirrorIsCommitted
    BY DEF MirrorInv, MirrorWorld
  <1>1. proc[p].pc = "project" /\ UNCHANGED <<db, mirror, cache, clock, confirmed>>
    BY DEF Mirror!LoadMirror, Mirror!At
  <1>2. PICK data \in {mirror, Mirror!Unreadable} :
           /\ Mirror!MirrorRead(data)
           /\ proc' = [proc EXCEPT ![p].pc = "replace", ![p].data = data]
    BY DEF Mirror!LoadMirror
  <1>3. /\ data \in Mirror!Mirror /\ \A r \in Role : data[r] <= db[r]
        /\ unread' = 0 => unread = 0 /\ data = mirror
        /\ unread' \in 0 .. MaxUnread
    BY <1>1, <1>2, MirrorIsRead
  <1>4. PICK d \in Mirror!Mirror : d = data BY <1>3
  <1> DEFINE t == [proc[p] EXCEPT !.pc = "replace", !.data = d]
  <1>5. /\ t \in CallRow /\ t.pc = "replace" /\ t.role = proc[p].role /\ t.at = proc[p].at
        /\ t.value = proc[p].value /\ t.data = d
    BY <1>0 DEF CallRow, Mirror!Pc
  <1>6. PICK u \in CallRow : u = t BY <1>5
  <1>7. proc' = [proc EXCEPT ![p] = u] BY <1>0, <1>2, <1>4, <1>6
  <1> HIDE DEF t
  <1>8. /\ u.role \in Role /\ u.at <= clock /\ u.value = db[u.role] /\ u.pc = "replace"
        /\ u.data = d
    BY <1>0, <1>1, <1>5, <1>6 DEF CallOK
  <1>9. CallOK(p, u)' BY <1>1, <1>3, <1>4, <1>8 DEF CallOK
  <1>10. clock <= clock' BY <1>0, <1>1
  <1>11. \A r \in Role : mirror'[r] <= db[r] BY <1>0, <1>1 DEF Mirror!MirrorIsCommitted
  <1>12. unread' = 0 => \A c \in confirmed' : mirror'[c[1]] >= c[2]
    BY <1>0, <1>1, <1>3 DEF Mirror!MirrorKeepsConfirmed
  <1>13. MirrorWorld' /\ Later
    <2>1. /\ mirror' \in [Role -> Mirror!State] /\ clock' \in 0 .. MaxClock
          /\ cache' \in [Relay -> [Role -> Entry \union {None}]]
          /\ confirmed' \subseteq Role \X Mirror!State \X (0 .. MaxClock)
          /\ \A c \in confirmed' : c \in confirmed
          /\ \A q \in Relay, r \in Role : cache'[q][r] = cache[q][r]
      BY <1>0, <1>1
    <2> QED BY <1>1, <1>3, <1>10, <1>11, <1>12, <2>1, WorldGoes
  <1>14. proc[p].pc \in InLock BY <1>1 DEF InLock
  <1> QED BY <1>7, <1>9, <1>13, <1>14, CallGoes

\* The end of a relay's call in the database, with or without the projection.
LEMMA RelayAnswers ==
    ASSUME MirrorInv, MirrorWorld', Later, NEW p \in Relay, proc[p].pc \in {"project", "replace"},
           UNCHANGED <<db, clock, unread, confirmed>>,
           proc' = [proc EXCEPT ![p].pc = "answer", ![p].data = None]
    PROVE  MirrorInv'
  <1>0. /\ proc \in [Mirror!Process -> CallRow] /\ proc[p] \in CallRow /\ CallOK(p, proc[p])
        /\ p \in Mirror!Process /\ proc[p].pc \in InLock
    BY MirrorConstants DEF MirrorInv, InLock
  <1> DEFINE t == [proc[p] EXCEPT !.pc = "answer", !.data = None]
  <1>1. /\ t \in CallRow /\ t.pc = "answer" /\ t.role = proc[p].role /\ t.at = proc[p].at
        /\ t.value = proc[p].value
    BY <1>0 DEF CallRow, Mirror!Pc
  <1>2. PICK u \in CallRow : u = t BY <1>1
  <1>3. proc' = [proc EXCEPT ![p] = u] BY <1>0, <1>2
  <1> HIDE DEF t
  <1>4. /\ u.pc = "answer" /\ u.role \in Role /\ u.at <= clock /\ u.value = db[u.role]
    BY <1>0, <1>1, <1>2 DEF CallOK
  <1>5. ASSUME NEW c \in confirmed, c[1] = u.role PROVE u.value >= c[2]
    <2>1. c[2] <= db[c[1]] BY DEF MirrorInv, MirrorWorld
    <2>2. c[2] \in Nat /\ c[1] \in Role BY ConfirmedRows DEF MirrorInv
    <2>3. db[c[1]] \in Nat BY <2>2, MirrorConstants DEF MirrorInv, MirrorWorld
    <2> QED BY <1>4, <1>5, <2>1, <2>2, <2>3
  <1>6. CallOK(p, u)' BY <1>4, <1>5 DEF CallOK
  <1>7. u.pc \notin InLock BY <1>4 DEF InLock
  <1> QED BY <1>0, <1>3, <1>6, <1>7, CallGoes

LEMMA CallsReplace ==
    ASSUME MirrorInv, NEW p \in Mirror!Process,
           Mirror!ReplaceMirror(p) \/ Mirror!ProjectionFails(p)
    PROVE  MirrorInv'
  <1>0. /\ proc \in [Mirror!Process -> CallRow] /\ proc[p] \in CallRow /\ CallOK(p, proc[p])
        /\ cache \in [Relay -> [Role -> Entry \union {None}]] /\ clock \in 0 .. MaxClock
        /\ mirror \in [Role -> Mirror!State] /\ db \in [Role -> Mirror!State]
        /\ confirmed \subseteq Role \X Mirror!State \X (0 .. MaxClock)
        /\ Mirror!MirrorIsCommitted /\ Mirror!MirrorKeepsConfirmed /\ unread \in 0 .. MaxUnread
    BY DEF MirrorInv, MirrorWorld
  <1>1. proc[p].pc \in {"project", "replace"} /\ UNCHANGED <<db, clock, unread>>
    BY DEF Mirror!ReplaceMirror, Mirror!ProjectionFails, Mirror!At
  <1>2. PICK r \in Role : r = proc[p].role BY <1>0, <1>1 DEF CallOK
  <1>3. PICK v \in Mirror!State : v = proc[p].value /\ v = db[r]
    BY <1>0, <1>1, <1>2 DEF CallOK
  <1>4. \A q \in Role : db[q] \in Nat BY <1>0, MirrorConstants
  <1>5. \A c \in confirmed : c[1] \in Role /\ c[2] \in Nat /\ c[2] <= db[c[1]]
    BY ConfirmedRows DEF MirrorInv, MirrorWorld
  <1>6. proc[p].pc \in InLock BY <1>1 DEF InLock
  \* Either way the projection shows committed states, and all that is confirmed.
  <1>7. /\ mirror' \in [Role -> Mirror!State] /\ \A q \in Role : mirror'[q] <= db[q]
        /\ unread = 0 => \A c \in confirmed : mirror'[c[1]] >= c[2]
    <2>1. CASE mirror' = mirror
      BY <1>0, <2>1 DEF Mirror!MirrorIsCommitted, Mirror!MirrorKeepsConfirmed
    <2>2. CASE Mirror!ReplaceMirror(p)
      <3>1. PICK d \in Mirror!Mirror : d = proc[p].data
        BY <1>0, <2>2 DEF Mirror!ReplaceMirror, Mirror!At, CallOK
      <3>2. (\A q \in Role : d[q] <= db[q]) /\ (unread = 0 => d = mirror)
        BY <1>0, <2>2, <3>1 DEF Mirror!ReplaceMirror, Mirror!At, CallOK
      <3>3. mirror' = [d EXCEPT ![r] = v]
        BY <1>2, <1>3, <2>2, <3>1 DEF Mirror!ReplaceMirror, Mirror!R
      <3>4. /\ mirror' \in [Role -> Mirror!State] /\ mirror'[r] = v
            /\ \A q \in Role : q # r => mirror'[q] = d[q]
        BY <3>1, <3>3 DEF Mirror!Mirror
      <3>5. \A q \in Role : mirror'[q] <= db[q] BY <1>3, <1>4, <3>2, <3>4
      <3>6. ASSUME unread = 0, NEW c \in confirmed PROVE mirror'[c[1]] >= c[2]
        <4>1. CASE c[1] = r BY <1>3, <1>4, <1>5, <3>4, <4>1
        <4>2. CASE c[1] # r
          BY <1>0, <1>5, <3>2, <3>4, <3>6, <4>2 DEF Mirror!MirrorKeepsConfirmed
        <4> QED BY <4>1, <4>2
      <3> QED BY <3>4, <3>5, <3>6
    <2> QED BY <2>1, <2>2 DEF Mirror!ProjectionFails
  <1>8. clock' \in 0 .. MaxClock /\ clock <= clock' /\ unread' \in 0 .. MaxUnread
    BY <1>0, <1>1
  <1>9. CASE p \in Setter
    <2>1. p \notin Relay BY <1>9, MirrorConstants
    <2>2. Mirror!Return(p) /\ cache' = cache
      BY <1>9 DEF Mirror!ReplaceMirror, Mirror!ProjectionFails, Mirror!Done
    <2>3. \/ confirmed' = confirmed
          \/ Mirror!ReplaceMirror(p) /\ confirmed' = confirmed \union {<<r, v, clock>>}
      BY <1>2, <1>3, <1>9 DEF Mirror!ReplaceMirror, Mirror!ProjectionFails, Mirror!Done, Mirror!R
    <2>4. Mirror!ReplaceMirror(p) => mirror'[r] = v
      <3>1. ASSUME Mirror!ReplaceMirror(p) PROVE mirror'[r] = v
        <4>1. PICK d \in Mirror!Mirror : d = proc[p].data
          BY <1>0, <3>1 DEF Mirror!ReplaceMirror, Mirror!At, CallOK
        <4>2. mirror' = [d EXCEPT ![r] = v]
          BY <1>2, <1>3, <3>1, <4>1 DEF Mirror!ReplaceMirror, Mirror!R
        <4> QED BY <4>1, <4>2 DEF Mirror!Mirror
      <3> QED BY <3>1
    <2>5. PICK x \in Role \X Mirror!State \X (0 .. MaxClock) :
             x = <<r, v, clock>> /\ x[1] = r /\ x[2] = v /\ x[3] = clock
      <3>1. <<r, v, clock>> \in Role \X Mirror!State \X (0 .. MaxClock) BY <1>0
      <3>2. <<r, v, clock>>[1] = r /\ <<r, v, clock>>[2] = v /\ <<r, v, clock>>[3] = clock OBVIOUS
      <3> QED BY <3>1, <3>2
    <2>6. confirmed' \subseteq Role \X Mirror!State \X (0 .. MaxClock) BY <1>0, <2>3, <2>5
    <2>7. v <= db[r] /\ v >= v BY <1>3, <1>4
    <2>8. \A c \in confirmed' : c \in confirmed \/ (c[3] = clock /\ c[2] <= db[c[1]])
      BY <2>3, <2>5, <2>7
    <2>9. unread' = 0 => \A c \in confirmed' : mirror'[c[1]] >= c[2]
      BY <1>1, <1>7, <2>3, <2>4, <2>5, <2>7
    <2>10. /\ cache' \in [Relay -> [Role -> Entry \union {None}]]
           /\ \A q \in Relay, o \in Role : cache'[q][o] = cache[q][o]
      BY <1>0, <2>2
    <2>11. MirrorWorld' /\ Later BY <1>1, <1>7, <1>8, <2>6, <2>8, <2>9, <2>10, WorldGoes
    <2> QED BY <1>6, <2>2, <2>11, CallReturns
  <1>10. CASE p \in Relay
    <2>1. p \notin Setter BY <1>10, MirrorConstants
    <2>2. /\ proc' = [proc EXCEPT ![p].pc = "answer", ![p].data = None]
          /\ cache' = [cache EXCEPT ![p][r] = [at |-> proc[p].at, value |-> v]]
          /\ confirmed' = confirmed
      BY <1>2, <1>3, <2>1 DEF Mirror!ReplaceMirror, Mirror!ProjectionFails, Mirror!Done, Mirror!R
    <2>3. \A c \in confirmed : c[1] = r => v >= c[2] BY <1>3, <1>4, <1>5
    <2>4. /\ cache' \in [Relay -> [Role -> Entry \union {None}]]
          /\ \A q \in Relay, o \in Role : cache'[q][o] = cache[q][o] \/ EntryOK(cache[q][o], o)'
      BY <1>1, <1>2, <1>10, <2>2, <2>3, EntryIsStored
    <2>5. /\ confirmed' \subseteq Role \X Mirror!State \X (0 .. MaxClock)
          /\ \A c \in confirmed' : c \in confirmed
          /\ unread' = 0 => \A c \in confirmed' : mirror'[c[1]] >= c[2]
      BY <1>0, <1>1, <1>7, <2>2
    <2>6. MirrorWorld' /\ Later BY <1>1, <1>7, <1>8, <2>4, <2>5, WorldGoes
    <2> QED BY <1>1, <1>10, <2>2, <2>6, RelayAnswers
  <1> QED BY <1>9, <1>10, MirrorConstants

LEMMA CallsRead ==
    ASSUME MirrorInv, NEW p \in Mirror!Process, Mirror!ReadMirror(p) \/ Mirror!Crash(p)
    PROVE  MirrorInv'
  <1>0. /\ proc \in [Mirror!Process -> CallRow] /\ proc[p] \in CallRow /\ CallOK(p, proc[p])
        /\ cache \in [Relay -> [Role -> Entry \union {None}]] /\ clock \in 0 .. MaxClock
        /\ mirror \in [Role -> Mirror!State] /\ db \in [Role -> Mirror!State]
        /\ confirmed \subseteq Role \X Mirror!State \X (0 .. MaxClock)
        /\ Mirror!MirrorIsCommitted /\ Mirror!MirrorKeepsConfirmed /\ unread \in 0 .. MaxUnread
    BY DEF MirrorInv, MirrorWorld
  <1>1. UNCHANGED <<db, mirror, clock, confirmed>> BY DEF Mirror!ReadMirror, Mirror!Crash
  <1>2. /\ db' = db /\ mirror' \in [Role -> Mirror!State] /\ \A r \in Role : mirror'[r] <= db[r]
        /\ clock' \in 0 .. MaxClock /\ clock <= clock'
        /\ confirmed' \subseteq Role \X Mirror!State \X (0 .. MaxClock)
        /\ \A c \in confirmed' : c \in confirmed
    BY <1>0, <1>1 DEF Mirror!MirrorIsCommitted
  <1>3. unread = 0 => \A c \in confirmed' : mirror'[c[1]] >= c[2]
    BY <1>0, <1>1 DEF Mirror!MirrorKeepsConfirmed
  <1>4. CASE Mirror!ReadMirror(p)
    <2>1. PICK r \in Role : r = proc[p].role /\ p \in Relay
      BY <1>0, <1>4 DEF CallOK, Mirror!ReadMirror, Mirror!At
    <2>2. PICK data \in {mirror, Mirror!Unreadable} :
             /\ Mirror!MirrorRead(data)
             /\ proc' = [proc EXCEPT ![p].pc = "answer", ![p].value = data[r]]
             /\ cache' = [cache EXCEPT ![p][r] = [at |-> proc[p].at, value |-> data[r]]]
      BY <1>4, <2>1 DEF Mirror!ReadMirror, Mirror!R
    <2>3. /\ data \in Mirror!Mirror
          /\ unread' = 0 => unread = 0 /\ data = mirror
          /\ unread' \in 0 .. MaxUnread
      BY <1>1, <2>2, MirrorIsRead
    <2>4. PICK v \in Mirror!State : v = data[r] BY <2>3 DEF Mirror!Mirror
    <2>5. unread' = 0 => \A c \in confirmed : c[1] = r => v >= c[2]
      BY <1>1, <1>3, <2>3, <2>4
    <2>6. cache' = [cache EXCEPT ![p][r] = [at |-> proc[p].at, value |-> v]] BY <2>2, <2>4
    <2>7. /\ cache' \in [Relay -> [Role -> Entry \union {None}]]
          /\ \A q \in Relay, o \in Role : cache'[q][o] = cache[q][o] \/ EntryOK(cache[q][o], o)'
      BY <1>1, <1>4, <2>1, <2>5, <2>6, EntryIsStored
    <2>8. MirrorWorld' /\ Later BY <1>2, <1>3, <2>3, <2>7, WorldGoes
    <2> DEFINE t == [proc[p] EXCEPT !.pc = "answer", !.value = v]
    <2>9. /\ t \in CallRow /\ t.pc = "answer" /\ t.role = r /\ t.at = proc[p].at /\ t.value = v
      BY <1>0, <2>1 DEF CallRow, Mirror!Pc
    <2>10. PICK u \in CallRow : u = t BY <2>9
    <2>11. proc' = [proc EXCEPT ![p] = u] BY <1>0, <2>2, <2>4, <2>10
    <2> HIDE DEF t
    <2>12. u.pc = "answer" /\ u.role = r /\ u.at <= clock /\ u.value = v
      BY <1>0, <2>9, <2>10 DEF CallOK
    <2>13. CallOK(p, u)' BY <1>1, <2>5, <2>12 DEF CallOK
    <2>14. u.pc \notin InLock BY <2>12 DEF InLock
    <2> QED BY <1>1, <2>8, <2>11, <2>13, <2>14, CallGoes
  <1>5. CASE Mirror!Crash(p)
    <2>1. unread' = unread /\ Mirror!Return(p) BY <1>5 DEF Mirror!Crash
    <2>2. cache' = cache \/ (p \in Relay /\ cache' = [cache EXCEPT ![p] = [r \in Role |-> None]])
      BY <1>5 DEF Mirror!Crash
    <2>3. /\ cache' \in [Relay -> [Role -> Entry \union {None}]]
          /\ \A q \in Relay, o \in Role : cache'[q][o] = cache[q][o] \/ cache'[q][o] = None
      BY <1>0, <2>2
    <2>4. \A q \in Relay, o \in Role : cache'[q][o] = cache[q][o] \/ EntryOK(cache[q][o], o)'
      BY <2>3 DEF EntryOK
    <2>5. MirrorWorld' /\ Later BY <1>0, <1>2, <1>3, <2>1, <2>3, <2>4, WorldGoes
    <2> QED BY <1>1, <2>1, <2>5, CallReturns
  <1> QED BY <1>4, <1>5

LEMMA MirrorInit == ASSUME Mirror!Init PROVE MirrorInv
  <1>0. /\ 0 \in Mirror!State /\ 0 \in 0 .. MaxClock /\ 0 \in 0 .. MaxUnread
    BY MirrorConstants
  <1>1. Mirror!Idle \in CallRow /\ Mirror!Idle.pc = "idle" /\ Mirror!Idle.at = 0
    BY <1>0 DEF Mirror!Idle, CallRow, Mirror!Pc
  <1>2. /\ db = [r \in Role |-> 0] /\ mirror = [r \in Role |-> 0] /\ confirmed = {}
        /\ cache = [p \in Relay |-> [r \in Role |-> None]] /\ clock = 0 /\ unread = 0
        /\ proc = [p \in Mirror!Process |-> Mirror!Idle]
    BY DEF Mirror!Init
  <1>3. /\ db \in [Role -> Mirror!State] /\ mirror \in [Role -> Mirror!State]
        /\ cache \in [Relay -> [Role -> Entry \union {None}]]
        /\ clock \in 0 .. MaxClock /\ unread \in 0 .. MaxUnread
    BY <1>0, <1>2
  <1>4. Role # {} => Top(0) BY <1>2 DEF Top
  <1>5. Mirror!MirrorIsCommitted BY <1>2 DEF Mirror!MirrorIsCommitted
  <1>6. Mirror!MirrorKeepsConfirmed BY <1>2 DEF Mirror!MirrorKeepsConfirmed
  <1>7. \A p \in Relay, r \in Role : EntryOK(cache[p][r], r) BY <1>2 DEF EntryOK
  <1>8. MirrorWorld BY <1>0, <1>2, <1>3, <1>4, <1>5, <1>6, <1>7 DEF MirrorWorld
  <1>9. proc \in [Mirror!Process -> CallRow] BY <1>1, <1>2
  <1>10. \A p \in Mirror!Process : proc[p] = Mirror!Idle BY <1>2
  <1>11. \A p \in Mirror!Process : CallOK(p, proc[p]) BY <1>1, <1>2, <1>10 DEF CallOK
  <1> QED BY <1>1, <1>8, <1>9, <1>10, <1>11 DEF MirrorInv, InLock

LEMMA MirrorNext ==
    ASSUME MirrorInv, [StoresNext]_storesVars
    PROVE  MirrorInv'
  <1>1. CASE UNCHANGED mirrors
    <2>1. UNCHANGED <<db, mirror, proc, cache, clock, unread, confirmed>> BY <1>1 DEF mirrors
    <2>2. MirrorWorld' /\ Later BY <2>1, WorldStays
    <2> QED BY <2>1, <2>2 DEF MirrorInv, CallOK
  <1>2. CASE Mirror!Next
    <2>1. CASE Mirror!Tick
      <3>1. /\ UNCHANGED <<db, mirror, proc, cache, unread, confirmed>>
            /\ clock < MaxClock /\ clock' = clock + 1
        BY <2>1 DEF Mirror!Tick
      <3>2. /\ mirror \in [Role -> Mirror!State] /\ clock \in 0 .. MaxClock
            /\ cache \in [Relay -> [Role -> Entry \union {None}]] /\ unread \in 0 .. MaxUnread
            /\ confirmed \subseteq Role \X Mirror!State \X (0 .. MaxClock)
            /\ \A r \in Role : mirror[r] <= db[r]
            /\ unread = 0 => \A c \in confirmed : mirror[c[1]] >= c[2]
        BY DEF MirrorInv, MirrorWorld, Mirror!MirrorIsCommitted, Mirror!MirrorKeepsConfirmed
      <3>3. clock' \in 0 .. MaxClock /\ clock <= clock' BY <3>1, <3>2, MirrorConstants
      <3>4. MirrorWorld' /\ Later BY <3>1, <3>2, <3>3, WorldGoes
      <3>5. ASSUME NEW q \in Mirror!Process PROVE CallOK(q, proc[q])'
        <4>1. PICK u \in CallRow : u = proc[q] BY DEF MirrorInv
        <4>2. CallOK(q, u) BY <4>1 DEF MirrorInv
        <4>3. CallOK(q, u)' BY <3>1, <3>4, <4>2, CallStays
        <4> QED BY <3>1, <4>1, <4>3 DEF CallOK
      <3> QED BY <3>1, <3>4, <3>5 DEF MirrorInv
    <2> QED BY <1>2, <2>1, CallsBegin, CallsCommit, CallsLoad, CallsReplace, CallsRead
            DEF Mirror!Next
  <1> QED
    BY <1>1, <1>2 DEF StoresNext, InboxSteps, ReceiptSteps, MirrorSteps, PackageSteps, Rest,
                      storesVars

LEMMA MirrorSafe == StoresSpec => []MirrorInv
  <1>1. StoresInit => MirrorInv BY MirrorInit DEF StoresInit
  <1>2. MirrorInv /\ [StoresNext]_storesVars => MirrorInv' BY MirrorNext
  <1> QED BY <1>1, <1>2, PTL DEF StoresSpec

\* locked_cutover_mirror, set_cutover and get_cutover_state, whatever the number of
\* roles, setters and relays, commits, deaths and failures of the database, of the
\* projection and of their acknowledgments, and for every TTL: the mirror shows only
\* committed states, no delayed snapshot takes it back behind a confirmed one, and a
\* relay's answer is at most TTL behind.
THEOREM MirrorTrue == StoresSpec => []MirrorIsTrue
  <1>1. MirrorInv => MirrorIsTrue
    <2>1. ASSUME MirrorInv PROVE Mirror!AnswersAreCurrent
      <3>1. \A p \in Relay : p \in Mirror!Process BY MirrorConstants
      <3> QED BY <2>1, <3>1 DEF MirrorInv, CallOK, Mirror!AnswersAreCurrent, Mirror!At, Mirror!R
    <2> QED BY <2>1 DEF MirrorInv, MirrorWorld, MirrorIsTrue
  <1> QED BY <1>1, MirrorSafe, PTL

-----------------------------------------------------------------------------
(* DurableInbox.  A queue that is not rotated only grows, so what a cursor *)
(* or the mark stands behind stays the same lines.                         *)

DrainRow == [pc: Pc, line: Nat, own: Cursor \union {None}, lines: Seq(Line)]
Took(w) == seen[w] \union past[w]
Stands(n, S) == n <= Len(file) /\ Upto(file, n) \subseteq S

CursorOK(w, c) ==
    c # None => Stands(c.line, Took(w)) /\ c.anchor = AnchorAt(file, c.line)

\* What a drain relies on when it goes on with record t: a seed that is never out
\* of step, lines that the queue still begins with, a mark that all is handled for.
DrainOK(d, t) ==
    /\ t.pc # "resync"
    /\ t.pc = "seeded" =>
          IF t.own = None THEN Stands(t.line, Handled)
          ELSE Stands(t.line, Took(W(d))) /\ t.own.anchor = AnchorAt(file, t.line)
    /\ t.pc = "handling" =>
          /\ t.line <= Len(t.lines) /\ Len(t.lines) <= Len(file)
          /\ \A i \in 1 .. Len(t.lines) : t.lines[i] = file[i]
          /\ Stands(t.line, Took(W(d)))
    /\ t.pc = "marking" => Stands(t.line, Handled)

InboxInv ==
    /\ mark # None => Stands(mark, Handled)
    /\ \A w \in Window : CursorOK(w, cursor[w]) /\ past[w] \subseteq Handled
    /\ \A d \in Drain : DrainOK(d, drain[d])

LEMMA InboxTypes ==
    ASSUME TypeOK
    PROVE  /\ file \in Seq(Line) /\ Len(file) \in Nat /\ Len(file) <= MaxLen
           /\ cursor \in [Window -> Cursor \union {None}] /\ mark \in Nat \union {None}
           /\ drain \in [Drain -> DrainRow]
           /\ seen \in [Window -> SUBSET Row] /\ past \in [Window -> SUBSET Row]
           /\ faults \in [rotate: Nat, crash: Nat, throw: Nat, tear: Nat]
  BY DEF TypeOK, DrainRow

\* Lines that two sequences have in common.
LEMMA UptoSame ==
    ASSUME NEW s \in Seq(Line), NEW q \in Seq(Line), NEW n \in Nat, n <= Len(s), n <= Len(q),
           \A i \in 1 .. n : s[i] = q[i]
    PROVE  Upto(s, n) = Upto(q, n) /\ AnchorAt(s, n) = AnchorAt(q, n)
  <1>0. Len(s) \in Nat /\ Len(q) \in Nat /\ DOMAIN s = 1 .. Len(s) /\ DOMAIN q = 1 .. Len(q)
    OBVIOUS
  <1>1. (1 .. n) \intersect DOMAIN s = 1 .. n /\ (1 .. n) \intersect DOMAIN q = 1 .. n BY <1>0
  <1>2. Upto(s, n) = Upto(q, n) BY <1>1 DEF Upto
  <1>3. AnchorAt(s, n) = AnchorAt(q, n)
    <2>1. CASE n = 0 BY <1>0, <2>1 DEF AnchorAt
    <2>2. CASE n # 0
      <3>1. n \in 1 .. Len(s) /\ n \in 1 .. Len(q) /\ s[n] = q[n] BY <1>0, <2>2
      <3> QED BY <3>1 DEF AnchorAt
    <2> QED BY <2>1, <2>2
  <1> QED BY <1>2, <1>3

LEMMA UptoNext ==
    ASSUME NEW s \in Seq(Line), NEW n \in Nat, n < Len(s)
    PROVE  Upto(s, n + 1) \subseteq Upto(s, n) \union ({s[n + 1]} \ {Malformed})
  <1>1. ASSUME NEW x \in Upto(s, n + 1) PROVE x \in Upto(s, n) \/ x = s[n + 1]
    <2>1. PICK i \in (1 .. n + 1) \intersect DOMAIN s : x = s[i] /\ x # Malformed
      BY <1>1 DEF Upto
    <2>2. i \in 1 .. n \/ i = n + 1 OBVIOUS
    <2> QED BY <2>1, <2>2 DEF Upto
  <1>2. Malformed \notin Upto(s, n + 1) BY DEF Upto
  <1> QED BY <1>1, <1>2

LEMMA UptoRows ==
    ASSUME NEW s \in Seq(Line), NEW n \in Nat
    PROVE  Upto(s, n) \subseteq Row
  <1>1. ASSUME NEW x \in Upto(s, n) PROVE x \in Row
    <2>1. PICK i \in DOMAIN s : x = s[i] /\ x # Malformed BY <1>1 DEF Upto
    <2>2. s[i] \in Line OBVIOUS
    <2> QED BY <2>1, <2>2 DEF Line
  <1> QED BY <1>1

\* The queue grows and windows take more.
InboxGrows ==
    /\ file' \in Seq(Line) /\ Len(file) <= Len(file')
    /\ \A i \in 1 .. Len(file) : file'[i] = file[i]
    /\ \A w \in Window : seen[w] \subseteq seen'[w] /\ Took(w) \subseteq Took(w)'

LEMMA StandsStill ==
    ASSUME TypeOK, InboxGrows, NEW n \in Nat, NEW S, NEW T, S \subseteq T, Stands(n, S)
    PROVE  /\ n <= Len(file') /\ Upto(file', n) \subseteq T
           /\ AnchorAt(file', n) = AnchorAt(file, n)
  <1>0. file \in Seq(Line) /\ Len(file) \in Nat /\ n <= Len(file) BY InboxTypes DEF Stands
  <1>1. file' \in Seq(Line) /\ Len(file') \in Nat /\ n <= Len(file') BY <1>0 DEF InboxGrows
  <1>2. \A i \in 1 .. n : file[i] = file'[i] BY <1>0 DEF InboxGrows
  <1>3. Upto(file, n) = Upto(file', n) /\ AnchorAt(file, n) = AnchorAt(file', n)
    BY <1>0, <1>1, <1>2, UptoSame
  <1> QED BY <1>1, <1>3 DEF Stands

LEMMA HandledGrows == ASSUME InboxGrows PROVE Handled \subseteq Handled'
  BY DEF InboxGrows, Handled

LEMMA DrainStays ==
    ASSUME TypeOK, InboxGrows, NEW d \in Drain, NEW t \in DrainRow, DrainOK(d, t)
    PROVE  DrainOK(d, t)'
  <1>0. /\ t.line \in Nat /\ t.lines \in Seq(Line) /\ Len(t.lines) \in Nat
        /\ file \in Seq(Line) /\ Len(file) \in Nat /\ Len(file') \in Nat /\ W(d) \in Window
    BY InboxTypes, OwnerAssumption DEF DrainRow, InboxGrows, W
  <1>1. Took(W(d)) \subseteq Took(W(d))' BY <1>0 DEF InboxGrows, W, Took
  <1>2. Stands(t.line, Took(W(d))) =>
           /\ t.line <= Len(file') /\ Upto(file', t.line) \subseteq Took(W(d))'
           /\ AnchorAt(file', t.line) = AnchorAt(file, t.line)
    BY <1>0, <1>1, StandsStill
  <1>3. Stands(t.line, Handled) => t.line <= Len(file') /\ Upto(file', t.line) \subseteq Handled'
    BY <1>0, HandledGrows, StandsStill
  <1>4. (t.pc = "seeded" =>
          IF t.own = None THEN Stands(t.line, Handled)
          ELSE Stands(t.line, Took(W(d))) /\ t.own.anchor = AnchorAt(file, t.line))'
    BY <1>2, <1>3 DEF DrainOK, Stands, AnchorAt, Upto
  <1>5. (t.pc = "handling" =>
          /\ t.line <= Len(t.lines) /\ Len(t.lines) <= Len(file)
          /\ \A i \in 1 .. Len(t.lines) : t.lines[i] = file[i]
          /\ Stands(t.line, Took(W(d))))'
    <2>1. SUFFICES ASSUME t.pc = "handling"
                   PROVE  (/\ t.line <= Len(t.lines) /\ Len(t.lines) <= Len(file)
                           /\ \A i \in 1 .. Len(t.lines) : t.lines[i] = file[i]
                           /\ Stands(t.line, Took(W(d))))'
      OBVIOUS
    <2>2. /\ t.line <= Len(t.lines) /\ Len(t.lines) <= Len(file)
          /\ \A i \in 1 .. Len(t.lines) : t.lines[i] = file[i]
          /\ Stands(t.line, Took(W(d)))
      BY <2>1 DEF DrainOK
    <2>3. Len(t.lines) <= Len(file') BY <1>0, <2>2 DEF InboxGrows
    <2>4. \A i \in 1 .. Len(t.lines) : t.lines[i] = file'[i] BY <1>0, <2>2 DEF InboxGrows
    <2> QED BY <1>2, <2>2, <2>3, <2>4 DEF Stands, Upto
  <1>6. (t.pc = "marking" => Stands(t.line, Handled))' BY <1>3 DEF DrainOK, Stands, Upto
  <1>7. t.pc # "resync" BY DEF DrainOK
  <1> QED BY <1>4, <1>5, <1>6, <1>7 DEF DrainOK

LEMMA CursorStays ==
    ASSUME TypeOK, InboxGrows, NEW w \in Window, NEW c \in Cursor \union {None}, CursorOK(w, c)
    PROVE  CursorOK(w, c)'
  <1>1. CASE c # None
    <2>1. c.line \in Nat BY <1>1 DEF Cursor
    <2>2. Took(w) \subseteq Took(w)' BY DEF InboxGrows
    <2>3. Stands(c.line, Took(w)) /\ c.anchor = AnchorAt(file, c.line) BY <1>1 DEF CursorOK
    <2>4. /\ c.line <= Len(file') /\ Upto(file', c.line) \subseteq Took(w)'
          /\ AnchorAt(file', c.line) = AnchorAt(file, c.line)
      BY <2>1, <2>2, <2>3, StandsStill
    <2> QED BY <2>3, <2>4 DEF CursorOK, Stands, AnchorAt, Upto
  <1>2. CASE c = None BY <1>2 DEF CursorOK
  <1> QED BY <1>1, <1>2

\* A drain goes on with record t.
LEMMA DrainGoes ==
    ASSUME TypeOK, NEW d \in Drain, NEW t \in DrainRow, drain' = [drain EXCEPT ![d] = t],
           t.pc = "handling" => t.line <= Len(t.lines),
           t.pc # "idle" => W(d) \in alive,
           UNCHANGED <<file, torn, alive, used>>,
           cursor' \in [Window -> Cursor \union {None}], mark' \in Nat \union {None},
           seen' \in [Window -> SUBSET Row], past' \in [Window -> SUBSET Row],
           faults' \in [rotate: Nat, crash: Nat, throw: Nat, tear: Nat],
           InboxInv => /\ InboxGrows /\ DrainOK(d, t)' /\ \A w \in Window : past'[w] \subseteq Handled'
                       /\ mark' # mark => Stands(mark, Handled)'
                       /\ \A w \in Window : cursor'[w] # cursor[w] => CursorOK(w, cursor[w])'
    PROVE  TypeOK' /\ (InboxInv => InboxInv')
  <1>0. /\ drain \in [Drain -> DrainRow] /\ cursor \in [Window -> Cursor \union {None}]
        /\ mark \in Nat \union {None}
    BY InboxTypes
  <1>1. /\ drain' \in [Drain -> DrainRow] /\ drain'[d] = t
        /\ \A e \in Drain : e # d => drain'[e] = drain[e]
    BY <1>0
  <1>2. \A e \in Drain : drain'[e].pc = "handling" =>
           drain'[e].line \in 0 .. Len(drain'[e].lines)
    <2>1. t.line \in Nat /\ Len(t.lines) \in Nat BY DEF DrainRow
    <2>2. t.pc = "handling" => t.line \in 0 .. Len(t.lines) BY <2>1
    <2> QED BY <1>1, <2>2 DEF TypeOK
  <1>3. \A e \in Drain : drain'[e].pc # "idle" => OwnerOf[e] \in alive BY <1>1 DEF TypeOK, W
  <1>4. TypeOK' BY <1>1, <1>2, <1>3 DEF TypeOK, DrainRow
  <1>5. ASSUME InboxInv PROVE InboxInv'
    <2>1. InboxGrows BY <1>5
    <2>2. (mark # None => Stands(mark, Handled))'
      <3>1. CASE mark' # mark BY <1>5, <3>1
      <3>2. CASE mark' = mark
        <4>1. CASE mark # None
          <5>1. mark \in Nat /\ Stands(mark, Handled) BY <1>0, <1>5, <4>1 DEF InboxInv
          <5>2. mark <= Len(file') /\ Upto(file', mark) \subseteq Handled'
            BY <2>1, <5>1, HandledGrows, StandsStill
          <5> QED BY <3>2, <5>2 DEF Stands, Upto
        <4> QED BY <3>2, <4>1
      <3> QED BY <3>1, <3>2
    <2>3. ASSUME NEW w \in Window PROVE CursorOK(w, cursor[w])'
      <3>1. CASE cursor'[w] = cursor[w]
        <4>1. PICK c \in Cursor \union {None} : c = cursor[w] BY <1>0
        <4>2. CursorOK(w, c) BY <1>5, <4>1 DEF InboxInv
        <4>3. CursorOK(w, c)' BY <2>1, <4>2, CursorStays
        <4> QED BY <3>1, <4>1, <4>3 DEF CursorOK
      <3> QED BY <1>5, <3>1
    <2>4. ASSUME NEW e \in Drain PROVE DrainOK(e, drain[e])'
      <3>1. CASE e = d BY <1>1, <1>5, <3>1 DEF DrainOK
      <3>2. CASE e # d
        <4>1. PICK u \in DrainRow : u = drain[e] BY <1>0
        <4>2. DrainOK(e, u) BY <1>5, <4>1 DEF InboxInv
        <4>3. DrainOK(e, u)' BY <2>1, <4>2, DrainStays
        <4> QED BY <1>1, <3>2, <4>1, <4>3 DEF DrainOK
      <3> QED BY <3>1, <3>2
    <2> QED BY <1>5, <2>2, <2>3, <2>4 DEF InboxInv
  <1> QED BY <1>4, <1>5

LEMMA InboxSame ==
    ASSUME TypeOK, UNCHANGED <<file, seen, past>>
    PROVE  InboxGrows /\ Handled' = Handled
  BY InboxTypes DEF InboxGrows, Took, Handled

LEMMA SeedSteps ==
    ASSUME TypeOK, NEW d \in Drain, Seed(d) \/ Read(d) \/ Resync(d)
    PROVE  TypeOK' /\ (InboxInv => InboxInv')
  <1>0. /\ file \in Seq(Line) /\ Len(file) \in Nat
        /\ cursor \in [Window -> Cursor \union {None}] /\ mark \in Nat \union {None}
        /\ drain \in [Drain -> DrainRow] /\ drain[d] \in DrainRow
        /\ seen \in [Window -> SUBSET Row] /\ past \in [Window -> SUBSET Row]
        /\ faults \in [rotate: Nat, crash: Nat, throw: Nat, tear: Nat]
        /\ W(d) \in Window /\ cursor[W(d)] \in Cursor \union {None}
    BY InboxTypes, OwnerAssumption DEF W
  <1>1. drain[d].pc # "idle" => W(d) \in alive BY DEF TypeOK, W
  <1>2. drain[d].line \in Nat /\ drain[d].own \in Cursor \union {None} /\ drain[d].lines \in Seq(Line)
    BY <1>0 DEF DrainRow
  <1>3. CASE Seed(d)
    <2>1. UNCHANGED <<file, torn, cursor, mark, alive, seen, past, used, faults>> /\ W(d) \in alive
      BY <1>3 DEF Seed
    <2>2. PICK c \in Cursor \union {None} : c = cursor[W(d)] BY <1>0
    <2>3. PICK n \in Nat : n = SeedLine(d)
      BY <1>0, <2>2 DEF SeedLine, MarkLine, Cursor
    <2> DEFINE t == [drain[d] EXCEPT !.pc = "seeded", !.own = c, !.line = n]
    <2>4. t \in DrainRow /\ t.pc = "seeded" /\ t.own = c /\ t.line = n
      BY <1>0 DEF DrainRow, Pc
    <2>5. PICK u \in DrainRow : u = t BY <2>4
    <2>6. drain' = [drain EXCEPT ![d] = u] BY <1>0, <1>3, <2>2, <2>3, <2>5 DEF Seed
    <2> HIDE DEF t
    <2>7. ASSUME InboxInv PROVE DrainOK(d, u)
      <3>1. CASE c = None
        <4>1. n = MarkLine BY <2>2, <2>3, <3>1 DEF SeedLine
        <4>2. Upto(file, 0) = {} BY DEF Upto
        <4>3. Stands(n, Handled) BY <1>0, <2>7, <4>1, <4>2 DEF InboxInv, MarkLine, Stands
        <4> QED BY <2>4, <2>5, <3>1, <4>3 DEF DrainOK
      <3>2. CASE c # None
        <4>1. n = c.line BY <2>2, <2>3, <3>2 DEF SeedLine
        <4>2. CursorOK(W(d), c) BY <1>0, <2>2, <2>7 DEF InboxInv
        <4> QED BY <2>4, <2>5, <3>2, <4>1, <4>2 DEF DrainOK, CursorOK
      <3> QED BY <3>1, <3>2
    <2>8. InboxGrows /\ Handled' = Handled BY <2>1, InboxSame
    <2>9. InboxInv => DrainOK(d, u)' BY <2>7, <2>8, DrainStays
    <2>10. InboxInv => \A w \in Window : past'[w] \subseteq Handled' BY <2>1, <2>8 DEF InboxInv
    <2> QED BY <1>0, <2>1, <2>4, <2>5, <2>6, <2>8, <2>9, <2>10, DrainGoes
  <1>4. CASE Read(d)
    <2>1. /\ UNCHANGED <<file, torn, cursor, mark, alive, seen, used, faults>>
          /\ drain[d].pc = "seeded"
      BY <1>4 DEF Read, At
    <2> DEFINE pc == IF Desync(d, file) THEN "resync" ELSE "handling"
               t == [drain[d] EXCEPT !.pc = pc, !.lines = file]
    <2>2. pc \in Pc /\ pc \in {"resync", "handling"} BY DEF Pc
    <2>3. pc = "handling" => drain[d].line <= Len(file)
      BY <1>0, <1>2 DEF Desync
    <2>4. drain' = [drain EXCEPT ![d] = t] BY <1>0, <1>4 DEF Read
    <2>5. InboxInv => pc = "handling"
      <3>1. ASSUME InboxInv PROVE ~Desync(d, file)
        <4>1. DrainOK(d, drain[d]) BY <3>1 DEF InboxInv
        <4>2. drain[d].line <= Len(file) BY <2>1, <4>1 DEF DrainOK, Stands
        <4>3. drain[d].own # None => drain[d].own.anchor = AnchorAt(file, drain[d].line)
          BY <2>1, <4>1 DEF DrainOK
        <4> QED BY <1>0, <1>2, <4>2, <4>3 DEF Desync
      <3> QED BY <3>1
    <2>6. pc = "resync" <=> Desync(d, file) OBVIOUS
    <2> HIDE DEF pc
    <2>7. t \in DrainRow /\ t.pc = pc /\ t.line = drain[d].line /\ t.lines = file
      BY <1>0, <2>2 DEF DrainRow
    <2>8. PICK u \in DrainRow : u = t BY <2>7
    <2> HIDE DEF t
    <2>9. PICK S \in SUBSET Row : S = Upto(file, drain[d].line) BY <1>0, <1>2, UptoRows
    <2>10. \/ past' = past
           \/ past' = [past EXCEPT ![W(d)] = @ \union S] /\ drain[d].own = None
      BY <1>4, <2>9 DEF Read
    <2>11. past' \in [Window -> SUBSET Row] /\ \A w \in Window : past[w] \subseteq past'[w]
      BY <1>0, <2>10
    <2>12. InboxGrows /\ Handled' = Handled BY <1>0, <2>1, <2>11 DEF InboxGrows, Took, Handled
    <2>13. ASSUME InboxInv PROVE DrainOK(d, u)' /\ \A w \in Window : past'[w] \subseteq Handled'
      <3>1. pc = "handling" /\ ~Desync(d, file) BY <2>2, <2>5, <2>6, <2>13
      <3>2. DrainOK(d, drain[d]) BY <2>13 DEF InboxInv
      <3>3. Stands(drain[d].line, Took(W(d))')
        <4>1. CASE drain[d].own = None
          <5>1. past' = [past EXCEPT ![W(d)] = @ \union S] BY <1>4, <2>9, <3>1, <4>1 DEF Read
          <5>2. S \subseteq Took(W(d))' BY <1>0, <5>1 DEF Took, W
          <5>3. drain[d].line <= Len(file) BY <2>1, <3>2, <4>1 DEF DrainOK, Stands
          <5> QED BY <2>9, <5>2, <5>3 DEF Stands
        <4>2. CASE drain[d].own # None
          <5>1. Stands(drain[d].line, Took(W(d))) BY <2>1, <3>2, <4>2 DEF DrainOK
          <5>2. Took(W(d)) \subseteq Took(W(d))' BY <1>0, <2>12 DEF InboxGrows, W, Took
          <5> QED BY <5>1, <5>2 DEF Stands
        <4> QED BY <4>1, <4>2
      <3>4. u.pc = "handling" /\ u.line = drain[d].line /\ u.lines = file
        BY <2>7, <2>8, <3>1
      <3>5. Stands(u.line, Took(W(d)))' BY <2>1, <3>3, <3>4 DEF Stands, Upto
      <3>6. u.line <= Len(file) /\ Len(file) <= Len(file) BY <1>0, <3>3, <3>4 DEF Stands
      <3>7. DrainOK(d, u)' BY <2>1, <3>4, <3>5, <3>6 DEF DrainOK
      <3>8. \A w \in Window : past[w] \subseteq Handled BY <2>13 DEF InboxInv
      <3>9. drain[d].own = None => S \subseteq Handled
        BY <2>1, <2>9, <3>2 DEF DrainOK, Stands
      <3>10. \A w \in Window : past'[w] \subseteq Handled BY <1>0, <2>10, <3>8, <3>9
      <3> QED BY <2>12, <3>7, <3>10
    <2>14. u.pc = "handling" => u.line <= Len(u.lines) BY <2>3, <2>7, <2>8
    <2>15. drain' = [drain EXCEPT ![d] = u] /\ W(d) \in alive BY <1>1, <2>1, <2>4, <2>8
    <2> QED BY <1>0, <2>1, <2>11, <2>12, <2>13, <2>14, <2>15, DrainGoes
  <1>5. CASE Resync(d)
    <2>1. /\ UNCHANGED <<file, torn, cursor, alive, seen, past, used, faults>>
          /\ drain[d].pc = "resync" /\ mark' = 0
      BY <1>5 DEF Resync, At
    <2> DEFINE t == [drain[d] EXCEPT !.pc = "handling", !.line = 0]
    <2>2. t \in DrainRow /\ t.line = 0 /\ t.lines = drain[d].lines BY <1>0 DEF DrainRow, Pc
    <2>3. PICK u \in DrainRow : u = t BY <2>2
    <2>4. drain' = [drain EXCEPT ![d] = u] BY <1>0, <1>5, <2>3 DEF Resync
    <2> HIDE DEF t
    <2>5. u.line <= Len(u.lines) BY <1>2, <2>2, <2>3
    <2>6. ~InboxInv BY <2>1 DEF InboxInv, DrainOK
    <2>7. W(d) \in alive BY <1>1, <2>1
    <2> QED BY <1>0, <2>1, <2>4, <2>5, <2>6, <2>7, DrainGoes
  <1> QED BY <1>3, <1>4, <1>5

LEMMA IdleDrain == Idle \in DrainRow /\ Idle.pc = "idle" /\ <<>> \in Seq(Line)
  <1>1. <<>> \in Seq(Line) OBVIOUS
  <1> QED BY <1>1 DEF Idle, DrainRow, Pc

\* saveCursor and the comparison of saveRoleCheckpoint.
LEMMA SaveStep ==
    ASSUME TypeOK, NEW d \in Drain, drain[d].pc = "handling", Save(d, drain[d].line),
           UNCHANGED <<file, torn, mark, alive, seen, past, used>>,
           faults' \in [rotate: Nat, crash: Nat, throw: Nat, tear: Nat]
    PROVE  TypeOK' /\ (InboxInv => InboxInv')
  <1>0. /\ file \in Seq(Line) /\ Len(file) \in Nat
        /\ cursor \in [Window -> Cursor \union {None}] /\ mark \in Nat \union {None}
        /\ drain[d] \in DrainRow /\ W(d) \in Window /\ W(d) \in alive
        /\ seen \in [Window -> SUBSET Row] /\ past \in [Window -> SUBSET Row]
    BY InboxTypes, OwnerAssumption DEF W, TypeOK
  <1>1. PICK n \in Nat, ls \in Seq(Line) : n = drain[d].line /\ ls = drain[d].lines
    BY <1>0 DEF DrainRow
  <1>2. PICK c \in Cursor : /\ c = [line |-> n, anchor |-> AnchorAt(ls, n)]
                            /\ c.line = n /\ c.anchor = AnchorAt(ls, n)
    <2>1. AnchorAt(ls, n) \in Line \union {None} BY DEF AnchorAt
    <2>2. PICK a \in Line \union {None} : a = AnchorAt(ls, n) BY <2>1
    <2>3. [line |-> n, anchor |-> a] \in Cursor BY DEF Cursor
    <2> QED BY <2>2, <2>3
  <1> DEFINE t == IF n > MarkLine THEN [Idle EXCEPT !.pc = "marking", !.line = n] ELSE Idle
  <1>3. t \in DrainRow /\ (t.pc = "idle" \/ (t.pc = "marking" /\ t.line = n))
    <2>1. CASE n > MarkLine
      <3>1. t = [pc |-> "marking", line |-> n, own |-> None, lines |-> <<>>] BY <2>1 DEF Idle
      <3>2. t \in DrainRow BY <3>1, IdleDrain DEF DrainRow, Pc
      <3> QED BY <3>1, <3>2
    <2>2. CASE ~(n > MarkLine) BY <2>2, IdleDrain
    <2> QED BY <2>1, <2>2
  <1>4. PICK u \in DrainRow : u = t BY <1>3
  <1>5. drain' = [drain EXCEPT ![d] = u] /\ cursor' = [cursor EXCEPT ![W(d)] = c]
    BY <1>1, <1>2, <1>4 DEF Save
  <1> HIDE DEF t
  <1>6. /\ cursor' \in [Window -> Cursor \union {None}] /\ cursor'[W(d)] = c
        /\ \A w \in Window : w # W(d) => cursor'[w] = cursor[w]
    BY <1>0, <1>5
  <1>7. InboxGrows /\ Handled' = Handled BY InboxSame
  <1>8. ASSUME InboxInv
        PROVE  /\ DrainOK(d, u)' /\ CursorOK(W(d), c)'
               /\ \A w \in Window : past'[w] \subseteq Handled'
    <2>1. /\ n <= Len(ls) /\ Len(ls) <= Len(file)
          /\ \A i \in 1 .. Len(ls) : ls[i] = file[i]
          /\ Stands(n, Took(W(d)))
      BY <1>1, <1>8 DEF InboxInv, DrainOK
    <2>2. n <= Len(file) /\ \A i \in 1 .. n : ls[i] = file[i] BY <1>0, <2>1
    <2>3. AnchorAt(ls, n) = AnchorAt(file, n) BY <1>0, <2>1, <2>2, UptoSame
    <2>4. CursorOK(W(d), c) BY <1>2, <2>1, <2>3 DEF CursorOK
    <2>5. \A w \in Window : past[w] \subseteq Handled /\ seen[w] \subseteq Handled
      BY <1>8 DEF InboxInv, Handled
    <2>6. Stands(n, Handled) BY <1>0, <2>1, <2>5 DEF Stands, Took
    <2>7. DrainOK(d, u) BY <1>3, <1>4, <2>6 DEF DrainOK
    <2>8. DrainOK(d, u)' BY <1>7, <2>7, DrainStays
    <2>9. PICK w \in Window : w = W(d) BY <1>0
    <2>10. CursorOK(w, c)' BY <1>7, <2>4, <2>9, CursorStays
    <2>11. CursorOK(W(d), c)' BY <2>9, <2>10 DEF W
    <2> QED BY <1>7, <2>5, <2>8, <2>11
  <1>9. InboxInv => \A w \in Window : cursor'[w] # cursor[w] => CursorOK(w, cursor[w])'
    <2>1. ASSUME InboxInv, NEW w \in Window, cursor'[w] # cursor[w]
          PROVE  CursorOK(w, cursor[w])'
      <3>1. w = W(d) /\ cursor'[w] = c BY <1>6, <2>1
      <3>2. CursorOK(W(d), c)' BY <1>8, <2>1
      <3> QED BY <3>1, <3>2 DEF CursorOK, W
    <2> QED BY <2>1
  <1>10. (u.pc = "handling" => u.line <= Len(u.lines)) BY <1>3, <1>4
  <1> QED BY <1>0, <1>5, <1>6, <1>7, <1>8, <1>9, <1>10, DrainGoes

LEMMA HandleSteps ==
    ASSUME TypeOK, NEW d \in Drain, Handle(d) \/ HandledAll(d) \/ Throw(d) \/ WriteMark(d)
    PROVE  TypeOK' /\ (InboxInv => InboxInv')
  <1>0. /\ file \in Seq(Line) /\ Len(file) \in Nat
        /\ cursor \in [Window -> Cursor \union {None}] /\ mark \in Nat \union {None}
        /\ drain \in [Drain -> DrainRow] /\ drain[d] \in DrainRow
        /\ seen \in [Window -> SUBSET Row] /\ past \in [Window -> SUBSET Row]
        /\ faults \in [rotate: Nat, crash: Nat, throw: Nat, tear: Nat]
        /\ W(d) \in Window
    BY InboxTypes, OwnerAssumption DEF W
  <1>1. drain[d].pc # "idle" => W(d) \in alive BY DEF TypeOK, W
  <1>2. PICK n \in Nat, ls \in Seq(Line) : n = drain[d].line /\ ls = drain[d].lines
    BY <1>0 DEF DrainRow
  <1>3. CASE Handle(d)
    <2>1. /\ UNCHANGED <<file, torn, cursor, mark, alive, past, used, faults>>
          /\ drain[d].pc = "handling" /\ n < Len(ls)
      BY <1>2, <1>3 DEF Handle, More, At
    <2>2. ls[n + 1] \in Line BY <2>1
    <2>3. PICK S \in SUBSET Row : S = {ls[n + 1]} \ {Malformed} BY <2>2 DEF Line
    <2>4. seen' = [seen EXCEPT ![W(d)] = @ \union S] BY <1>2, <1>3, <2>3 DEF Handle, NextLine
    <2>5. /\ seen' \in [Window -> SUBSET Row] /\ \A w \in Window : seen[w] \subseteq seen'[w]
          /\ seen'[W(d)] = seen[W(d)] \union S
      BY <1>0, <2>4
    <2> DEFINE t == [drain[d] EXCEPT !.line = n + 1]
    <2>6. /\ t \in DrainRow /\ t.pc = "handling" /\ t.line = n + 1 /\ t.lines = ls
      <3>1. n + 1 \in Nat OBVIOUS
      <3> QED BY <1>0, <1>2, <2>1, <3>1 DEF DrainRow
    <2>7. PICK u \in DrainRow : u = t BY <2>6
    <2>8. drain' = [drain EXCEPT ![d] = u] BY <1>0, <1>2, <1>3, <2>7 DEF Handle
    <2> HIDE DEF t
    <2>9. InboxGrows BY <1>0, <2>1, <2>5 DEF InboxGrows, Took
    <2>10. ASSUME InboxInv PROVE DrainOK(d, u)' /\ \A w \in Window : past'[w] \subseteq Handled'
      <3>1. /\ Len(ls) <= Len(file) /\ \A i \in 1 .. Len(ls) : ls[i] = file[i]
            /\ Stands(n, Took(W(d)))
        BY <1>2, <2>1, <2>10 DEF InboxInv, DrainOK
      <3>a. Len(ls) \in Nat /\ n + 1 \in 1 .. Len(ls) BY <2>1
      <3>2. n + 1 <= Len(file) /\ n < Len(file) /\ file[n + 1] = ls[n + 1] BY <1>0, <3>1, <3>a
      <3>3. Upto(file, n + 1) \subseteq Upto(file, n) \union S BY <1>0, <2>3, <3>2, UptoNext
      <3>4. Upto(file, n + 1) \subseteq Took(W(d))'
        <4>1. Took(W(d)) \union S \subseteq Took(W(d))' BY <2>1, <2>5 DEF Took, W
        <4> QED BY <3>1, <3>3, <4>1 DEF Stands
      <3>5. u.pc = "handling" /\ u.line = n + 1 /\ u.lines = ls /\ n + 1 <= Len(ls)
        BY <2>1, <2>6, <2>7
      <3>6. Stands(u.line, Took(W(d)))' BY <2>1, <3>2, <3>4, <3>5 DEF Stands, Upto
      <3>7. DrainOK(d, u)' BY <2>1, <3>1, <3>5, <3>6 DEF DrainOK
      <3>8. \A w \in Window : past'[w] \subseteq Handled'
        BY <2>1, <2>9, <2>10, HandledGrows DEF InboxInv
      <3> QED BY <3>7, <3>8
    <2>11. u.line <= Len(u.lines) BY <2>1, <2>6, <2>7
    <2> QED BY <1>0, <1>1, <2>1, <2>5, <2>8, <2>9, <2>10, <2>11, DrainGoes
  <1>4. CASE HandledAll(d)
    <2>1. /\ drain[d].pc = "handling" /\ Save(d, drain[d].line)
          /\ UNCHANGED <<file, torn, mark, alive, seen, past, used, faults>>
      BY <1>4 DEF HandledAll, At
    <2> QED BY <1>0, <2>1, SaveStep
  <1>5. CASE Throw(d)
    <2>1. /\ drain[d].pc = "handling" /\ Save(d, drain[d].line)
          /\ UNCHANGED <<file, torn, mark, alive, seen, past, used>>
      BY <1>5 DEF Throw, More, At
    <2>2. faults' \in [rotate: Nat, crash: Nat, throw: Nat, tear: Nat]
      BY <1>0, <1>5 DEF Throw, Spend
    <2> QED BY <2>1, <2>2, SaveStep
  <1>6. CASE WriteMark(d)
    <2>1. /\ UNCHANGED <<file, torn, cursor, alive, seen, past, used, faults>>
          /\ drain[d].pc = "marking" /\ mark' = n
      BY <1>2, <1>6 DEF WriteMark, At
    <2>2. PICK u \in DrainRow : u = Idle /\ u.pc = "idle" BY IdleDrain
    <2>3. drain' = [drain EXCEPT ![d] = u] BY <1>6, <2>2 DEF WriteMark
    <2>4. InboxGrows /\ Handled' = Handled BY <2>1, InboxSame
    <2>5. ASSUME InboxInv PROVE Stands(mark, Handled)'
      <3>1. Stands(n, Handled) BY <1>2, <2>1, <2>5 DEF InboxInv, DrainOK
      <3> QED BY <2>1, <2>4, <3>1 DEF Stands, Upto
    <2>6. DrainOK(d, u)' BY <2>2 DEF DrainOK
    <2>7. InboxInv => \A w \in Window : past'[w] \subseteq Handled' BY <2>1, <2>4 DEF InboxInv
    <2> QED BY <1>0, <2>1, <2>2, <2>3, <2>4, <2>5, <2>6, <2>7, DrainGoes
  <1> QED BY <1>3, <1>4, <1>5, <1>6

\* A step of a window or of a writer: drains stay or end, cursors stay or go.
LEMMA InboxGoes ==
    ASSUME TypeOK, TypeOK', InboxInv, InboxGrows, mark' = mark, UNCHANGED <<seen, past>>,
           \A d \in Drain : drain'[d] = drain[d] \/ drain'[d] = Idle,
           \A w \in Window : cursor'[w] = cursor[w] \/ cursor'[w] = None
    PROVE  InboxInv'
  <1>0. /\ drain \in [Drain -> DrainRow] /\ cursor \in [Window -> Cursor \union {None}]
        /\ mark \in Nat \union {None}
    BY InboxTypes
  <1>1. Handled' = Handled BY DEF Handled
  <1>2. (mark # None => Stands(mark, Handled))'
    <2>1. CASE mark # None
      <3>1. mark \in Nat /\ Stands(mark, Handled) BY <1>0, <2>1 DEF InboxInv
      <3>2. mark <= Len(file') /\ Upto(file', mark) \subseteq Handled'
        BY <3>1, HandledGrows, StandsStill
      <3> QED BY <3>2 DEF Stands, Upto
    <2> QED BY <2>1
  <1>3. ASSUME NEW w \in Window PROVE CursorOK(w, cursor[w])'
    <2>1. CASE cursor'[w] = cursor[w]
      <3>1. PICK c \in Cursor \union {None} : c = cursor[w] BY <1>0
      <3>2. CursorOK(w, c) BY <3>1 DEF InboxInv
      <3>3. CursorOK(w, c)' BY <3>2, CursorStays
      <3> QED BY <2>1, <3>1, <3>3 DEF CursorOK
    <2>2. CASE cursor'[w] = None BY <2>2 DEF CursorOK
    <2> QED BY <2>1, <2>2
  <1>4. ASSUME NEW d \in Drain PROVE DrainOK(d, drain[d])'
    <2>1. CASE drain'[d] = drain[d]
      <3>1. PICK u \in DrainRow : u = drain[d] BY <1>0
      <3>2. DrainOK(d, u) BY <3>1 DEF InboxInv
      <3>3. DrainOK(d, u)' BY <3>2, DrainStays
      <3> QED BY <2>1, <3>1, <3>3 DEF DrainOK
    <2>2. CASE drain'[d] = Idle BY <2>2, IdleDrain DEF DrainOK
    <2> QED BY <2>1, <2>2
  <1> QED BY <1>1, <1>2, <1>3, <1>4 DEF InboxInv

LEMMA WindowSteps ==
    ASSUME TypeOK,
           \/ \E w \in Window : Start(w) \/ Crash(w)
           \/ (\E r \in Row : AppendRow(r)) \/ Tear \/ Rotate
    PROVE  TypeOK' /\ (MaxRotate = 0 /\ InboxInv => InboxInv')
  <1>0. /\ file \in Seq(Line) /\ Len(file) \in Nat /\ Len(file) <= MaxLen /\ MaxLen \in Nat
        /\ cursor \in [Window -> Cursor \union {None}]
        /\ drain \in [Drain -> DrainRow]
        /\ faults \in [rotate: Nat, crash: Nat, throw: Nat, tear: Nat]
        /\ alive \subseteq Window /\ used \subseteq Row
    BY InboxTypes, BoundAssumption DEF TypeOK
  <1>1. file' = file /\ UNCHANGED <<seen, past>> => InboxGrows BY <1>0, InboxSame
  <1>2. ASSUME NEW w \in Window, Start(w) PROVE TypeOK' /\ (InboxInv => InboxInv')
    <2>1. /\ alive' = alive \union {w} /\ UNCHANGED <<file, torn, mark, drain, seen, past, used, faults>>
          /\ cursor' = [v \in Window |-> IF v \in alive' THEN cursor[v] ELSE None]
      BY <1>2 DEF Start
    <2>2. /\ cursor' \in [Window -> Cursor \union {None}]
          /\ \A v \in Window : cursor'[v] = cursor[v] \/ cursor'[v] = None
      BY <1>0, <2>1
    <2>3. TypeOK' BY <2>1, <2>2 DEF TypeOK
    <2> QED BY <1>1, <2>1, <2>2, <2>3, InboxGoes
  <1>3. ASSUME NEW w \in Window, Crash(w) PROVE TypeOK' /\ (InboxInv => InboxInv')
    <2>1. /\ alive' = alive \ {w} /\ UNCHANGED <<file, torn, cursor, mark, seen, past, used>>
          /\ drain' = [d \in Drain |-> IF W(d) = w THEN Idle ELSE drain[d]]
      BY <1>3 DEF Crash
    <2>2. faults' \in [rotate: Nat, crash: Nat, throw: Nat, tear: Nat]
      BY <1>0, <1>3 DEF Crash, Spend
    <2>3. /\ drain' \in [Drain -> DrainRow]
          /\ \A d \in Drain : drain'[d] = IF W(d) = w THEN Idle ELSE drain[d]
      BY <1>0, <2>1, IdleDrain
    <2>4. \A d \in Drain : drain'[d].pc = "handling" =>
             drain'[d].line \in 0 .. Len(drain'[d].lines)
      BY <2>3, IdleDrain DEF TypeOK
    <2>5. \A d \in Drain : drain'[d].pc # "idle" => OwnerOf[d] \in alive'
      BY <2>1, <2>3, IdleDrain DEF TypeOK, W
    <2>6. TypeOK' BY <1>0, <2>1, <2>2, <2>3, <2>4, <2>5 DEF TypeOK, DrainRow
    <2>7. \A d \in Drain : drain'[d] = drain[d] \/ drain'[d] = Idle BY <2>3
    <2> QED BY <1>1, <2>1, <2>6, <2>7, InboxGoes
  <1>4. ASSUME NEW r \in Row, AppendRow(r) PROVE TypeOK' /\ (InboxInv => InboxInv')
    <2>1. /\ UNCHANGED <<cursor, mark, drain, alive, seen, past, faults>>
          /\ torn' = FALSE /\ used' = used \union {r}
      BY <1>4 DEF AppendRow
    <2>2. r \in Line /\ Malformed \in Line BY DEF Line
    <2>3. PICK added \in Seq(Line) : file' = file \o added /\ Len(file \o added) <= MaxLen
      <3>1. <<r>> \in Seq(Line) /\ <<Malformed, r>> \in Seq(Line) BY <2>2
      <3> QED BY <1>4, <3>1 DEF AppendRow
    <2>4. /\ file' \in Seq(Line) /\ Len(file) <= Len(file') /\ Len(file') <= MaxLen
          /\ \A i \in 1 .. Len(file) : file'[i] = file[i]
      BY <1>0, <2>3
    <2>5. InboxGrows BY <2>1, <2>4 DEF InboxGrows, Took
    <2>6. TypeOK' BY <2>1, <2>4 DEF TypeOK
    <2> QED BY <2>1, <2>5, <2>6, InboxGoes
  <1>5. CASE Tear
    <2>1. UNCHANGED <<file, cursor, mark, drain, alive, seen, past, used>> /\ torn' = TRUE
      BY <1>5 DEF Tear
    <2>2. faults' \in [rotate: Nat, crash: Nat, throw: Nat, tear: Nat]
      BY <1>0, <1>5 DEF Tear, Spend
    <2>3. TypeOK' BY <2>1, <2>2 DEF TypeOK
    <2> QED BY <1>1, <2>1, <2>3, InboxGoes
  <1>6. CASE Rotate
    <2>1. UNCHANGED <<cursor, mark, drain, alive, seen, past, used>> /\ torn' = FALSE
      BY <1>6 DEF Rotate
    <2>2. faults' \in [rotate: Nat, crash: Nat, throw: Nat, tear: Nat] /\ MaxRotate # 0
      BY <1>0, <1>6 DEF Rotate, Spend
    <2>3. PICK n \in 1 .. Len(file) : file' = SubSeq(file, n + 1, Len(file))
      BY <1>6 DEF Rotate
    <2>4. n \in Nat /\ n + 1 \in Int /\ Len(file) \in Int BY <1>0
    <2>5. \A i \in n + 1 .. Len(file) : file[i] \in Line BY <1>0, <2>4
    <2>6. /\ file' \in Seq(Line)
          /\ Len(file') = IF n + 1 <= Len(file) THEN Len(file) - (n + 1) + 1 ELSE 0
      BY <2>3, <2>4, <2>5, SubSeqProperties
    <2>7. Len(file') <= MaxLen BY <1>0, <2>4, <2>6
    <2>8. TypeOK' BY <2>1, <2>2, <2>6, <2>7 DEF TypeOK
    <2> QED BY <2>2, <2>8
  <1> QED BY <1>2, <1>3, <1>4, <1>5, <1>6

LEMMA InboxInit == ASSUME Init PROVE TypeOK /\ InboxInv
  <1>0. /\ file = <<>> /\ file \in Seq(Line) /\ Len(file) = 0 /\ MaxLen \in Nat
        /\ drain = [d \in Drain |-> Idle] /\ cursor = [w \in Window |-> None] /\ mark = None
        /\ past = [w \in Window |-> {}] /\ seen = [w \in Window |-> {}]
        /\ alive = {} /\ used = {} /\ torn = FALSE
    BY BoundAssumption DEF Init
  <1>1. \A d \in Drain : drain[d] = Idle BY <1>0
  <1>2. drain \in [Drain -> DrainRow] BY <1>0, IdleDrain
  <1>3. faults \in [rotate: Nat, crash: Nat, throw: Nat, tear: Nat] BY DEF Init
  <1>4. /\ cursor \in [Window -> Cursor \union {None}]
        /\ seen \in [Window -> SUBSET Row] /\ past \in [Window -> SUBSET Row]
    BY <1>0
  <1>5. TypeOK
    <2>1. \A d \in Drain : drain[d].pc = "idle" BY <1>1, IdleDrain
    <2>2. Len(file) <= MaxLen /\ mark \in Nat \union {None} /\ torn \in BOOLEAN
      <3>1. Len(file) = 0 /\ MaxLen \in Nat BY <1>0
      <3>2. Len(file) <= MaxLen BY <3>1
      <3>3. mark \in Nat \union {None} BY <1>0
      <3>4. torn \in BOOLEAN BY <1>0, Zenon
      <3> QED BY <3>2, <3>3, <3>4
    <2>3. drain \in [Drain -> [pc: Pc, line: Nat, own: Cursor \union {None}, lines: Seq(Line)]]
      BY <1>2 DEF DrainRow
    <2>4. alive \in SUBSET Window /\ used \in SUBSET Row BY <1>0
    <2>5. file \in Seq(Line) BY <1>0
    <2> QED BY <1>3, <1>4, <2>1, <2>2, <2>3, <2>4, <2>5 DEF TypeOK
  <1>6. InboxInv BY <1>0, <1>1, IdleDrain DEF InboxInv, CursorOK, DrainOK
  <1> QED BY <1>5, <1>6

LEMMA InboxNext ==
    ASSUME TypeOK, [StoresNext]_storesVars
    PROVE  TypeOK' /\ (MaxRotate = 0 /\ InboxInv => InboxInv')
  <1>1. CASE UNCHANGED vars
    <2>1. UNCHANGED <<file, torn, cursor, mark, drain, alive, seen, past, used, faults>>
      BY <1>1 DEF vars
    <2>2. TypeOK' BY <2>1 DEF TypeOK
    <2>3. InboxGrows BY <2>1, InboxSame
    <2> QED BY <2>1, <2>2, <2>3, InboxGoes
  <1>2. CASE Next
    BY <1>2, SeedSteps, HandleSteps, WindowSteps DEF Next, DrainStep
  <1> QED
    BY <1>1, <1>2 DEF StoresNext, InboxSteps, ReceiptSteps, MirrorSteps, PackageSteps, Rest,
                      storesVars

LEMMA InboxTypeSafe == StoresSpec => []TypeOK
  <1>1. StoresInit => TypeOK BY InboxInit DEF StoresInit
  <1>2. TypeOK /\ [StoresNext]_storesVars => TypeOK' BY InboxNext
  <1> QED BY <1>1, <1>2, PTL DEF StoresSpec

\* durable_inbox.ts with any number of windows, overlapping drains, deaths between
\* the cursor and the mark, torn appends and raising handlers, on a queue that is
\* not rotated: a new window skips only rows that some window has handled, and a
\* cursor stands only behind rows that its window has handled or was seeded past.
THEOREM InboxSound == ASSUME MaxRotate = 0 PROVE StoresSpec => []InboxIsSound
  <1>1. StoresInit => TypeOK /\ InboxInv BY InboxInit DEF StoresInit
  <1>2. TypeOK /\ InboxInv /\ [StoresNext]_storesVars => (TypeOK /\ InboxInv)'
    BY InboxNext
  <1>3. TypeOK /\ InboxInv => InboxIsSound
    BY DEF InboxInv, CursorOK, Stands, Took, InboxIsSound, ResumesWhereRoleLeftOff,
           AnchoredCursorIsSound, InStep
  <1> QED BY <1>1, <1>2, <1>3, PTL DEF StoresSpec

\* Every variable of the store that a behaviour explores has its type.
THEOREM StoresTypeCorrect == StoresSpec => []StoresTypeOK
  <1> DEFINE Kind == store \in {"inbox", "receipt", "mirror", "packages"}
  <1>1. StoresInit => Kind BY DEF StoresInit
  <1>2. Kind /\ [StoresNext]_storesVars => Kind'
    BY DEF StoresNext, InboxSteps, ReceiptSteps, MirrorSteps, PackageSteps, Rest, storesVars
  <1>3. Kind /\ TypeOK /\ ReceiptInv /\ MirrorInv /\ PkgInv => StoresTypeOK
    BY MirrorTypes DEF ReceiptInv, PkgInv, StoresTypeOK
  <1> QED BY <1>1, <1>2, <1>3, InboxTypeSafe, ReceiptSafe, MirrorSafe, PkgSafe, PTL DEF StoresSpec
=============================================================================
