-------------------------- MODULE MCCommandGuardian --------------------------
(* One command; the bound on faults is set in the configurations. *)
EXTENDS CommandGuardian

=============================================================================
