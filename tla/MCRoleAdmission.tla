--------------------------- MODULE MCRoleAdmission ---------------------------
(* RoleAdmission as it stands: its constants are numbers. *)
EXTENDS RoleAdmission

=============================================================================
