------------------------- MODULE MCScribeAdmission -------------------------
(* The small instances of ScribeAdmission for TLC. *)
EXTENDS ScribeAdmission
=============================================================================
