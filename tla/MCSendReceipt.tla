---------------------------- MODULE MCSendReceipt ----------------------------
(* Small instances of SendReceipt for TLC. *)
EXTENDS SendReceipt, TLC

\* Rows and processes of one kind are told apart only by identity.
Symmetry ==
    Permutations(Row) \union Permutations(Bun) \union Permutations(Relay)
=============================================================================
