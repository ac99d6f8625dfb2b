--------------------------- MODULE MCEffectBroker ---------------------------
(* Small instances of EffectBroker for TLC. *)
EXTENDS EffectBrokerRefinement

CONSTANTS p1, v1, v2

Call(tool, path, old, value) ==
    [tool |-> tool, path |-> path, old |-> old, value |-> value]

\* Every tool on one path, so that any two effects can disturb each other.
SamePathRequests ==
    {Call("workspace_write", p1, None, v1),
     Call("workspace_edit", p1, v1, v2),
     Call("workspace_command", p1, None, v2),
     Call("workspace_command", None, None, None),
     Call("workspace_commit", p1, None, None),
     Call("workspace_mkdir", p1, None, None)}

\* One request per mutation mechanism: replace, mkdir, publication, update-ref.
MechanismRequests ==
    {Call("workspace_write", p1, None, v1),
     Call("workspace_command", p1, None, v2),
     Call("workspace_commit", p1, None, None),
     Call("workspace_mkdir", p1, None, None)}
=============================================================================
