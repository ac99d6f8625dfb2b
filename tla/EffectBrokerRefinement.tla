----------------------- MODULE EffectBrokerRefinement -----------------------
(* EffectBroker implements SerializedEffects while nobody else touches the  *)
(* checkout: journal records are the effects' lives, the replaced file or   *)
(* the moved branch is the moment an effect lands.                          *)
EXTENDS EffectBroker

CONSTANT BranchCell   \* the cell of the bound branch, beside the paths

ASSUME CellAssumption == BranchCell \notin Path \union {None}

World == [x \in Path \union {BranchCell} |->
            IF x = BranchCell THEN branch ELSE fs[x]]

\* The life of an effect, from its record and how often it has landed.
StatusOf(rec, n) ==
    CASE rec.state = "none" -> "new"
      [] rec.state \in UnresolvedState -> IF n = 0 THEN "open" ELSE "landed"
      [] rec.state = "completed" -> "done"
      [] rec.state = "failed" -> "failed"

\* An effect has no plan before it is journaled, and a command has none until
\* its output is sealed.
Unplanned(rec) ==
    \/ rec.state = "none"
    \/ rec.req.tool = "workspace_command" /\ rec.pre = None

NoPlan == [cell |-> None, from |-> None, to |-> None]

IntentOf(rec) ==
    IF Unplanned(rec) THEN NoPlan
    ELSE [cell |-> IF rec.req.tool = "workspace_commit" THEN BranchCell
                   ELSE rec.req.path,
          from |-> rec.pre, to |-> rec.want]

Status == [e \in Effect |-> StatusOf(journal[e], applied[e])]
Intent == [e \in Effect |-> IntentOf(journal[e])]

Promise == INSTANCE SerializedEffects WITH
    NoIntent <- NoPlan, world <- World, status <- Status, intent <- Intent

\* The broker's journal protocol, with its retries, crashes and recoveries,
\* only ever shows its callers the serialized effects it promises.
ImplementsPromise == Promise!Spec
=============================================================================
