--------------------------- MODULE MCWorkflowEdit ---------------------------
(* Two tasks to begin with, the second depending on the first or not.       *)
EXTENDS WorkflowEdit

CONSTANTS x, y

Of(deps) == <<[id |-> 1, title |-> x, deps |-> {}, status |-> "pending"],
              [id |-> 2, title |-> y, deps |-> deps, status |-> "pending"]>>
Plans == {Of({}), Of({1})}
=============================================================================
