------------------------------ MODULE TaskStatus ------------------------------
(* The vocabulary that a call of executeTask shares with the loop around it:  *)
(* the task statuses of tasks.json (src/schemas/task.schema.ts) and what the  *)
(* call may write and return.                                                *)

\* A task in one of these waits for the user.
Wait == {"waiting_input", "waiting_approval"}

\* "blocked" belongs to the schema but no code path writes it.
Statuses ==
  {"pending", "running", "done", "failed", "skipped", "cancelled",
   "interrupted"} \cup Wait

\* Statuses a call writes while it goes on.
Marks == {"running", "pending"} \cup Wait

\* The pairs of returned value and final status that a call may end with.
Returns ==
  {<<"true", "done">>, <<"false", "failed">>, <<"false", "skipped">>}
    \cup {<<w, w>> : w \in Wait}

Values == {"true", "false"} \cup Wait
=============================================================================
