------------------------------ MODULE MCRunStore ------------------------------
(* One owner per run: the writers share only the two indexes and the        *)
(* database.                                                                *)
EXTENDS RunStore

CONSTANTS server, cli, first, second

Owners == (server :> {first}) @@ (cli :> {second})
Sole == server :> {first}

VARIABLE refused  \* the database has refused an access

MCInit == Init /\ refused = FALSE

\* The last operation begins only where nothing has failed: what a crash or a
\* refusal left is met by one operation less than all there are.
MCNext ==
  /\ Next
  /\ refused' = (refused \/ \E c \in Client : DbFails(c))
  /\ ops' = MaxOps /\ ops' # ops => ~refused /\ crashes = 0

MCSpec == MCInit /\ [][MCNext]_<<vars, refused>>
=============================================================================
