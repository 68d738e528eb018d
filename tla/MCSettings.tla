----------------------------- MODULE MCSettings -----------------------------
(* Two processes, a setting, the planner's choice of a provider, a field     *)
(* unknown to the schema and two providers: one with its key in the          *)
(* environment, one with headers of its own in its entry.                    *)
EXTENDS Settings, TLC

CONSTANTS p1, p2, auto, chosen, other, typed, headers, env,
          approval, planner, extra, ai

MCEntryOf == [d \in {headers} |-> typed]

Sections == [f \in {auto, chosen, other, typed, headers, env} |->
               CASE f = auto   -> approval
                 [] f = chosen -> planner
                 [] f = other  -> extra
                 [] OTHER      -> ai]

\* All is set at first, or nothing.
MCInit == Init /\ on \in {{}, Field} /\ keys = on \cap Provider

MCSpec == MCInit /\ [][Next]_vars

Symmetry == Permutations({p1, p2})
=============================================================================
