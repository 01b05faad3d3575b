----------------------------- MODULE MCWatchSync -----------------------------
(* Two files of one service, in its build context.  The first rule syncs both, and *)
(* at the start, but to a target that is bind-mounted back for q and a tmpfs for p; *)
(* the second syncs p and restarts, to a target its image has p at; the third       *)
(* rebuilds when q changes.  The patterns keep all of that, by re-includes, a       *)
(* fallback and an include list.                                                    *)
EXTENDS WatchSync
CONSTANTS p, q, a, b, s, t, u, web
MCOrder == <<s, t, u>>
MCRules == {s, t, u}
MCAction == [r \in MCRules |-> CASE r = s -> "sync" [] r = t -> "sync+restart" [] r = u -> "rebuild"]
MCContainer == [r \in MCRules |-> web]
MCWatches == [r \in MCRules |-> CASE r = s -> {p, q} [] r = t -> {p} [] r = u -> {q}]
Bind(ps, d) == [covers |-> ps, depth |-> d, bind |-> TRUE, read_only |-> FALSE, watched |-> ps, lasts |-> TRUE]
Tmpfs(ps, d) == [Bind(ps, d) EXCEPT !.bind = FALSE, !.lasts = FALSE]
MCMounts == [r \in MCRules |-> IF r = s THEN {Bind({p, q}, 1), Tmpfs({p}, 2)} ELSE {}]
MCBaked == [r \in MCRules |-> IF r = t THEN {p} ELSE {}]
Plain(ps) == [negated |-> FALSE, hits |-> ps, legacy |-> {}]
Again(ps) == [negated |-> TRUE, hits |-> ps, legacy |-> {}]
Old(ps) == [negated |-> FALSE, hits |-> {}, legacy |-> ps]
MCIgnorefile == [r \in MCRules |-> <<Plain({p, q}), Again({p})>>]
MCIgnore == [r \in MCRules |-> CASE r = s -> <<Plain({p}), Again({p, q}), Old({p})>>
                               [] r = t -> <<>> [] r = u -> <<Again({q})>>]
MCInclude == [r \in MCRules |-> CASE r = s -> <<>> [] r = t -> <<Old({p})>> [] r = u -> <<Plain({q})>>]
MCMaxChanges == [x \in Paths |-> 1]
MCSizeOf == [x \in Contents |-> IF x = a THEN 1 ELSE 2]
\* At the start both files have their first content, and only the first rule's
\* target is there: edits before the session would only lead to the others.
MCInit == Init /\ host = [x \in Paths |-> a] /\ dir = [r \in SyncRules |-> r = s]
MCSpec == MCInit /\ [][Next]_vars /\ Fairness
=============================================================================
