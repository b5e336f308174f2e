------------------------------ MODULE MCStorage ------------------------------
(* The native tree, and the legacy table with its migration, in one run.    *)
(* They read nothing the other writes to but `entries`, of which each takes *)
(* the other's changes for those of somebody else; so the run looks at one  *)
(* of them at a time, and `focus` says which.                               *)
EXTENDS NativeStorage, LegacyMigration, TLC

VARIABLE focus

\* One file is in the legacy table, and another one may come.
MCKeys == {<<"d", "f">>, <<"d", "g">>}
MCStocks ==
  {[k \in Keys |-> IF k = <<"d", "f">> THEN [name |-> "f", public |-> FALSE, etag |-> 1] ELSE Missing]}

\* A file is renamed to the other's name and published.
MCPatches == {[Nothing EXCEPT !.name = "g", !.public = TRUE]}

\* Of the legacy table: all requests and one run of the script, without
\* failures, or one request and all runs.
Lone == CHOOSE m \in Scripts : TRUE
Casts ==
  {[part |-> "table", writers |-> Writers, scripts |-> {Lone}]}
    \cup {[part |-> "table", writers |-> {w}, scripts |-> Scripts] : w \in Writers}

\* Of the tree: moves and renames without failures, and failures without them.
Focus(part) == [part |-> part, writers |-> {}, scripts |-> {}]

On(part) == focus.part = part

\* Nothing is moved or renamed.
Settled ==
  \A i \in Ids : entries[i].status = "ready" /\ entries'[i].status = "ready" =>
    entries'[i].parent = entries[i].parent /\ entries'[i].name = entries[i].name

StorageInit ==
  /\ Init /\ LegacyInit
  /\ focus \in Casts \cup {Focus(part) : part \in {"moves", "failures"}}
  /\ budget = IF focus.scripts = {Lone} THEN 0 ELSE MaxEvents

StorageNext ==
  /\ UNCHANGED focus
  /\ \/ On("moves") /\ Next /\ faults' = faults /\ UNCHANGED legacyVars
     \/ On("failures") /\ Next /\ Settled /\ UNCHANGED legacyVars
     \/ /\ On("table")
        /\ \/ \E w \in focus.writers : Request(w)
           \/ \E m \in focus.scripts : Run(m)
           \/ Edit \/ Tick
        /\ UNCHANGED vars

StorageSpec == StorageInit /\ [][StorageNext]_<<vars, legacyVars, focus>>

\* A handler of the tree is a writer of the table; the first script is the one that may be alone.
Symmetry == Permutations(Handlers) \cup Permutations(FileIds) \cup Permutations(Names)
=============================================================================
