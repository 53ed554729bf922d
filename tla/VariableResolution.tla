-------------------------- MODULE VariableResolution --------------------------
(***************************************************************************)
(* Resolving the dynamic variables a request needs, each by executing the  *)
(* saved request it is extracted from, which may need others in turn       *)
(* (services/dynamic-variable-resolver.ts, resolveDynamicVariables), and   *)
(* what the runs leave in the caches (workspace-workbench.tsx,             *)
(* mergeVariableCache and pruneVariableCache).                             *)
(*                                                                         *)
(* A run works on the definitions and the cache it was begun with; only    *)
(* the session's cache is shared by runs, and the workspace's is merged    *)
(* when a run ends.  A draft that is saved comes back with the cache as it *)
(* was pruned at the click, and runs end while that save is awaited.  The  *)
(* recursion of the code is a stack of frames.                             *)
(* Static variables are abstracted to the dynamic ones a document needs    *)
(* through them.                                                           *)
(***************************************************************************)
EXTENDS Naturals, Sequences, FiniteSets

CONSTANTS
    Documents, Environments, Variables,
    Current,      \* a variable that is resolved where it is needed
    Graphs,       \* [needs, source, environment, refresh] of a workspace
    Sent, Active, \* documents that are sent, environments they are sent in
    Runs,
    MaxEdits, MaxTime  \* bounds: variables edited, once each; milliseconds

Keys == Variables \X Environments
Gone == 0
Panel == "panel"  \* the made-up document that Execute resolves

VARIABLES
    graph,
    definition,  \* fingerprint of each variable, Gone when it was deleted
    cache,       \* workspace.dynamicVariableCache
    session,     \* dynamicVariableSessionCache
    run,
    clock,
    saving       \* saveExplicitWorkspace: candidate, and the workspace before

vars == <<graph, definition, cache, session, run, clock, saving>>

NoEntry == [ok |-> FALSE, print |-> Gone, at |-> 0]
Empty == [k \in Keys |-> NoEntry]
Zero == [k \in Keys |-> 0]

\* definitions, persistentCache, perRun, the path with what each document on
\* it still needs, and what the run has put on the wire.
NoRun == [at |-> "idle", print |-> [v \in Variables |-> Gone], mine |-> Empty, once |-> Empty,
          forced |-> {}, path |-> <<>>, executed |-> Zero]

Fields(prints, entries) == [definition |-> prints, cache |-> entries]
NoFields == Fields([v \in Variables |-> Gone], Empty)
NoSave == [awaited |-> FALSE, candidate |-> NoFields, before |-> NoFields]

Init ==
    /\ graph \in Graphs
    /\ definition = [v \in Variables |-> 1]
    /\ cache = Empty /\ session = Empty
    /\ run = [r \in Runs |-> NoRun]
    /\ clock = 1
    /\ saving = NoSave

-----------------------------------------------------------------------------

Top(r) == run[r].path[Len(run[r].path)]
Place(frame) == <<frame.document, frame.environment>>
Frame(d, e, todo, for) == [document |-> d, environment |-> e, todo |-> todo, for |-> for]

\* Names that no variable has are left to the templates.
Needed(d, prints) == {v \in graph.needs[d] : prints[v] # Gone}
SourceEnvironment(v, e) == IF graph.environment[v] = Current THEN e ELSE graph.environment[v]

Begin(r, forced, frame) ==
    /\ run[r].at = "idle"
    /\ run' = [run EXCEPT ![r] = [NoRun EXCEPT !.at = "resolving", !.print = definition,
                   !.mine = cache, !.forced = forced, !.path = <<frame>>]]
    /\ UNCHANGED <<graph, definition, cache, session, clock, saving>>

Send(r, d, e) == Begin(r, {}, Frame(d, e, Needed(d, definition), <<>>))
Execute(r, v, e) == definition[v] # Gone /\ Begin(r, {v}, Frame(Panel, e, {v}, <<>>))

-----------------------------------------------------------------------------

\* Mutant: the values of this run are looked up in the workspace's cache only.
HitsCached(r, v, key, fresh) ==
    LET entry == IF graph.refresh[v] = "session" THEN session[key] ELSE run[r].mine[key] IN
    v \notin run[r].forced /\ entry.ok /\ fresh /\ graph.refresh[v] # "every-time"
    /\ entry.print = run[r].print[v]

\* A hit: of this run, of the session, or fresh from the workspace.
Hits(r, v, key, fresh) ==
    LET good(entry) == entry.ok /\ entry.print = run[r].print[v]
        found == IF run[r].once[key] # NoEntry THEN run[r].once[key]
                 ELSE IF graph.refresh[v] = "session" /\ session[key] # NoEntry THEN session[key]
                 ELSE IF graph.refresh[v] = "cache" /\ fresh THEN run[r].mine[key]
                 ELSE NoEntry IN
    v \notin run[r].forced /\ good(found)

\* Mutant: whatever the run brings is taken.
PrunedOfDeleted(c, prints) == [k \in Keys |-> IF prints[k[1]] # Gone THEN c[k] ELSE NoEntry]

\* mergeVariableCache: the newer entry, and none of another definition.
Pruned(c, prints) == [k \in Keys |-> IF c[k].print = prints[k[1]] THEN c[k] ELSE NoEntry]
Merged(mine) ==
    Pruned([k \in Keys |-> IF mine[k] # NoEntry /\ mine[k].at >= cache[k].at
                           THEN mine[k] ELSE cache[k]], definition)

\* A run that was sent and cancelled meanwhile leaves the workspace's cache
\* alone; one that Execute began has no way to be cancelled.
Ended(r, ending) ==
    /\ run' = [run EXCEPT ![r] = [NoRun EXCEPT !.at = "done", !.forced = ending.forced,
                                              !.executed = ending.executed]]
    /\ \/ cache' = Merged(ending.mine)
       \/ run[r].forced = {} /\ UNCHANGED cache

Entry(r, v, ok) == [ok |-> ok, print |-> run[r].print[v], at |-> clock]

\* Every variable on the path fails with the one at its end.
Thrown(r, keys) == [k \in Keys |-> IF k \in keys THEN Entry(r, k[1], FALSE) ELSE run[r].mine[k]]
OnPath(r) == {run[r].path[i].for : i \in 2..Len(run[r].path)}
Fail(r, keys, failing) == Ended(r, [failing EXCEPT !.mine = Thrown(r, keys)])

Resolved(path, v) == [path EXCEPT ![Len(path)].todo = @ \ {v}]

\* A request that is on the path already, in the same environment.
OnThePath(path, place) == \E i \in DOMAIN path : Place(path[i]) = place

\* The next variable of the document at the end of the path: cached, of a
\* missing request, on the path already, or to be resolved before.
Cached(r, v) ==
    LET key == <<v, SourceEnvironment(v, Top(r).environment)>> IN
    /\ \E fresh \in BOOLEAN : Hits(r, v, key, fresh)
    /\ run' = [run EXCEPT ![r].path = Resolved(@, v)]
    /\ UNCHANGED <<graph, definition, cache, session, clock, saving>>

Enter(r, v) ==
    LET e == SourceEnvironment(v, Top(r).environment)
        d == graph.source[v]
        next == Frame(d, e, Needed(d, run[r].print), <<v, e>>) IN
    /\ \E fresh \in BOOLEAN : ~Hits(r, v, <<v, e>>, fresh)
    /\ IF d \notin Documents THEN Fail(r, OnPath(r), run[r])
       ELSE IF OnThePath(run[r].path, <<d, e>>) THEN Fail(r, OnPath(r) \cup {<<v, e>>}, run[r])
       ELSE run' = [run EXCEPT ![r].path = Append(@, next)] /\ UNCHANGED cache
    /\ UNCHANGED <<graph, definition, session, clock, saving>>

Finish(r) ==
    /\ Len(run[r].path) = 1 /\ Top(r).todo = {}
    /\ Ended(r, run[r])
    /\ UNCHANGED <<graph, definition, session, clock, saving>>

\* A document whose own variables are there is executed.  While the run waits
\* for it only others move, so that the wait is no state of its own.
Ready(r) == Len(run[r].path) > 1 /\ Top(r).todo = {}

\* It was cancelled, its secrets cannot be read or the transport fails.
Rejected(r) ==
    /\ Ready(r)
    /\ \E dispatched \in {0, 1} :
        Fail(r, OnPath(r), [run[r] EXCEPT !.executed[Top(r).for] = @ + dispatched])
    /\ UNCHANGED <<graph, definition, session, clock, saving>>

\* The response is there and the expression is evaluated.  Time passes from one
\* response to the next, though not always a millisecond.
Extracted(r) ==
    /\ Ready(r)
    /\ \E ok \in BOOLEAN, tick \in {0, 1} :
        LET key == Top(r).for
            entry == Entry(r, key[1], TRUE)
            sent == [run[r] EXCEPT !.executed[key] = @ + 1]
            last == Len(run[r].path) IN
        /\ clock + tick <= MaxTime /\ clock' = clock + tick
        /\ IF ~ok THEN Fail(r, OnPath(r), sent) /\ UNCHANGED session
           ELSE /\ run' = [run EXCEPT ![r] = [sent EXCEPT
                       !.mine[key] = entry, !.once[key] = entry,
                       !.path = Resolved(SubSeq(run[r].path, 1, last - 1), key[1])]]
                /\ session' = IF graph.refresh[key[1]] = "session"
                              THEN [session EXCEPT ![key] = entry] ELSE session
                /\ UNCHANGED cache
    /\ UNCHANGED <<graph, definition, saving>>

\* Bound: as many variables are edited, each of them once.
Editable(v) == definition[v] = 1 /\ Cardinality({w \in Variables : definition[w] # 1}) < MaxEdits

\* A variable is switched or deleted in its row; what was cached of it goes.
Replace(v) ==
    /\ Editable(v)
    /\ \E print \in {Gone, 2} : definition' = [definition EXCEPT ![v] = print]
    /\ cache' = Pruned(cache, definition')
    /\ UNCHANGED <<graph, session, run, clock, saving>>

\* A draft is saved: what is sent off is pruned now, the store only afterwards.
SaveDraft(v) ==
    /\ ~saving.awaited /\ Editable(v)
    /\ LET changed == [definition EXCEPT ![v] = 2] IN
        saving' = [awaited |-> TRUE, candidate |-> Fields(changed, Pruned(cache, changed)),
                   before |-> Fields(definition, cache)]
    /\ UNCHANGED <<graph, definition, cache, session, run, clock>>

\* What was changed in the workspace meanwhile stays as it is.
Concurrent(now, before, candidate) == IF now # before THEN now ELSE candidate

\* The save is there, or it fails and the draft is kept.
Saved ==
    /\ saving.awaited /\ saving' = NoSave
    /\ \/ UNCHANGED <<definition, cache>>
       \/ /\ definition' = Concurrent(definition, saving.before.definition,
                                       saving.candidate.definition)
          /\ cache' = Concurrent(cache, saving.before.cache, saving.candidate.cache)
    /\ UNCHANGED <<graph, session, run, clock>>

Lookup(r) == run[r].at = "resolving" /\ \E v \in Top(r).todo : Cached(r, v) \/ Enter(r, v)

Progress(r) == Lookup(r) \/ Finish(r) \/ Rejected(r) \/ Extracted(r)

Next ==
    \/ \E r \in Runs, e \in Active :
        \/ \E d \in Sent : Send(r, d, e)
        \/ \E v \in Variables : Execute(r, v, e)
    \/ \E r \in Runs : Progress(r)
    \/ \E v \in Variables : Replace(v) \/ SaveDraft(v)
    \/ Saved

Spec == Init /\ [][Next]_vars /\ \A r \in Runs : WF_vars(Progress(r))

-----------------------------------------------------------------------------

Entries == [ok : BOOLEAN, print : 0..2, at : 0..MaxTime]

Workspaces == [definition : [Variables -> 0..2], cache : [Keys -> Entries]]

TypeOK ==
    /\ definition \in [Variables -> 0..2]
    /\ cache \in [Keys -> Entries] /\ session \in [Keys -> Entries]
    /\ clock \in 1..MaxTime
    /\ saving \in [awaited : BOOLEAN, candidate : Workspaces, before : Workspaces]
    /\ \A r \in Runs :
        /\ run[r].at \in {"idle", "resolving", "done"}
        /\ run[r].mine \in [Keys -> Entries] /\ run[r].once \in [Keys -> Entries]
        /\ run[r].path = <<>> <=> run[r].at \in {"idle", "done"}
        /\ Len(run[r].path) <= Cardinality(Documents) * Cardinality(Environments) + 1

\* "Every-time: executes once per root resolution run"
\* (docs/environments-and-variables.md): however many documents of the chain
\* need a variable, a run sends its request once.  The one that Execute forces
\* bypasses the hits.
ExecutedOnce ==
    \A r \in Runs, k \in Keys : k[1] \notin run[r].forced => run[r].executed[k] <= 1

\* A value of a definition that the variable no longer has.
Outdated(k, entries, prints) == entries[k].print \notin {Gone, prints[k[1]]}

\* A save ends and the cache is another than when it began.
Overtaken == saving.awaited /\ ~saving'.awaited /\ cache # saving.before.cache

\* Completions "merge by timestamp and are pruned against current definitions"
\* (docs/environments-and-variables.md): no entry is replaced by an older one,
\* and whatever changes the workspace's cache leaves no value of a definition
\* that is no more, also when a run of that definition ends then.  Only where a
\* run ended while the save of a draft was awaited is such a value left, and it
\* goes with the next change of the cache.
KeepsCurrent ==
    \A k \in Keys :
        /\ Outdated(k, cache', definition') =>
               cache' = cache /\ (Outdated(k, cache, definition) \/ Overtaken)
        /\ cache[k] # NoEntry /\ cache'[k] # NoEntry => cache'[k].at >= cache[k].at

CacheStaysCurrent == [][KeepsCurrent]_vars

\* What runs put into the cache and how often they execute, together.
RunsShareValues == []ExecutedOnce /\ CacheStaysCurrent

\* "A repeated request/environment pair marks the cycle": whatever the graph,
\* a run ends, and it ends with a cycle only if there is one ahead.
RunsEnd == \A r \in Runs : run[r].at = "resolving" ~> run[r].at = "done"
=============================================================================
