------------------------------ MODULE MCClients ------------------------------
(***************************************************************************)
(* The machines of the frontend, each checked by itself: the initial state *)
(* says which of them runs, and the others stay as they are.               *)
(***************************************************************************)
EXTENDS WorkspaceSession, FiniteSets, TLC

CONSTANTS
    f1, f2, original, edited, foreign, absent, garbled,          \* files of a session
    home, sub, plain, away, malformed,                  \* origins of a chain
    c1, c2, None, none,                                 \* clients of the vault
    d1, d2, d3, lost, e1, e2, v1, v2, current           \* requests, variables

\* The parameters of the machines, for any values of which the theorems hold.
CONSTANTS
    Inherited, MaxSends, MaxWorkbenches, MaxConfigEdits, MaxJobs, MaxBegun,  \* executions
    Origins, Starts, Https, Site(_), MaxRedirects, MaxReleaseFaults,         \* chain
    Users, Stored, MaxRevision,                                              \* secret cache
    Documents, Environments, Variables, Graphs, Requested, Active, Resolutions,
    MaxVariableEdits, MaxTime,                                               \* variables
    MaxHandles, MaxTyped, MaxFaults,                                         \* exit
    MaxExplorers, MaxLoads, MaxSchemaEdits,                                  \* schema
    Consent, MaxGrants, MaxOAuthEdits,                                       \* grants
    Refs, MaxDialogs, MaxHeld, MaxChanges                                    \* transfer

\* A bound is a number; a chain starts at an address, and the variables of a
\* workspace name variables and environments.
ASSUME ClientsAssumption ==
    /\ {MaxSends, MaxWorkbenches, MaxConfigEdits, MaxJobs, MaxRedirects, MaxHandles, MaxTyped,
        MaxFaults, MaxExplorers, MaxLoads, MaxSchemaEdits, MaxGrants, MaxOAuthEdits, MaxTime,
        MaxDialogs, MaxHeld, MaxChanges} \subseteq Nat
    /\ MaxWorkbenches > 0 /\ MaxExplorers > 0 /\ MaxTime > 0
    /\ Starts \subseteq Origins /\ malformed \notin Origins
    /\ IsFiniteSet(Documents) /\ IsFiniteSet(Environments)
    /\ Requested \subseteq Documents /\ Active \subseteq Environments /\ None \notin Refs
    /\ \A g \in Graphs :
        /\ \A d \in Documents : g.needs[d] \subseteq Variables
        /\ \A v \in Variables : g.environment[v] \in Environments \cup {current}

VARIABLES
    part,
    runs, mounts, shown, refs, ui, history, jobs, config, configEdits,
    at, hop, request, crossed, trace, jar, redirect, live, unreleased, aborted, sent,
    vault, secretCache, answer, baseline, staged, outcome,
    graph, definition, variableCache, variableSession, run, clock, draft,
    phase, previous, update, busy, flushing, open, handles, typed, saved,
    exitTimer, closing, last, ended, faults,
    connection, schemaPlace, explorer, opened, loads, schemaEdits, load,
    oauth, rendered, unavailable, grants, awaited, stops, callbacks, signalled, port,
    pages, exchanged, oauthEdits,
    dialog, shownSecret, asked, reveals, call, cancels, packages, previews, made, over,
    device, files, changes, journal, told

executionVars == <<runs, mounts, shown, refs, ui, history, jobs, config, configEdits>>
chainVars == <<at, hop, request, crossed, trace, jar, redirect, live, unreleased,
    aborted, sent>>
secretVars == <<vault, secretCache, answer, baseline, staged, outcome>>
variableVars == <<graph, definition, variableCache, variableSession, run, clock, draft>>
exitVars == <<phase, previous, update, busy, flushing, open, handles, typed, saved,
    exitTimer, closing, last, ended, faults>>
schemaVars == <<connection, schemaPlace, explorer, opened, loads, schemaEdits, load>>
grantVars == <<oauth, rendered, unavailable, grants, awaited, stops, callbacks, signalled,
    port, pages, exchanged, oauthEdits>>
transferVars == <<dialog, shownSecret, asked, reveals, call, cancels, packages, previews, made,
    over, device, files, changes, journal, told>>
networkVars == <<executionVars, chainVars, grantVars>>
valueVars == <<secretVars, variableVars, transferVars>>
allVars == <<part, vars, networkVars, valueVars, exitVars, schemaVars>>

-----------------------------------------------------------------------------

TwoFiles == {f1, f2}

Execution == INSTANCE RequestExecution
    WITH session <- ui, edits <- configEdits,
         MaxMounts <- MaxWorkbenches, MaxEdits <- MaxConfigEdits

SiteOf(origin) == IF origin = sub THEN home ELSE origin
Chain == INSTANCE RedirectChain
    WITH current <- request, answer <- redirect, lost <- unreleased, Malformed <- malformed

Secret == INSTANCE SecretCache
    WITH cache <- secretCache, saved <- outcome, Clients <- Users, Values <- Stored

\* A chain of two requests, a cycle, and a request that is missing.
Graph(needs, source, environment, first, second) ==
    [needs |-> (d1 :> {v1, v2}) @@ (d2 :> needs[1]) @@ (d3 :> needs[2]),
     source |-> (v1 :> d2) @@ (v2 :> source),
     environment |-> (v1 :> current) @@ (v2 :> environment),
     refresh |-> (v1 :> first) @@ (v2 :> second)]
SomeGraphs ==
    {Graph(<<{v2}, {}>>, d3, current, "cache", "every-time"),
     Graph(<<{v2}, {v1}>>, d3, e2, "session", "cache"),
     Graph(<<{}, {}>>, lost, current, "session", "cache")}
Variable == INSTANCE VariableResolution
    WITH cache <- variableCache, session <- variableSession, saving <- draft, Current <- current,
         Runs <- Resolutions, Sent <- Requested, MaxEdits <- MaxVariableEdits

Exit == INSTANCE ApplicationExit
    WITH timer <- exitTimer, MaxEdits <- MaxTyped

Schema == INSTANCE SchemaLoading
    WITH environment <- schemaPlace, mounts <- opened, edits <- schemaEdits,
         MaxMounts <- MaxExplorers, MaxEdits <- MaxSchemaEdits

Grant == INSTANCE OAuthGrant
    WITH config <- oauth, jobs <- grants, pending <- awaited, edits <- oauthEdits,
         Clients <- Users, MaxJobs <- MaxGrants, MaxEdits <- MaxOAuthEdits

Transfer == INSTANCE SecretTransfer
    WITH shown <- shownSecret, vault <- device, outcome <- journal

-----------------------------------------------------------------------------

ClientsInit ==
    /\ part \in {"session", "execution", "chain", "secret", "variables", "exit", "schema",
                 "grant", "transfer"}
    /\ Init /\ Execution!Init /\ Chain!Init /\ Secret!Init /\ Variable!Init
    /\ Exit!Init /\ Schema!Init /\ Grant!Init /\ Transfer!Init
    /\ part # "schema" => connection.sdl = Schema!NoSchema
    /\ part # "chain" => request.method = "POST"
    /\ part # "variables" => graph = CHOOSE g \in Graphs : TRUE
    /\ part # "transfer" => \A r \in Refs : device[r].value = None
    /\ part # "grant" =>
           oauth = [client |-> CHOOSE c \in Users : TRUE, token |-> Grant!NoToken]
           /\ unavailable = {}

\* One of the machines takes a step, and the others stand still.
Only(machine, A, others) == part = machine /\ A /\ UNCHANGED <<part, others>>

\* The two files are alike: the first the user edits is called f1.
Named == edits = 0 /\ edits' = 1 => store'[f2] = store[f2]

\* Bound: other programs may leave f2 garbled, before any retry or deletion; they
\* write once more when the session rests on that, and then the workspace is not
\* deleted.  The watcher asks for a reload of every file when it is read-only.
Broken == disk # Absent /\ disk[f2] = garbled
Damaged ==
    /\ externals' # externals =>
        /\ disk'[f1] # garbled
        /\ Broken' => retries = 0 /\ deletes = 0
        /\ externals = 1 => Broken /\ readonly /\ ~Busy
    /\ Broken => deletes' = 0
    /\ externals' = 2 => deletes' = 0 /\ edits' < 2
    /\ event # {} /\ event' = {} /\ ~readonly => queue'[Len(queue')].paths = event

OfSession(A) == Only("session", A, <<networkVars, valueVars, exitVars, schemaVars>>)
OfExecution(A) ==
    Only("execution", A, <<vars, chainVars, grantVars, valueVars, exitVars, schemaVars>>)
OfChain(A) ==
    Only("chain", A, <<vars, executionVars, grantVars, valueVars, exitVars, schemaVars>>)
OfGrant(A) ==
    Only("grant", A, <<vars, executionVars, chainVars, valueVars, exitVars, schemaVars>>)
OfSecret(A) ==
    Only("secret", A, <<vars, networkVars, variableVars, transferVars, exitVars, schemaVars>>)
OfVariables(A) ==
    Only("variables", A, <<vars, networkVars, secretVars, transferVars, exitVars, schemaVars>>)
OfTransfer(A) ==
    Only("transfer", A, <<vars, networkVars, secretVars, variableVars, exitVars, schemaVars>>)
OfExit(A) == Only("exit", A, <<vars, networkVars, valueVars, schemaVars>>)
OfSchema(A) == Only("schema", A, <<vars, networkVars, valueVars, exitVars>>)

\* Bound: executions and token requests in all.
Few == Len(runs') + Len(jobs') <= MaxBegun

\* Bound: drafts are saved in two of the three workspaces.
Drafted == draft'.awaited => graph.refresh[v1] = "session"

ClientsNext ==
    \/ OfSession(Next /\ Named /\ Damaged) \/ OfExecution(Execution!Next /\ Few) \/ OfChain(Chain!Next)
    \/ OfSecret(Secret!Next) \/ OfVariables(Variable!Next /\ Drafted) \/ OfExit(Exit!Next)
    \/ OfSchema(Schema!Next) \/ OfGrant(Grant!Next)
    \/ OfTransfer(Transfer!Next)

\* What each machine assumes of its environment; one condition is enough, since
\* only one of them runs.  That updates are looked for again and again does not
\* hold up the close.
Fairly ==
    \/ OfSession(Autosave \/ Notify \/ RunQueue)
    \/ OfExecution(\/ \E r \in 1..MaxSends : Execution!Progress(r)
                   \/ \E j \in 1..MaxJobs : Execution!JobProgress(j))
    \/ OfChain(Chain!Progress)
    \/ \E r \in Resolutions : OfVariables(Variable!Progress(r))
    \/ OfSchema(Schema!Loads)
    \/ \E j \in 1..MaxGrants : OfGrant(Grant!Progress(j))
    \/ \E d \in 1..MaxDialogs : OfTransfer(Transfer!Progress(d))

Clients ==
    /\ ClientsInit /\ [][ClientsNext]_allVars
    /\ WF_allVars(Fairly) /\ WF_allVars(OfExit(Exit!Running /\ Exit!Closing))

-----------------------------------------------------------------------------
(* The properties, under their names in the modules.                       *)

ClientsTypeOK ==
    /\ part = "session" => TypeOK
    /\ part = "execution" => Execution!TypeOK
    /\ part = "chain" => Chain!TypeOK
    /\ part = "secret" => Secret!TypeOK
    /\ part = "variables" => Variable!TypeOK
    /\ part = "exit" => Exit!TypeOK
    /\ part = "schema" => Schema!TypeOK
    /\ part = "grant" => Grant!TypeOK
    /\ part = "transfer" => Transfer!TypeOK

ShownAndRecorded ==
    [](part = "execution" => Execution!RecordedOnce) /\ Execution!OnlyCurrentShown
TokensBelong ==
    /\ Execution!LateTokenKeepsEdits
    /\ [](part = "grant" =>
            Grant!CodesAreExchangedOnce /\ Grant!TokenBelongs /\ Grant!AsksForWhatItSends)
    /\ [][part = "grant" => Grant!NothingLost]_grantVars
NothingLeaks == part = "chain" => Chain!NothingLeaks
CommitsSeeCurrent == Secret!CommitsSeeCurrent
RunsShareValues ==
    [](part = "variables" => Variable!ExecutedOnce) /\ Variable!CacheStaysCurrent
ImportsAreAsSeen ==
    /\ [](part = "transfer" =>
            Transfer!HeldIsKnown /\ Transfer!ToldAsItIs /\ Transfer!ShownIsAsked)
    /\ [][part = "transfer" => Transfer!ReplacesWhatWasSeen]_transferVars
FlushedBeforeRestart == part = "exit" => Exit!FlushedBeforeRestart
LoadedIsCurrent ==
    [](part = "schema" => Schema!LoadedHere) /\ Schema!InstalledByTheLoad

\* SessionConverges, SendingEnds, ChainEnds, RunsEnd, WindowCloses, LoadingEnds,
\* GrantsEnd and CommandsEnd:
\* whatever is waited for comes to its end.
Waiting ==
    \/ part = "session" /\ Busy
    \/ part = "execution" /\ ui.sending
    \/ part = "chain"
    \/ part = "variables" /\ \E r \in Resolutions : run[r].at = "resolving"
    \/ part = "exit" /\ Exit!Saving
    \/ part = "schema" /\ connection.fetching
    \/ part = "grant" /\ ~Grant!Quiet
    \/ part = "transfer" /\ Transfer!Working

Done ==
    /\ part = "session" => ~Busy /\ Converged
    /\ part = "execution" => ~ui.sending
    /\ part = "chain" => Chain!Ended
    /\ part = "variables" => \A r \in Resolutions : run[r].at # "resolving"
    /\ part = "exit" => Exit!Exiting
    /\ part = "schema" => ~connection.fetching
    /\ part = "grant" => Grant!Quiet
    /\ part = "transfer" => ~Transfer!Working

WaitsEnd == Waiting ~> Done
=============================================================================
