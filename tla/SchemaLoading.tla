----------------------------- MODULE SchemaLoading -----------------------------
(***************************************************************************)
(* A schema connection while its schema is loaded (features/graphql:       *)
(* components/schema-explorer.tsx, services/schema-analysis.ts,            *)
(* model/schema-connection.ts).                                            *)
(*                                                                         *)
(* A load knows the identity of the connection it was started for: where   *)
(* the schema comes from, and in which environment.  The connection can be *)
(* edited at every await of the load, the load can be cancelled, and the   *)
(* explorer goes with its tab and with every change of the environment     *)
(* while its load runs on.  What is installed carries the identity, and    *)
(* the connection is stale as soon as that is no longer its own.           *)
(***************************************************************************)
EXTENDS Naturals

CONSTANTS MaxMounts, MaxLoads, MaxEdits  \* bounds

VARIABLES
    connection,  \* the document: endpoint, source, sdl, identity, fetching, failed
    environment,
    explorer,    \* the explorer on screen, or 0
    mounts, loads, edits,
    load         \* of each explorer

vars == <<connection, environment, explorer, mounts, loads, edits, load>>

Explorers == 1..MaxMounts
Sources == {"introspection", "file"}
Identities == [endpoint : {1, 2}, environment : {1, 2}, source : Sources]
\* Marks in the place of an identity: none, that of the snapshot, and an outdated one.
Mark(name) == [endpoint |-> 0, environment |-> 0, source |-> name]
NoSchema == Mark("none")
Snapshot == Mark("snapshot")
Changed == Mark("changed")

Idle == [at |-> "idle", kind |-> "file", from |-> NoSchema, seen |-> NoSchema, cancelled |-> FALSE]

\* A connection without a schema, and one whose snapshot came with the project and
\* has no record in the local cache.
Init ==
    /\ connection \in [endpoint : {1}, source : {"introspection"}, sdl : {NoSchema, Snapshot},
                       identity : {NoSchema}, fetching : {FALSE}, failed : {FALSE}]
    /\ environment = 1
    /\ explorer = 1 /\ mounts = 1
    /\ loads = 0 /\ edits = 0
    /\ load = [i \in Explorers |-> Idle]

-----------------------------------------------------------------------------

\* schemaConnectionIdentity.
IdentityOf(c) ==
    [endpoint |-> c.endpoint, environment |-> environment, source |-> c.source]

\* schemaConnectionStatus.
Status(c) ==
    CASE c.fetching -> "Loading"
      [] ~c.fetching /\ c.failed -> "Error"
      [] ~c.fetching /\ ~c.failed /\ c.sdl = NoSchema -> "Not fetched"
      [] OTHER -> IF c.identity \notin {NoSchema, IdentityOf(c)} THEN "Stale" ELSE "Loaded"

\* The workbench's onChange: a schema without an identity is marked when what it was
\* loaded from changes.
Patched(c, patched) ==
    IF /\ c.sdl # NoSchema /\ c.identity = NoSchema
       /\ patched.endpoint # c.endpoint \/ patched.source # c.source
    THEN [patched EXCEPT !.identity = Changed] ELSE patched

\* The same for a patch of install, which always names its source.
Installed(c, patched) ==
    IF c.sdl # NoSchema /\ c.identity = NoSchema THEN [patched EXCEPT !.identity = Changed]
    ELSE patched

-----------------------------------------------------------------------------
(* The explorer.                                                           *)

\* introspect and loadFile up to their first await.
Load(kind) ==
    /\ explorer # 0 /\ load[explorer].at = "idle" /\ loads < MaxLoads
    /\ loads' = loads + 1
    /\ load' = [load EXCEPT ![explorer] =
            [at |-> "identity", kind |-> kind, from |-> IdentityOf(connection),
             seen |-> NoSchema, cancelled |-> FALSE]]
    /\ connection' = [connection EXCEPT !.fetching = TRUE, !.failed = FALSE]
    /\ UNCHANGED <<environment, explorer, mounts, edits>>

Cancel ==
    /\ explorer # 0 /\ load[explorer].at # "idle"
    /\ load' = [load EXCEPT ![explorer].cancelled = TRUE]
    /\ UNCHANGED <<connection, environment, explorer, mounts, loads, edits>>

Edited == edits < MaxEdits /\ edits' = edits + 1

EditEndpoint ==
    /\ explorer # 0 /\ Edited
    /\ connection' = Patched(connection, [connection EXCEPT !.endpoint = 3 - @])
    /\ UNCHANGED <<environment, explorer, mounts, loads, load>>

ChooseIntrospection ==
    /\ explorer # 0 /\ Edited
    /\ connection' = Patched(connection, [connection EXCEPT !.source = "introspection"])
    /\ UNCHANGED <<environment, explorer, mounts, loads, load>>

\* The explorer is taken down: its load is cancelled, and nothing is being fetched.
Down ==
    /\ load' = IF explorer = 0 THEN load
               ELSE [load EXCEPT ![explorer].cancelled = load[explorer].at # "idle"]
    /\ connection' = IF explorer = 0 THEN connection ELSE [connection EXCEPT !.fetching = FALSE]

Leave ==
    /\ explorer # 0
    /\ Down
    /\ explorer' = 0
    /\ UNCHANGED <<environment, mounts, loads, edits>>

Open ==
    /\ explorer = 0 /\ mounts < MaxMounts
    /\ mounts' = mounts + 1 /\ explorer' = mounts + 1
    /\ UNCHANGED <<connection, environment, loads, edits, load>>

\* Another environment: contextKey makes it another explorer.
SwitchEnvironment ==
    /\ Edited
    /\ explorer # 0 => mounts < MaxMounts
    /\ environment' = 3 - environment
    /\ Down
    /\ explorer' = IF explorer = 0 THEN 0 ELSE mounts + 1
    /\ mounts' = IF explorer = 0 THEN mounts ELSE mounts + 1
    /\ UNCHANGED loads

-----------------------------------------------------------------------------
(* A load.                                                                 *)

\* Its end: an error is shown and fetchStatus is cleared, if the explorer is there.
End(i, next) ==
    /\ load' = [load EXCEPT ![i] = Idle]
    /\ connection' = IF i = explorer THEN [next EXCEPT !.fetching = FALSE] ELSE connection

Fail(i) ==
    End(i, IF load[i].cancelled THEN connection ELSE [connection EXCEPT !.failed = TRUE])

GoTo(i, at) ==
    /\ load' = [load EXCEPT ![i].at = at]
    /\ UNCHANGED connection

\* The identity is known; the request is sent, or the file is read.
Identify(i) ==
    /\ load[i].at = "identity"
    /\ GoTo(i, IF load[i].kind = "file" THEN "file" ELSE "request")

\* A request notices that it was cancelled; an answer that is not inline is read in
\* windows and released.
Answer(i) ==
    /\ load[i].at = "request"
    /\ \/ Fail(i)
       \/ ~load[i].cancelled /\ \E at \in {"contents", "analysis"} : GoTo(i, at)

ReadContents(i) ==
    /\ load[i].at \in {"contents", "file"}
    /\ \/ Fail(i)
       \/ (load[i].at = "contents" => ~load[i].cancelled) /\ GoTo(i, "analysis")

\* GraphqlSchemaAnalyzer.analyze, and the first half of install: the connection as it
\* is by now, of which the identity is asked for.
Analyse(i) ==
    /\ load[i].at = "analysis"
    /\ \/ Fail(i)
       \/ /\ ~load[i].cancelled
          /\ load' = [load EXCEPT ![i].at = "comparison", ![i].seen = IdentityOf(connection)]
          /\ UNCHANGED connection

Compare(i) ==
    /\ load[i].at = "comparison"
    /\ IF load[i].seen = load[i].from THEN GoTo(i, "stamp") ELSE End(i, connection)

\* Mutant: the identity of the connection as it is when the schema arrives.
StampLatest(i) == [IdentityOf(connection) EXCEPT !.source = load[i].kind]

\* The identity is that of the connection the load was started for, with the source
\* it has from now on.
Stamp(i) == [load[i].from EXCEPT !.source = load[i].kind]

\* The second half of install.  (sdl stands for what the schema was loaded from.)
Install(i) ==
    /\ load[i].at = "stamp"
    /\ End(i, IF load[i].cancelled THEN connection
              ELSE Installed(connection,
                    [connection EXCEPT !.sdl = [load[i].from EXCEPT !.source = load[i].kind],
                                       !.source = load[i].kind, !.identity = Stamp(i)]))

Step(i) ==
    /\ Identify(i) \/ Answer(i) \/ ReadContents(i) \/ Analyse(i) \/ Compare(i) \/ Install(i)
    /\ UNCHANGED <<environment, explorer, mounts, loads, edits>>

Next ==
    \/ \E kind \in Sources : Load(kind)
    \/ Cancel \/ EditEndpoint \/ ChooseIntrospection \/ Leave \/ Open \/ SwitchEnvironment
    \/ \E i \in Explorers : Step(i)

Loads == \E i \in Explorers : Step(i)

Spec == Init /\ [][Next]_vars /\ WF_vars(Loads)

-----------------------------------------------------------------------------

\* The state is of the expected shape.
TypeOK ==
    /\ connection \in [endpoint : {1, 2}, source : Sources,
           sdl : Identities \union {NoSchema, Snapshot},
           identity : Identities \union {NoSchema, Changed},
           fetching : BOOLEAN, failed : BOOLEAN]
    /\ environment \in {1, 2} /\ explorer \in 0..mounts /\ mounts \in Explorers
    /\ loads \in 0..MaxLoads /\ edits \in 0..MaxEdits
    /\ \A i \in Explorers : load[i].at \in {"idle", "identity", "request", "contents",
            "file", "analysis", "comparison", "stamp"}

\* A schema that is shown as loaded was loaded from where the connection points now,
\* in this environment, however the connection was edited while the load was on its
\* way: between the comparison with the latest connection and the installation there
\* is one more await.  And a load that was cancelled, or that the user walked away
\* from, installs nothing.  (install's two comparisons and its stamp.)
LoadedHere ==
    Status(connection) = "Loaded" /\ connection.sdl # Snapshot
        => connection.sdl = IdentityOf(connection)
InstalledByTheLoad ==
    [][connection'.sdl # connection.sdl => explorer # 0 /\ ~load[explorer].cancelled]_vars
LoadedIsCurrent == []LoadedHere /\ InstalledByTheLoad

\* "Loading" is not shown for ever. (the finally of the load and of the explorer)
LoadingEnds == connection.fetching ~> ~connection.fetching
================================================================================
