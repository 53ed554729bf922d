---------------------------- MODULE ClientProofs ----------------------------
(***************************************************************************)
(* The theorems of the frontend's machines, as MCClients instantiates and  *)
(* composes them, for every value of their parameters: each theorem states *)
(* a property of Clients, the specification in which any of them runs.     *)
(***************************************************************************)
EXTENDS MCClients, SessionProofs, SequenceTheorems, FiniteSetTheorems, TLAPS

-----------------------------------------------------------------------------
(* The exit.  A restart saves what was typed before the click, whatever     *)
(* autosaves and closes run beside it: the store saved never goes back, and *)
(* an installation begins only where the flush ended.                       *)

\* A step of the exit is taken by the exit, and the others leave it alone.
LEMMA ExitMoves == [ClientsNext]_allVars => [Exit!Next]_(Exit!vars)
  BY DEF ClientsNext, OfSession, OfExecution, OfChain, OfSecret, OfVariables, OfExit,
         OfSchema, OfGrant, OfTransfer, Only, exitVars, allVars, Exit!vars,
         Exit!controller, Exit!editor, Exit!window

\* The types, and where the handles are: a controller that waits for an answer
\* is in the phase it waits in, and has an update unless it only looks for one.
ExitInv ==
    /\ Exit!TypeOK
    /\ handles \in Nat /\ typed \in Nat /\ saved \in Nat /\ flushing \in Nat /\ last \in Nat
    /\ faults \in Nat
    /\ previous \in {"idle", "available"}
    /\ phase = "checking" <=> busy = "checking"
    /\ phase = "downloading" <=> busy = "downloading"
    /\ phase = "installing" <=> busy = "installing"
    /\ busy = "checking" /\ previous = "available" => update # Exit!NoHandle
    /\ busy \in {"saving", "installing", "restarting"} => update # Exit!NoHandle
    /\ Exit!FlushedBeforeRestart

\* The first state of the exit satisfies the invariant.
LEMMA ExitStarts == Exit!Init => ExitInv
  BY ClientsAssumption
  DEF Exit!Init, ExitInv, Exit!TypeOK, Exit!FlushedBeforeRestart, Exit!NoHandle

\* Every step of the exit keeps the invariant.
LEMMA ExitStep == ExitInv /\ [Exit!Next]_(Exit!vars) => ExitInv'
<1> SUFFICES ASSUME ExitInv, [Exit!Next]_(Exit!vars) PROVE ExitInv'
  OBVIOUS
<1> USE ClientsAssumption
    DEF ExitInv, Exit!TypeOK, Exit!FlushedBeforeRestart, Exit!NoHandle, Exit!editor,
        Exit!window, Exit!controller, Exit!Fault
<1>1. CASE Exit!Check
  BY <1>1 DEF Exit!Check
<1>2. CASE Exit!CheckFailed
  BY <1>2 DEF Exit!CheckFailed
<1>3. CASE Exit!Checked
  BY <1>3 DEF Exit!Checked, Exit!Superseded
<1>4. CASE Exit!Download
  BY <1>4 DEF Exit!Download
<1>5. CASE Exit!Downloaded
  BY <1>5 DEF Exit!Downloaded
<1>6. CASE Exit!Restart
  BY <1>6 DEF Exit!Restart, Exit!CanRestart
<1>7. CASE Exit!RestartFailed
  BY <1>7 DEF Exit!RestartFailed
<1>8. CASE Exit!Flushed
  BY <1>8 DEF Exit!Flushed, Exit!Save
<1>9. CASE Exit!Installed
  BY <1>9 DEF Exit!Installed
<1>10. CASE Exit!Relaunched
  BY <1>10 DEF Exit!Relaunched
<1>11. CASE Exit!Type
  BY <1>11 DEF Exit!Type
<1>12. CASE Exit!Autosave
  BY <1>12 DEF Exit!Autosave, Exit!Save
<1>13. CASE Exit!Close
  BY <1>13 DEF Exit!Close
<1>14. CASE Exit!Closing
  BY <1>14 DEF Exit!Closing, Exit!SavedOrNot, Exit!Save, Exit!Exit
<1>15. CASE UNCHANGED Exit!vars
  BY <1>15 DEF Exit!vars
<1> QED
  BY <1>1, <1>2, <1>3, <1>4, <1>5, <1>6, <1>7, <1>8, <1>9, <1>10, <1>11, <1>12, <1>13,
     <1>14, <1>15 DEF Exit!Next, Exit!Waiting

\* The exit keeps its invariant in every behaviour.
LEMMA ExitKeeps == Clients => []ExitInv
<1>1. ClientsInit => Exit!Init
  BY DEF ClientsInit
<1> QED
  BY <1>1, ExitMoves, ExitStarts, ExitStep, PTL DEF Clients

\* Nothing is installed and nothing relaunched before the store is saved as it
\* was when the user clicked, after a failed attempt as well.
THEOREM RestartIsFlushed == Clients => []FlushedBeforeRestart
<1>1. ExitInv => FlushedBeforeRestart
  BY DEF ExitInv, FlushedBeforeRestart
<1> QED
  BY <1>1, ExitKeeps, PTL
-----------------------------------------------------------------------------
(* The cached secret: the cache may hold anything it once read, and a commit *)
(* by revision is safe.                                                      *)

\* A step of the secret is taken by the secret, and the others leave it alone.
LEMMA SecretMoves == [ClientsNext]_allVars => [Secret!Next]_(Secret!vars)
  BY DEF ClientsNext, OfSession, OfExecution, OfChain, OfSecret, OfVariables, OfExit,
         OfSchema, OfGrant, OfTransfer, Only, valueVars, secretVars, allVars, Secret!vars

\* The types, and what a snapshot may be.
SecretInv == Secret!TypeOK /\ Secret!StaleIsRecognised

\* The first state of the cache satisfies the invariant.
LEMMA SecretStarts == Secret!Init => SecretInv
  BY DEF Secret!Init, SecretInv, Secret!TypeOK, Secret!StaleIsRecognised,
         Secret!Recognisable, Secret!Snapshots, Secret!NoEntry, Secret!Wanted

\* Snapshots stay recognisable: what is read is the vault, and a commit moves
\* the vault to a revision no snapshot has.
LEMMA SecretStep == SecretInv /\ [Secret!Next]_(Secret!vars) => SecretInv'
<1> SUFFICES ASSUME SecretInv, [Secret!Next]_(Secret!vars) PROVE SecretInv'
  OBVIOUS
<1> USE DEF SecretInv, Secret!TypeOK, Secret!StaleIsRecognised, Secret!Recognisable,
            Secret!Snapshots, Secret!NoEntry, Secret!Wanted
<1>1. CASE Secret!Unreadable
  BY <1>1 DEF Secret!Unreadable
<1>2. ASSUME NEW c \in Users, Secret!Step(c) PROVE SecretInv'
  <2>1. ASSUME NEW v \in Stored \cup {None}, Secret!Cached(c, v) PROVE SecretInv'
    BY <2>1 DEF Secret!Cached, Secret!Idle
  <2>2. CASE Secret!Answer(c)
    BY <2>2 DEF Secret!Answer, Secret!Idle
  <2>3. CASE Secret!Arrive(c)
    BY <2>3 DEF Secret!Arrive
  <2>4. CASE Secret!SaveNothing(c)
    BY <2>4 DEF Secret!SaveNothing
  <2>5. CASE Secret!Commit(c)
    BY <2>5 DEF Secret!Commit, Secret!Changes, Secret!Applied
  <2>6. CASE Secret!CommitEnds(c)
    BY <2>6 DEF Secret!CommitEnds
  <2> QED
    BY <1>2, <2>1, <2>2, <2>3, <2>4, <2>5, <2>6 DEF Secret!Step
<1>3. CASE UNCHANGED Secret!vars
  BY <1>3 DEF Secret!vars
<1> QED
  BY <1>1, <1>2, <1>3 DEF Secret!Next

\* The cache keeps its invariant in every behaviour.
LEMMA SecretKeeps == Clients => []SecretInv
<1>1. ClientsInit => Secret!Init
  BY DEF ClientsInit
<1> QED
  BY <1>1, SecretMoves, SecretStarts, SecretStep, PTL DEF Clients

\* A stale cache entry is told from a current one by its revision, whatever
\* read it and whenever its answer arrived.
THEOREM StaleRecognised == Clients => []Secret!StaleIsRecognised
<1>1. SecretInv => Secret!StaleIsRecognised
  BY DEF SecretInv
<1> QED
  BY <1>1, SecretKeeps, PTL

\* A step that commits finds the baseline of its save in the vault.
LEMMA CommitStep ==
  ASSUME SecretInv, [Secret!Next]_(Secret!vars),
         NEW c \in Users, outcome[c] = "no", outcome'[c] = "committed"
  PROVE  baseline[c] = vault
<1> USE DEF SecretInv, Secret!TypeOK, Secret!Snapshots, Secret!NoEntry, Secret!Wanted
<1>1. PICK d \in Users : Secret!Step(d)
  BY DEF Secret!Next, Secret!Unreadable, Secret!vars
<1>2. Secret!Commit(d)
  BY <1>1 DEF Secret!Step, Secret!Cached, Secret!Answer, Secret!Arrive,
              Secret!SaveNothing, Secret!CommitEnds, Secret!Idle
<1>3. c = d /\ baseline[c].revision = vault.revision
  BY <1>2 DEF Secret!Commit
<1>4. baseline[c] # Secret!NoEntry
  BY <1>2, <1>3 DEF Secret!Commit
<1> QED
  BY <1>3, <1>4 DEF Secret!StaleIsRecognised, Secret!Recognisable

\* No save takes away what another one published: an accepted commit was
\* prepared on the value it replaces.
THEOREM CommitsAreCurrent == Clients => CommitsSeeCurrent
<1>1. SecretInv /\ [Secret!Next]_(Secret!vars) =>
        [\A c \in Users : outcome[c] = "no" /\ outcome'[c] = "committed" =>
            baseline[c] = vault]_(Secret!vars)
  BY CommitStep
<1> QED
  BY <1>1, SecretMoves, SecretKeeps, PTL
  DEF Clients, CommitsSeeCurrent, Secret!CommitsSeeCurrent
-----------------------------------------------------------------------------
(* The schema.  What a load installs carries the identity the load was       *)
(* started for, so that the connection is stale whenever it points elsewhere *)
(* by then.                                                                  *)

\* A step of the schema is taken by the schema, and the others leave it alone.
LEMMA SchemaMoves == [ClientsNext]_allVars => [Schema!Next]_(Schema!vars)
  BY DEF ClientsNext, OfSession, OfExecution, OfChain, OfSecret, OfVariables, OfExit,
         OfSchema, OfGrant, OfTransfer, Only, schemaVars, allVars, Schema!vars

Known == Schema!Identities \union {Schema!NoSchema}
LoadPlaces ==
    {"idle", "identity", "request", "contents", "file", "analysis", "comparison", "stamp"}

\* The state of an explorer's load; a load under way knows an identity.
LoadStates ==
    {l \in [at : LoadPlaces, kind : Schema!Sources, from : Known, seen : Known,
            cancelled : BOOLEAN] :
        l.at # "idle" => l.from \in Schema!Identities}

\* A schema that was loaded has the identity it was loaded from, or a mark that
\* says it is outdated; one that was not has none.
Connections ==
    {c \in [endpoint : {1, 2}, source : Schema!Sources,
            sdl : Known \union {Schema!Snapshot}, identity : Known \union {Schema!Changed},
            fetching : BOOLEAN, failed : BOOLEAN] :
        c.identity \in {Schema!Changed,
                        IF c.sdl \in Schema!Identities THEN c.sdl ELSE Schema!NoSchema}}

SchemaInv ==
    /\ connection \in Connections
    /\ load \in [Schema!Explorers -> LoadStates]
    /\ schemaPlace \in {1, 2}
    /\ opened \in Schema!Explorers /\ explorer \in 0..opened
    /\ loads \in 0..MaxLoads /\ schemaEdits \in 0..MaxSchemaEdits

\* The invariant of schema loading includes its types.
LEMMA SchemaTypes == SchemaInv => Schema!TypeOK
<1>1. ASSUME SchemaInv, NEW i \in Schema!Explorers PROVE load[i].at \in LoadPlaces
  BY <1>1 DEF SchemaInv, LoadStates
<1> QED
  BY <1>1 DEF SchemaInv, Connections, Known, LoadPlaces, Schema!TypeOK

\* The marks are no identities, and differ.
LEMMA Marks ==
    /\ Schema!NoSchema \notin Schema!Identities
    /\ Schema!Snapshot \notin Schema!Identities
    /\ Schema!Changed \notin Schema!Identities
    /\ Schema!NoSchema # Schema!Snapshot /\ Schema!NoSchema # Schema!Changed
  BY DEF Schema!NoSchema, Schema!Snapshot, Schema!Changed, Schema!Mark, Schema!Identities

\* A connection and its environment have an identity.
LEMMA Identified ==
  ASSUME SchemaInv PROVE Schema!IdentityOf(connection) \in Schema!Identities
  BY DEF SchemaInv, Connections, Schema!IdentityOf, Schema!Identities

\* The identity of a load with the source it has from now on is one.
LEMMA Stamped ==
  ASSUME NEW x \in Schema!Identities, NEW s \in Schema!Sources
  PROVE  [x EXCEPT !.source = s] \in Schema!Identities
  BY DEF Schema!Identities

\* The explorer on screen is one of them, and the next one is too.
LEMMA OnScreen ==
  ASSUME SchemaInv
  PROVE  /\ explorer # 0 => explorer \in Schema!Explorers
         /\ opened < MaxExplorers => opened + 1 \in Schema!Explorers
         /\ opened \in Nat /\ explorer \in 0..opened /\ 0 \in 0..opened
         /\ explorer \in 0..(opened + 1) /\ opened + 1 \in 0..(opened + 1)
         /\ loads < MaxLoads => loads + 1 \in 0..MaxLoads
         /\ schemaEdits < MaxSchemaEdits => schemaEdits + 1 \in 0..MaxSchemaEdits
<1>1. MaxExplorers \in Nat /\ MaxLoads \in Nat /\ MaxSchemaEdits \in Nat
  BY ClientsAssumption
<1> QED
  BY <1>1 DEF SchemaInv, Schema!Explorers

\* What is shown of a load changes nothing of the schema.
LEMMA Showing ==
  ASSUME NEW c \in Connections, NEW b \in BOOLEAN
  PROVE  /\ [c EXCEPT !.fetching = b] \in Connections
         /\ [c EXCEPT !.failed = b] \in Connections
         /\ [c EXCEPT !.fetching = TRUE, !.failed = FALSE] \in Connections
  BY DEF Connections

\* An edit leaves the schema, and its identity unless it marks it.
LEMMA Editing ==
  ASSUME NEW c \in Connections, NEW p \in Connections, p.sdl = c.sdl
  PROVE  Schema!Patched(c, p) \in Connections
  BY DEF Connections, Schema!Patched

\* Another endpoint, or introspection, is again a connection.
LEMMA Editable ==
  ASSUME NEW c \in Connections
  PROVE  /\ [c EXCEPT !.endpoint = 3 - @] \in Connections
         /\ [c EXCEPT !.endpoint = 3 - @].sdl = c.sdl
         /\ [c EXCEPT !.source = "introspection"] \in Connections
         /\ [c EXCEPT !.source = "introspection"].sdl = c.sdl
<1>1. 3 - c.endpoint \in {1, 2}
  BY DEF Connections
<1>2. "introspection" \in Schema!Sources
  BY DEF Schema!Sources
<1> QED
  BY <1>1, <1>2 DEF Connections

\* What is installed carries the identity of what it was loaded from.
LEMMA Installing ==
  ASSUME NEW c \in Connections, NEW x \in Schema!Identities, NEW s \in Schema!Sources
  PROVE  Schema!Installed(c, [c EXCEPT !.sdl = x, !.source = s, !.identity = x]) \in Connections
<1> DEFINE p == [c EXCEPT !.sdl = x, !.source = s, !.identity = x]
<1>1. p \in Connections
  BY DEF Connections, Known
<1>2. [p EXCEPT !.identity = Schema!Changed] \in Connections
  BY <1>1 DEF Connections
<1> QED
  BY <1>1, <1>2 DEF Schema!Installed

\* The steps of a load.
LEMMA Loading ==
  ASSUME NEW l \in LoadStates
  PROVE  /\ \A b \in BOOLEAN : [l EXCEPT !.cancelled = b] \in LoadStates
         /\ l.at # "idle" => \A place \in LoadPlaces : [l EXCEPT !.at = place] \in LoadStates
         /\ l.at # "idle" => \A place \in LoadPlaces, x \in Schema!Identities :
                [l EXCEPT !.at = place, !.seen = x] \in LoadStates
  BY DEF LoadStates, Known

\* A load that is not under way is a state of a load.
LEMMA Resting == Schema!Idle \in LoadStates
  BY DEF LoadStates, LoadPlaces, Known, Schema!Idle, Schema!Sources

\* The first state of schema loading satisfies the invariant.
LEMMA SchemaStarts == Schema!Init => SchemaInv
<1> SUFFICES ASSUME Schema!Init PROVE SchemaInv
  OBVIOUS
<1>1. opened \in Schema!Explorers /\ explorer \in 0..opened
  BY ClientsAssumption DEF Schema!Init, Schema!Explorers
<1>2. 0 \in 0..MaxLoads /\ 0 \in 0..MaxSchemaEdits
  BY ClientsAssumption
<1>3. connection \in Connections
  BY Marks DEF Schema!Init, Connections, Known, Schema!Sources
<1> QED
  BY <1>1, <1>2, <1>3, Resting DEF Schema!Init, SchemaInv

\* What ends a load leaves a connection that is told apart from it.
LEMMA EndKeeps ==
  ASSUME SchemaInv, NEW i \in Schema!Explorers, NEW c \in Connections, Schema!End(i, c)
  PROVE  connection' \in Connections /\ load' \in [Schema!Explorers -> LoadStates]
  BY Resting, Showing DEF SchemaInv, Schema!End

\* A load that fails keeps the types.
LEMMA FailKeeps ==
  ASSUME SchemaInv, NEW i \in Schema!Explorers, Schema!Fail(i)
  PROVE  connection' \in Connections /\ load' \in [Schema!Explorers -> LoadStates]
<1>1. [connection EXCEPT !.failed = TRUE] \in Connections /\ connection \in Connections
  BY Showing DEF SchemaInv
<1> QED
  BY <1>1, EndKeeps DEF Schema!Fail

\* A load that goes on to its next step keeps the types.
LEMMA GoToKeeps ==
  ASSUME SchemaInv, NEW i \in Schema!Explorers, load[i].at # "idle",
         NEW place \in LoadPlaces, Schema!GoTo(i, place)
  PROVE  connection' \in Connections /\ load' \in [Schema!Explorers -> LoadStates]
<1>1. [load[i] EXCEPT !.at = place] \in LoadStates
  BY Loading DEF SchemaInv
<1> QED
  BY <1>1 DEF SchemaInv, Schema!GoTo

\* The explorer is taken down.
LEMMA DownKeeps ==
  ASSUME SchemaInv, Schema!Down
  PROVE  connection' \in Connections /\ load' \in [Schema!Explorers -> LoadStates]
<1>1. CASE explorer = 0
  BY <1>1 DEF Schema!Down, SchemaInv
<1>2. CASE explorer # 0
  <2>1. [connection EXCEPT !.fetching = FALSE] \in Connections
    BY Showing DEF SchemaInv
  <2>2. \A b \in BOOLEAN : [load[explorer] EXCEPT !.cancelled = b] \in LoadStates
    BY <1>2, Loading, OnScreen DEF SchemaInv
  <2> QED
    BY <1>2, <2>1, <2>2, OnScreen DEF Schema!Down, SchemaInv
<1> QED
  BY <1>1, <1>2

\* Every step of schema loading keeps the invariant.
LEMMA SchemaStep == SchemaInv /\ [Schema!Next]_(Schema!vars) => SchemaInv'
<1> SUFFICES ASSUME SchemaInv, [Schema!Next]_(Schema!vars) PROVE SchemaInv'
  OBVIOUS
<1> USE OnScreen
<1>1. ASSUME NEW kind \in Schema!Sources, Schema!Load(kind) PROVE SchemaInv'
  <2>1. connection' \in Connections
    BY <1>1, Showing DEF Schema!Load, SchemaInv
  <2>2. [at |-> "identity", kind |-> kind, from |-> Schema!IdentityOf(connection),
         seen |-> Schema!NoSchema, cancelled |-> FALSE] \in LoadStates
    BY Identified DEF LoadStates, LoadPlaces, Known
  <2> QED
    BY <1>1, <2>1, <2>2 DEF Schema!Load, SchemaInv
<1>2. CASE Schema!Cancel
  <2>1. [load[explorer] EXCEPT !.cancelled = TRUE] \in LoadStates
    BY <1>2, Loading DEF Schema!Cancel, SchemaInv
  <2> QED
    BY <1>2, <2>1 DEF Schema!Cancel, SchemaInv
<1>3. CASE Schema!EditEndpoint
  <2>1. connection' \in Connections
    BY <1>3, Editable, Editing DEF Schema!EditEndpoint, SchemaInv
  <2> QED
    BY <1>3, <2>1 DEF Schema!EditEndpoint, Schema!Edited, SchemaInv
<1>4. CASE Schema!ChooseIntrospection
  <2>1. connection' \in Connections
    BY <1>4, Editable, Editing DEF Schema!ChooseIntrospection, SchemaInv
  <2> QED
    BY <1>4, <2>1 DEF Schema!ChooseIntrospection, Schema!Edited, SchemaInv
<1>5. CASE Schema!Leave
  BY <1>5, DownKeeps DEF Schema!Leave, SchemaInv
<1>6. CASE Schema!Open
  BY <1>6 DEF Schema!Open, SchemaInv
<1>7. CASE Schema!SwitchEnvironment
  <2>1. schemaPlace' \in {1, 2}
    BY <1>7 DEF Schema!SwitchEnvironment, SchemaInv
  <2>2. opened' \in Schema!Explorers /\ explorer' \in 0..opened'
    BY <1>7 DEF Schema!SwitchEnvironment, SchemaInv
  <2> QED
    BY <1>7, <2>1, <2>2, DownKeeps DEF Schema!SwitchEnvironment, Schema!Edited, SchemaInv
<1>8. ASSUME NEW i \in Schema!Explorers, Schema!Step(i) PROVE SchemaInv'
  <2> SUFFICES connection' \in Connections /\ load' \in [Schema!Explorers -> LoadStates]
    BY <1>8 DEF Schema!Step, SchemaInv
  <2>1. CASE Schema!Identify(i)
    BY <2>1, GoToKeeps DEF Schema!Identify, LoadPlaces
  <2>2. CASE Schema!Answer(i)
    BY <2>2, FailKeeps, GoToKeeps DEF Schema!Answer, LoadPlaces
  <2>3. CASE Schema!ReadContents(i)
    BY <2>3, FailKeeps, GoToKeeps DEF Schema!ReadContents, LoadPlaces
  <2>4. CASE Schema!Analyse(i)
    <3>1. load[i].at # "idle" =>
              [load[i] EXCEPT !.at = "comparison", !.seen = Schema!IdentityOf(connection)]
                  \in LoadStates
      BY Identified, Loading DEF SchemaInv, LoadPlaces
    <3> QED
      BY <2>4, <3>1, FailKeeps DEF Schema!Analyse, SchemaInv
  <2>5. CASE Schema!Compare(i)
    BY <2>5, GoToKeeps, EndKeeps DEF Schema!Compare, LoadPlaces, SchemaInv
  <2>6. CASE Schema!Install(i)
    <3> DEFINE x == Schema!Stamp(i)
               s == load[i].kind
    <3>1. x \in Schema!Identities /\ s \in Schema!Sources
      BY <2>6, Stamped DEF Schema!Install, Schema!Stamp, SchemaInv, LoadStates
    <3>2. Schema!Installed(connection,
              [connection EXCEPT !.sdl = x, !.source = s, !.identity = x]) \in Connections
      BY <3>1, Installing DEF SchemaInv
    <3> QED
      BY <2>6, <3>2, EndKeeps DEF Schema!Install, Schema!Stamp, SchemaInv
  <2> QED
    BY <1>8, <2>1, <2>2, <2>3, <2>4, <2>5, <2>6 DEF Schema!Step
<1>9. CASE UNCHANGED Schema!vars
  BY <1>9 DEF Schema!vars, SchemaInv
<1> QED
  BY <1>1, <1>2, <1>3, <1>4, <1>5, <1>6, <1>7, <1>8, <1>9 DEF Schema!Next

\* Schema loading keeps its invariant in every behaviour.
LEMMA SchemaKeeps == Clients => []SchemaInv
<1>1. ClientsInit => Schema!Init
  BY DEF ClientsInit
<1> QED
  BY <1>1, SchemaMoves, SchemaStarts, SchemaStep, PTL DEF Clients

\* Only Install changes the schema, and only for the explorer on screen.
LEMMA InstallStep ==
  SchemaInv /\ [Schema!Next]_(Schema!vars) =>
      [connection'.sdl # connection.sdl => explorer # 0 /\ ~load[explorer].cancelled]_(Schema!vars)
<1> SUFFICES ASSUME SchemaInv, Schema!Next, connection'.sdl # connection.sdl
             PROVE explorer # 0 /\ ~load[explorer].cancelled
  BY DEF Schema!vars
<1> USE DEF SchemaInv, Connections
<1>1. PICK i \in Schema!Explorers : Schema!Step(i)
  BY DEF Schema!Next, Schema!Load, Schema!Cancel, Schema!EditEndpoint, Schema!Edited,
         Schema!ChooseIntrospection, Schema!Patched, Schema!Leave, Schema!Open,
         Schema!SwitchEnvironment, Schema!Down
<1>2. Schema!Install(i)
  BY <1>1 DEF Schema!Step, Schema!Identify, Schema!Answer, Schema!ReadContents,
              Schema!Analyse, Schema!Compare, Schema!End, Schema!Fail, Schema!GoTo
<1>3. i # 0
  BY DEF Schema!Explorers
<1> QED
  BY <1>2, <1>3 DEF Schema!Install, Schema!End

\* What is shown as loaded was loaded from where the connection points, and
\* nothing that was cancelled or left is installed.
THEOREM SchemaIsCurrent == Clients => LoadedIsCurrent
<1>1. SchemaInv => (part = "schema" => Schema!LoadedHere)
  BY Identified, Marks
  DEF SchemaInv, Connections, Known, Schema!LoadedHere, Schema!Status
<1> QED
  BY <1>1, SchemaMoves, SchemaKeeps, InstallStep, PTL
  DEF Clients, LoadedIsCurrent, Schema!InstalledByTheLoad
-----------------------------------------------------------------------------
(* The chain of redirects.  What a request carries is decided hop by hop     *)
(* from two marks that are never taken back; the theorem is about all of the *)
(* chain, the way it came included.                                          *)

\* A step of the chain is taken by the chain, and the others leave it alone.
LEMMA ChainMoves == [ClientsNext]_allVars => [Chain!Next]_(Chain!vars)
  BY DEF ClientsNext, OfSession, OfExecution, OfChain, OfSecret, OfVariables, OfExit,
         OfSchema, OfGrant, OfTransfer, Only, networkVars, chainVars, allVars, Chain!vars

Delicate == {"credential", "trace", "query"}

\* Requests as they are sent.
Wired ==
    [url : Origins, parts : SUBSET Chain!Parts, method : Chain!Methods \cup {"GET"},
     cookies : SUBSET (Origins \X Chain!SameSite)]

ChainTypes ==
    /\ at \in {"sending", "waiting", "redirecting", "reading", "kept", "failed", "refused"}
    /\ hop \in 0..MaxRedirects /\ live \subseteq 0..hop /\ unreleased \subseteq 0..hop
    /\ request \in [url : Origins, method : Chain!Methods \cup {"GET"},
                    parts : SUBSET Chain!Parts]
    /\ crossed \in [origin : BOOLEAN, site : BOOLEAN] /\ trace \in BOOLEAN
    /\ jar \subseteq Origins \X Chain!SameSite
    /\ redirect \in [to : Origins \cup {malformed}, get : BOOLEAN]
    /\ sent \in Seq(Wired)

\* Where the chain is: the request in hand is the last one sent, or the next.
ChainPlace ==
    /\ at = "sending" => Len(sent) = hop
    /\ at \in {"waiting", "redirecting", "reading", "kept", "refused"} =>
           Len(sent) = hop + 1 /\ request.url = sent[hop + 1].url
    /\ at = "failed" => Len(sent) \in hop..hop + 1
    /\ at = "sending" /\ hop > 0 /\ request.url \notin Https => sent[hop].url \notin Https

\* What the marks say of the way: while one is not set, everything was sent to
\* the first origin, or its site; once it is, nothing delicate is in hand.
ChainMarks ==
    /\ ~crossed.origin => \A k \in DOMAIN sent : sent[k].url = sent[1].url
    /\ ~crossed.origin /\ sent # <<>> => request.url = sent[1].url
    /\ crossed.origin => request.parts \cap Delicate = {}
    /\ ~crossed.site => \A k \in DOMAIN sent : Site(sent[k].url) = Site(sent[1].url)
    /\ ~crossed.site /\ sent # <<>> => Site(request.url) = Site(sent[1].url)

\* What was sent stayed at home, or was not delicate.
ChainSent ==
    \A i \in DOMAIN sent :
        /\ sent[i].parts \cap Delicate # {} => \A k \in 1..i : sent[k].url = sent[1].url
        /\ (\E c \in sent[i].cookies : c[2] = "strict") =>
               \A k \in 1..i : Site(sent[k].url) = Site(sent[1].url)
        /\ i > 1 /\ sent[i].url \notin Https => sent[i - 1].url \notin Https

\* Content is held of the response in hand at most.
ChainLive ==
    /\ live \subseteq {hop}
    /\ at \in {"sending", "waiting", "failed"} => live = {}

ChainInv == ChainTypes /\ ChainPlace /\ ChainMarks /\ ChainSent /\ ChainLive

\* The first state of a redirect chain satisfies the invariant.
LEMMA ChainStarts == Chain!Init => ChainInv
<1> SUFFICES ASSUME Chain!Init PROVE ChainInv
  OBVIOUS
<1> USE DEF Chain!Init
<1>1. ChainTypes
  <2>1. PICK o \in Starts, m \in Chain!Methods :
            request = [url |-> o, method |-> m,
                       parts |-> {"credential", "query"}
                                 \cup IF m = "POST" THEN {"body"} ELSE {}]
    OBVIOUS
  <2>2. {"credential", "query"} \cup (IF m = "POST" THEN {"body"} ELSE {}) \subseteq Chain!Parts
    BY DEF Chain!Parts
  <2>3. o \in Origins /\ 0 \in 0..MaxRedirects
    BY ClientsAssumption
  <2>4. sent \in Seq(Wired) /\ redirect \in [to : Origins \cup {malformed}, get : BOOLEAN]
    BY DEF Chain!NoAnswer
  <2> QED
    BY <2>1, <2>2, <2>3, <2>4 DEF ChainTypes
<1>2. ChainPlace /\ ChainMarks /\ ChainSent /\ ChainLive
  BY DEF ChainPlace, ChainMarks, ChainSent, ChainLive
<1> QED
  BY <1>1, <1>2 DEF ChainInv

\* Steps that put nothing on the wire and keep what is in hand.
LEMMA ChainWaits ==
  ASSUME ChainInv, UNCHANGED <<hop, crossed, sent>>, ChainTypes', ChainLive',
         request'.url = request.url, request' = request \/ ~crossed.origin,
         \/ at' = "failed"
         \/ /\ at \in {"waiting", "redirecting", "reading", "kept", "refused"}
            /\ at' \in {"waiting", "redirecting", "reading", "kept", "refused"}
  PROVE  ChainInv'
<1>1. ChainPlace'
  BY DEF ChainInv, ChainPlace, ChainTypes
<1>2. ChainMarks' /\ ChainSent'
  BY DEF ChainInv, ChainMarks, ChainSent
<1> QED
  BY <1>1, <1>2 DEF ChainInv

\* Send.
LEMMA ChainSends == ChainInv /\ Chain!Send => ChainInv'
<1> SUFFICES ASSUME ChainInv, Chain!Send PROVE ChainInv'
  OBVIOUS
<1> DEFINE cookies == Chain!CookiesFor(request.url, IF crossed.site THEN "none" ELSE "strict")
           q == [url |-> request.url, parts |-> request.parts, method |-> request.method,
                 cookies |-> cookies]
<1>1. cookies \subseteq Origins \X Chain!SameSite
  BY DEF Chain!CookiesFor, ChainInv, ChainTypes
<1>2. q \in Wired
  BY <1>1 DEF Wired, ChainInv, ChainTypes
<1>3. sent \in Seq(Wired) /\ Len(sent) = hop /\ hop \in Nat /\ sent' = Append(sent, q)
  BY DEF Chain!Send, ChainInv, ChainTypes, ChainPlace
<1>4. /\ sent' \in Seq(Wired) /\ Len(sent') = hop + 1
      /\ \A k \in 1..hop : sent'[k] = sent[k]
      /\ sent'[hop + 1] = q
  BY <1>2, <1>3
<1>5. crossed.site => \A c \in cookies : c[2] = "none"
  BY DEF Chain!CookiesFor
<1> HIDE DEF cookies
<1>6. ChainTypes'
  BY <1>4 DEF Chain!Send, ChainInv, ChainTypes
<1>7. ChainPlace'
  BY <1>3, <1>4 DEF Chain!Send, ChainPlace
<1>8. sent # <<>> <=> hop > 0
  BY <1>3
<1>9. \A k \in 1..(hop + 1) : k \in 1..hop \/ k = hop + 1
  BY <1>3
<1>10. ChainMarks'
  BY <1>3, <1>4, <1>8, <1>9 DEF Chain!Send, ChainInv, ChainMarks
<1>11. ASSUME NEW i \in DOMAIN sent'
       PROVE /\ sent'[i].parts \cap Delicate # {} => \A k \in 1..i : sent'[k].url = sent'[1].url
             /\ (\E c \in sent'[i].cookies : c[2] = "strict") =>
                    \A k \in 1..i : Site(sent'[k].url) = Site(sent'[1].url)
             /\ i > 1 /\ sent'[i].url \notin Https => sent'[i - 1].url \notin Https
  <2>1. CASE i \in 1..hop
    <3>1. \A k \in 1..i : k \in 1..hop
      BY <2>1, <1>3
    <3>2. i \in DOMAIN sent /\ 1 \in 1..hop /\ (i > 1 => i - 1 \in 1..hop)
      BY <2>1, <1>3
    <3> QED
      BY <1>4, <2>1, <3>1, <3>2 DEF ChainInv, ChainSent
  <2>2. CASE i = hop + 1
    <3>1. sent'[i].parts \cap Delicate # {} => ~crossed.origin
      BY <1>4, <2>2 DEF ChainInv, ChainMarks
    <3>2. (\E c \in sent'[i].cookies : c[2] = "strict") => ~crossed.site
      BY <1>4, <1>5, <2>2
    <3>3. crossed' = crossed /\ at = "sending" /\ crossed \in [origin : BOOLEAN, site : BOOLEAN]
      BY DEF Chain!Send, ChainInv, ChainTypes
    <3>4. i > 1 => i - 1 = hop /\ hop > 0 /\ hop \in 1..hop
      BY <2>2, <1>3
    <3>5. i > 1 /\ request.url \notin Https => sent[hop].url \notin Https
      BY <3>3, <3>4 DEF ChainInv, ChainPlace
    <3>6. DOMAIN sent' = 1..i
      BY <1>3, <1>4, <2>2
    <3>7. /\ sent'[i].parts \cap Delicate # {} => \A k \in 1..i : sent'[k].url = sent'[1].url
          /\ (\E c \in sent'[i].cookies : c[2] = "strict") =>
                 \A k \in 1..i : Site(sent'[k].url) = Site(sent'[1].url)
      BY <1>10, <3>1, <3>2, <3>3, <3>6 DEF ChainMarks
    <3> QED
      BY <1>4, <2>2, <3>4, <3>5, <3>7
  <2> QED
    BY <1>3, <1>4, <1>9, <2>1, <2>2
<1>12. ChainSent'
  BY <1>11 DEF ChainSent
<1>13. ChainLive'
  BY DEF Chain!Send, ChainInv, ChainLive
<1> QED
  BY <1>6, <1>7, <1>10, <1>12, <1>13 DEF ChainInv

\* The transport, the signal and the reading of content.
LEMMA ChainEnds ==
  ASSUME ChainInv,
         Chain!NotSent \/ Chain!TransportFails \/ Chain!AnsweredTooLate \/ Chain!Refuse
         \/ Chain!Keep \/ Chain!ReadFails
  PROVE  ChainInv'
<1> USE DEF Chain!NotSent, Chain!TransportFails, Chain!AnsweredTooLate, Chain!Refuse,
            Chain!Keep, Chain!ReadFails, Chain!Fail, Chain!Released
<1>1. UNCHANGED <<hop, crossed, sent, request>>
  OBVIOUS
<1>2. ChainTypes'
  <2>1. hop \in 0..hop /\ live \subseteq 0..hop /\ unreleased \subseteq 0..hop
    BY DEF ChainInv, ChainTypes
  <2>2. live' \subseteq live \cup {hop}
    OBVIOUS
  <2>3. unreleased' \subseteq unreleased \cup {hop}
    OBVIOUS
  <2>4. at' \in {"refused", "failed", "kept"}
    OBVIOUS
  <2>5. UNCHANGED <<trace, jar, redirect>>
    OBVIOUS
  <2>6. live' \subseteq 0..hop /\ unreleased' \subseteq 0..hop
    BY <2>1, <2>2, <2>3
  <2> HIDE DEF Chain!NotSent, Chain!TransportFails, Chain!AnsweredTooLate, Chain!Refuse,
               Chain!Keep, Chain!ReadFails
  <2> QED
    BY <1>1, <2>4, <2>5, <2>6 DEF ChainInv, ChainTypes
<1>3. ChainLive'
  BY DEF ChainInv, ChainLive
<1>4. \/ at' = "failed"
      \/ /\ at \in {"waiting", "redirecting", "reading", "kept", "refused"}
         /\ at' \in {"waiting", "redirecting", "reading", "kept", "refused"}
  OBVIOUS
<1> QED
  BY <1>1, <1>2, <1>3, <1>4, ChainWaits

\* An answer: trace headers join only what has never left the first origin.
LEMMA ChainAnswers ==
  ASSUME ChainInv, Chain!AnswerRedirect \/ Chain!AnswerFinal PROVE ChainInv'
<1>1. PICK follow \in BOOLEAN, stored \in BOOLEAN, traced \in BOOLEAN :
          Chain!Answered(follow, stored, traced)
  BY DEF Chain!AnswerRedirect, Chain!AnswerFinal
<1>2. redirect' \in [to : Origins \cup {malformed}, get : BOOLEAN]
  <2>1. CASE Chain!AnswerFinal
    BY <2>1 DEF Chain!AnswerFinal, ChainInv, ChainTypes
  <2>2. CASE Chain!AnswerRedirect
    <3>1. PICK to \in Origins \cup {malformed}, status \in {301, 303, 307} :
              redirect' = [to |-> to, get |-> Chain!AsksForGet(status, request.method)]
      BY <2>2 DEF Chain!AnswerRedirect
    <3>2. Chain!AsksForGet(status, request.method) \in BOOLEAN
      BY DEF Chain!AsksForGet
    <3> QED
      BY <3>1, <3>2
  <2> QED
    BY <2>1, <2>2
<1> USE <1>1 DEF Chain!Answered
<1>3. request' \in [url : Origins, method : Chain!Methods \cup {"GET"}, parts : SUBSET Chain!Parts]
      /\ request'.url = request.url
  BY DEF ChainInv, ChainTypes, Chain!Parts
<1>4. ChainTypes'
  <2>1. jar' \subseteq Origins \X Chain!SameSite
    BY DEF ChainInv, ChainTypes
  <2>2. trace' \in BOOLEAN
    BY DEF ChainInv, ChainTypes
  <2> QED
    BY <1>2, <1>3, <2>1, <2>2 DEF ChainInv, ChainTypes
<1>5. ChainLive'
  BY DEF ChainInv, ChainLive, ChainTypes
<1>6. request' = request \/ ~crossed.origin
  OBVIOUS
<1> QED
  BY <1>3, <1>4, <1>5, <1>6, ChainWaits

\* A redirect that is followed: the two marks remember that the chain left.
LEMMA ChainFollows == ASSUME ChainInv, Chain!Follow PROVE ChainInv'
<1> USE DEF Chain!Follow
<1> DEFINE left == crossed.origin \/ redirect.to # request.url
<1>0. at = "redirecting" /\ UNCHANGED <<jar, aborted, sent>> /\ redirect' = Chain!NoAnswer
  OBVIOUS
<1>1. redirect' \in [to : Origins \cup {malformed}, get : BOOLEAN]
  BY <1>0 DEF Chain!NoAnswer
<1>2. CASE at' = "failed"
  <2>1. UNCHANGED <<hop, request, crossed, trace>>
    BY <1>2
  <2>2. live' = live \ {hop} /\ unreleased' \in {unreleased, unreleased \cup {hop}}
        /\ (hop \notin live => unreleased' = unreleased)
    BY DEF Chain!Released
  <2>3. ChainTypes'
    BY <1>0, <1>1, <1>2, <2>1, <2>2 DEF ChainInv, ChainTypes
  <2>4. ChainLive'
    BY <2>1, <2>2 DEF ChainInv, ChainLive
  <2> QED
    BY <1>0, <1>2, <2>1, <2>3, <2>4, ChainWaits
<1>3. CASE at' # "failed"
  <2>1. /\ ~Chain!TooMany /\ redirect.to # malformed /\ ~Chain!Downgrade(request.url, redirect.to)
        /\ at' = "sending" /\ live' = live \ {hop} /\ unreleased' = unreleased
        /\ hop' = hop + 1
        /\ crossed' = [origin |-> left,
                       site |-> crossed.site \/ Site(redirect.to) # Site(sent[1].url)]
        /\ trace' = (trace /\ redirect.to = request.url)
    BY <1>3 DEF Chain!Released, Chain!Initial
  <2>2. PICK query \in SUBSET {"query"} :
            request' = [url |-> redirect.to,
                        method |-> IF redirect.get THEN "GET" ELSE request.method,
                        parts |-> Chain!BodyKept(Chain!QueryKept(
                            Chain!Kept(request.parts \ {"query"}, request.url, redirect.to)
                            \cup (query \cap request.parts), left), redirect.get)]
    BY <1>3 DEF Chain!Released
  <2>3. redirect.to \in Origins /\ request.parts \subseteq Chain!Parts
    BY <2>1 DEF ChainInv, ChainTypes
  <2>4. /\ request'.url = redirect.to
        /\ request'.parts \subseteq request.parts
        /\ request'.method \in Chain!Methods \cup {"GET"}
    BY <2>2 DEF Chain!BodyKept, Chain!QueryKept, Chain!Kept, ChainInv, ChainTypes
  <2>5. left => request'.parts \cap Delicate = {}
    <3>1. CASE crossed.origin
      BY <2>4, <3>1 DEF ChainInv, ChainMarks
    <3>2. CASE redirect.to # request.url
      BY <2>2, <3>2 DEF Chain!BodyKept, Chain!QueryKept, Chain!Kept, Delicate
    <3> QED
      BY <3>1, <3>2
  <2>6. /\ sent \in Seq(Wired) /\ Len(sent) = hop + 1 /\ request.url = sent[hop + 1].url
        /\ hop \in Nat /\ hop < MaxRedirects /\ DOMAIN sent = 1..(hop + 1)
    <3>1. MaxRedirects \in Nat
      BY ClientsAssumption
    <3> QED
      BY <1>0, <2>1, <3>1 DEF ChainInv, ChainTypes, ChainPlace, Chain!TooMany
  <2>7. sent # <<>> /\ hop + 1 \in DOMAIN sent
    BY <2>6
  <2>8. ChainTypes'
    <3>1. request' \in [url : Origins, method : Chain!Methods \cup {"GET"},
                        parts : SUBSET Chain!Parts]
      BY <2>2, <2>3, <2>4
    <3>2. hop + 1 \in 0..MaxRedirects /\ 0..hop \subseteq 0..(hop + 1)
      <4>1. MaxRedirects \in Nat
        BY ClientsAssumption
      <4> QED
        BY <2>6, <4>1
    <3>3. trace' \in BOOLEAN /\ crossed' \in [origin : BOOLEAN, site : BOOLEAN]
      BY <2>1 DEF ChainInv, ChainTypes
    <3> QED
      BY <1>0, <1>1, <2>1, <3>1, <3>2, <3>3 DEF ChainInv, ChainTypes
  <2>9. ChainPlace'
    BY <1>0, <2>1, <2>4, <2>6 DEF ChainPlace, Chain!Downgrade
  <2>10. ChainMarks'
    <3>1. ~crossed'.origin => ~crossed.origin /\ redirect.to = request.url
      BY <2>1
    <3>2. ~crossed'.site => ~crossed.site /\ Site(redirect.to) = Site(sent[1].url)
      BY <2>1
    <3> HIDE DEF left
    <3>3. crossed'.origin => request'.parts \cap Delicate = {}
      BY <2>1, <2>5
    <3> QED
      BY <1>0, <2>4, <2>7, <3>1, <3>2, <3>3 DEF ChainInv, ChainMarks
  <2>11. ChainSent' /\ ChainLive'
    BY <1>0, <2>1 DEF ChainInv, ChainSent, ChainLive
  <2> QED
    BY <2>8, <2>9, <2>10, <2>11 DEF ChainInv
<1> QED
  BY <1>2, <1>3

\* Every step of a redirect chain keeps the invariant.
LEMMA ChainStep == ChainInv /\ [Chain!Next]_(Chain!vars) => ChainInv'
<1> SUFFICES ASSUME ChainInv, [Chain!Next]_(Chain!vars) PROVE ChainInv'
  OBVIOUS
<1>1. ASSUME UNCHANGED <<at, hop, request, crossed, trace, jar, redirect, live, unreleased, sent>>
      PROVE  ChainInv'
  <2>1. ChainTypes'
    BY <1>1 DEF ChainInv, ChainTypes
  <2>2. ChainPlace'
    BY <1>1 DEF ChainInv, ChainPlace
  <2>3. ChainMarks'
    BY <1>1 DEF ChainInv, ChainMarks
  <2>4. ChainSent'
    BY <1>1 DEF ChainInv, ChainSent
  <2>5. ChainLive'
    BY <1>1 DEF ChainInv, ChainLive
  <2> QED
    BY <2>1, <2>2, <2>3, <2>4, <2>5 DEF ChainInv
<1>2. CASE Chain!Abort \/ UNCHANGED Chain!vars
  BY <1>1, <1>2 DEF Chain!Abort, Chain!vars
<1> QED
  BY <1>2, ChainSends, ChainEnds, ChainAnswers, ChainFollows
  DEF Chain!Next, Chain!Progress

\* A redirect chain keeps its invariant in every behaviour.
LEMMA ChainKeeps == Clients => []ChainInv
<1>1. ClientsInit => Chain!Init
  BY DEF ClientsInit
<1> QED
  BY <1>1, ChainMoves, ChainStarts, ChainStep, PTL DEF Clients

\* Credentials, trace headers and secret query parameters are sent while the
\* chain has never left its first origin, cookies of this site while it has
\* never left the site, and content is held of the answer alone, however many
\* redirects there are, in whatever order origins are left and come back to.
THEOREM ChainLeaksNothing == Clients => []NothingLeaks
<1>1. ASSUME ChainInv PROVE Chain!CredentialsStayHome
  BY <1>1 DEF ChainInv, ChainSent, Chain!CredentialsStayHome, Chain!Stayed, Delicate
<1>2. ASSUME ChainInv PROVE Chain!OnlyTheAnswerIsKept
  BY <1>2 DEF ChainInv, ChainLive, Chain!OnlyTheAnswerIsKept, Chain!Ended
<1>3. ChainInv => NothingLeaks
  BY <1>1, <1>2 DEF NothingLeaks, Chain!NothingLeaks
<1> QED
  BY <1>3, ChainKeeps, PTL

\* The chain's state stays of its types.
LEMMA ChainTyped == ChainInv => Chain!TypeOK
  BY DEF ChainInv, ChainTypes, ChainPlace, Chain!TypeOK
-----------------------------------------------------------------------------
(* Executions.  A workbench comes and goes under an execution; that at most  *)
(* one of the document is under way, the one its session would cancel, is    *)
(* what keeps the results of the others away.                                *)

\* A step of an execution is taken by the executions, and the others leave
\* them alone.
LEMMA ExecMoves == [ClientsNext]_allVars => [Execution!Next]_(Execution!vars)
  BY DEF ClientsNext, OfSession, OfExecution, OfChain, OfSecret, OfVariables, OfExit,
         OfSchema, OfGrant, OfTransfer, Only, networkVars, executionVars, allVars,
         Execution!vars

ExecConfigs ==
    [identity : 0..MaxConfigEdits, preferences : 0..MaxConfigEdits, token : BOOLEAN,
     environment : 0..MaxWorkbenches]
ExecRuns ==
    [at : {"resolving", "token", "preparing", "transport", "answered", "failed", "over"},
     in : Execution!Mounts, mine : Nat, token : BOOLEAN, dispatched : BOOLEAN,
     recorded : BOOLEAN, aborted : BOOLEAN, job : 0..MaxJobs]
ExecRefs ==
    [execution : Nat, sending : BOOLEAN, cancels : Nat, job : 0..MaxJobs,
     seen : ExecConfigs, environment : 0..MaxWorkbenches]
ExecJobs == [in : Execution!Mounts, from : ExecConfigs, aborted : BOOLEAN, over : BOOLEAN]
Outcomes == {"response", "error", "cancelled"}

ExecTypes ==
    /\ runs \in Seq(ExecRuns) /\ Len(runs) <= MaxSends
    /\ jobs \in Seq(ExecJobs) /\ Len(jobs) <= MaxJobs
    /\ mounts \in Execution!Mounts /\ shown \in {0, mounts}
    /\ refs \in [Execution!Mounts -> ExecRefs]
    /\ ui \in [sending : BOOLEAN, response : 0..MaxSends, cancel : 0..MaxWorkbenches]
    /\ history \in [Execution!Runs -> Seq(Outcomes)]
    /\ config \in ExecConfigs /\ config.environment < mounts
    /\ configEdits \in 0..MaxConfigEdits
    /\ \A r \in DOMAIN runs : runs[r].job <= Len(jobs)

\* An execution that still counts is the last one, and the one the session and
\* its workbench would cancel; one that does not was aborted, and is in the
\* history if it went to the network.
ExecCounts(r) == runs[r].at # "over" /\ Execution!IsCurrent(r)
ExecRunning ==
    /\ \A r \in DOMAIN runs :
        /\ runs[r].mine <= refs[runs[r].in].execution
        /\ ExecCounts(r) =>
               /\ r = Len(runs) /\ ui.sending /\ ui.cancel = runs[r].in
               /\ refs[runs[r].in].cancels = r
               /\ ~runs[r].aborted /\ ~runs[r].recorded
        /\ runs[r].at # "over" /\ ~Execution!IsCurrent(r) =>
               runs[r].aborted /\ (runs[r].dispatched => runs[r].recorded)
        /\ runs[r].at \in {"transport", "answered"} => runs[r].dispatched
        /\ runs[r].at = "over" /\ runs[r].dispatched => runs[r].recorded
    /\ \A m \in Execution!Mounts : refs[m].sending => ui.sending /\ ui.cancel = m
    /\ ui.sending =>
           /\ ui.cancel \in Execution!Mounts /\ refs[ui.cancel].sending
           /\ refs[ui.cancel].cancels \in DOMAIN runs
           /\ runs[refs[ui.cancel].cancels].in = ui.cancel
           /\ ExecCounts(refs[ui.cancel].cancels)
    /\ ~ui.sending => ui.cancel = 0

\* What is recorded of an execution, and of the one that is shown.
ExecHistory ==
    /\ \A r \in Execution!Runs :
        /\ r \in DOMAIN runs =>
               /\ Len(history[r]) = IF runs[r].recorded THEN 1 ELSE 0
               /\ runs[r].recorded => runs[r].dispatched
               /\ ui.response = r => history[r] = <<"response">>
        /\ r \notin DOMAIN runs => history[r] = <<>>
    /\ ui.response <= Len(runs)

\* The job a workbench waits for is its own, not over, and was begun with the
\* environment of that workbench; the one on screen has the environment there is.
ExecTokens ==
    /\ \A m \in Execution!Mounts :
        /\ m > mounts => refs[m].job = 0
        /\ refs[m].job # 0 =>
               /\ refs[m].job \in DOMAIN jobs
               /\ jobs[refs[m].job].in = m /\ ~jobs[refs[m].job].over
               /\ jobs[refs[m].job].from.environment = refs[m].environment
        /\ m < mounts \/ (m = mounts /\ shown = 0) =>
               refs[m].seen.environment = refs[m].environment
    /\ shown # 0 => refs[shown].environment = config.environment
    /\ \A r \in DOMAIN runs : runs[r].in <= mounts

ExecInv == ExecTypes /\ ExecRunning /\ ExecHistory /\ ExecTokens

\* The bounds of the executions are numbers.
LEMMA ExecBounds ==
  /\ MaxSends \in Nat /\ MaxWorkbenches \in Nat /\ MaxConfigEdits \in Nat /\ MaxJobs \in Nat
  /\ MaxWorkbenches > 0
  BY ClientsAssumption

\* The first state of the executions satisfies the invariant.
LEMMA ExecStarts == Execution!Init => ExecInv
<1> SUFFICES ASSUME Execution!Init PROVE ExecInv
  OBVIOUS
<1> USE DEF Execution!Init
<1>1. Execution!NoConfig \in ExecConfigs /\ Execution!NoConfig.environment = 0
  BY ExecBounds DEF Execution!NoConfig, ExecConfigs
<1>2. Execution!Fresh \in ExecRefs
  BY <1>1, ExecBounds DEF Execution!Fresh, ExecRefs, Execution!Nobody
<1>3. 1 \in Execution!Mounts
  BY ExecBounds DEF Execution!Mounts
<1>4. ExecTypes
  <2>1. ui \in [sending : BOOLEAN, response : 0..MaxSends, cancel : 0..MaxWorkbenches]
    BY ExecBounds DEF Execution!Nobody
  <2>2. runs \in Seq(ExecRuns) /\ jobs \in Seq(ExecJobs) /\ Len(runs) = 0 /\ Len(jobs) = 0
    OBVIOUS
  <2>3. configEdits \in 0..MaxConfigEdits /\ Len(runs) <= MaxSends /\ Len(jobs) <= MaxJobs
    BY <2>2, ExecBounds
  <2>4. refs \in [Execution!Mounts -> ExecRefs] /\ history \in [Execution!Runs -> Seq(Outcomes)]
    BY <1>2
  <2> QED
    BY <1>1, <1>3, <2>1, <2>2, <2>3, <2>4 DEF ExecTypes
<1>5. \A m \in Execution!Mounts : refs[m] = Execution!Fresh
  OBVIOUS
<1>6. ExecRunning
  BY <1>5 DEF ExecRunning, Execution!Fresh, Execution!Nobody
<1>7. ExecHistory
  BY DEF ExecHistory, Execution!Nobody
<1>8. ExecTokens
  BY <1>1, <1>3, <1>5, ExecBounds
  DEF ExecTokens, Execution!Fresh, Execution!Nobody, Execution!Mounts
<1> QED
  BY <1>4, <1>6, <1>7, <1>8 DEF ExecInv

\* The types, of an execution and the workbench that began it.
LEMMA ExecAt ==
  ASSUME ExecTypes, NEW r \in DOMAIN runs
  PROVE  /\ runs[r] \in ExecRuns /\ runs[r].in \in Execution!Mounts
         /\ refs[runs[r].in] \in ExecRefs
         /\ r \in 1..Len(runs) /\ r \in Execution!Runs /\ history[r] \in Seq(Outcomes)
<1>1. runs \in Seq(ExecRuns) /\ Len(runs) <= MaxSends
  BY DEF ExecTypes
<1>2. DOMAIN runs = 1..Len(runs) /\ Len(runs) \in Nat
  BY <1>1
<1>3. runs[r] \in ExecRuns /\ r \in 1..Len(runs)
  BY <1>1, <1>2
<1>4. runs[r].in \in Execution!Mounts
  BY <1>3 DEF ExecRuns
<1>5. r \in Execution!Runs
  BY <1>1, <1>3, <1>2, ExecBounds DEF Execution!Runs
<1> QED
  BY <1>3, <1>4, <1>5 DEF ExecTypes

\* A step that begins, ends and cancels no execution leaves what counts as it is.
LEMMA ExecSame ==
  ASSUME ExecInv, UNCHANGED <<ui, history>>, Len(runs') = Len(runs), DOMAIN runs' = DOMAIN runs,
         \A r \in DOMAIN runs :
             /\ runs'[r].in = runs[r].in /\ runs'[r].mine = runs[r].mine
             /\ runs'[r].recorded = runs[r].recorded /\ runs'[r].aborted = runs[r].aborted
             /\ runs'[r].at = "over" <=> runs[r].at = "over"
             /\ runs'[r].at \in {"transport", "answered"} => runs'[r].dispatched
             /\ \/ runs'[r].dispatched = runs[r].dispatched
                \/ runs'[r].dispatched /\ runs[r].at # "over" /\ ~runs[r].aborted,
         \A m \in Execution!Mounts :
             /\ refs'[m].execution = refs[m].execution /\ refs'[m].sending = refs[m].sending
             /\ refs'[m].cancels = refs[m].cancels
  PROVE  ExecRunning' /\ ExecHistory'
<1>1. \A r \in DOMAIN runs : runs[r].in \in Execution!Mounts
  BY ExecAt DEF ExecInv
<1>2. \A r \in DOMAIN runs : ExecCounts(r)' <=> ExecCounts(r)
  BY <1>1 DEF ExecCounts, Execution!IsCurrent
<1>3. \A r \in DOMAIN runs : Execution!IsCurrent(r)' <=> Execution!IsCurrent(r)
  BY <1>1 DEF Execution!IsCurrent
<1>4. \A r \in DOMAIN runs :
        /\ runs'[r].mine <= refs'[runs'[r].in].execution
        /\ ExecCounts(r)' =>
               /\ r = Len(runs') /\ ui'.sending /\ ui'.cancel = runs'[r].in
               /\ refs'[runs'[r].in].cancels = r
               /\ ~runs'[r].aborted /\ ~runs'[r].recorded
        /\ runs'[r].at = "over" /\ runs'[r].dispatched => runs'[r].recorded
  BY <1>1, <1>2 DEF ExecInv, ExecRunning
<1>5. \A r \in DOMAIN runs :
        runs'[r].at # "over" /\ ~Execution!IsCurrent(r)' =>
               runs'[r].aborted /\ (runs'[r].dispatched => runs'[r].recorded)
  BY <1>3 DEF ExecInv, ExecRunning
<1>6. ExecRunning'
  BY <1>1, <1>2, <1>4, <1>5 DEF ExecInv, ExecRunning
<1>7. ExecHistory'
  BY DEF ExecInv, ExecHistory
<1> QED
  BY <1>6, <1>7

\* The fields of what is said of the document.
LEMMA ExecSessionSet ==
  ASSUME NEW x \in [sending : BOOLEAN, response : 0..MaxSends, cancel : 0..MaxWorkbenches],
         NEW s \in BOOLEAN, NEW c \in 0..MaxWorkbenches,
         NEW y, y = [x EXCEPT !.sending = s, !.cancel = c]
  PROVE  /\ y \in [sending : BOOLEAN, response : 0..MaxSends, cancel : 0..MaxWorkbenches]
         /\ (y.sending <=> s) /\ y.cancel = c /\ y.response = x.response
<1>1. y = [sending |-> s, response |-> x.response, cancel |-> c]
  OBVIOUS
<1> QED
  BY <1>1

\* Sending: no execution counts, and from here on the new one does.
LEMMA ExecSends == ASSUME ExecInv, Execution!Send PROVE ExecInv'
<1>r. PICK r : r = Len(runs) + 1
  OBVIOUS
<1>m. PICK m : m = shown
  OBVIOUS
<1>n. PICK new : new =
        [at |-> "resolving", in |-> m, mine |-> refs[m].execution + 1,
         token |-> config.token, dispatched |-> FALSE, recorded |-> FALSE,
         aborted |-> FALSE, job |-> 0]
  OBVIOUS
<1>f. PICK ref : ref = [refs[m] EXCEPT !.execution = refs[m].execution + 1, !.sending = TRUE,
                                     !.cancels = r]
  OBVIOUS
<1>0. /\ m # 0 /\ ~refs[m].sending /\ ~ui.sending /\ Len(runs) < MaxSends
      /\ runs' = Append(runs, new)
      /\ refs' = [refs EXCEPT ![m].execution = refs[m].execution + 1, ![m].sending = TRUE,
                              ![m].cancels = r]
      /\ ui' = [ui EXCEPT !.sending = TRUE, !.cancel = m]
      /\ UNCHANGED <<mounts, shown, history, jobs, config, configEdits>>
  BY <1>r, <1>m, <1>n DEF Execution!Send, Execution!CanSend, Execution!Nobody
<1>1. m \in Execution!Mounts /\ m = mounts /\ m = shown /\ refs[m] \in ExecRefs
      /\ config \in ExecConfigs
  BY <1>0, <1>m DEF ExecInv, ExecTypes
<1>2. refs[m].execution \in Nat /\ m \in 0..MaxWorkbenches
  BY <1>1 DEF ExecRefs, Execution!Mounts
<1>3. new \in ExecRuns
  BY <1>1, <1>2, <1>n, ExecBounds DEF ExecRuns, ExecConfigs
<1>4. runs \in Seq(ExecRuns) /\ Len(runs) \in Nat /\ DOMAIN runs = 1..Len(runs)
  BY DEF ExecInv, ExecTypes
<1>5. /\ runs' \in Seq(ExecRuns) /\ Len(runs') = r /\ DOMAIN runs' = DOMAIN runs \cup {r}
      /\ runs'[r] = new /\ r \in Nat /\ \A q \in DOMAIN runs : runs'[q] = runs[q] /\ q # r
  BY <1>0, <1>3, <1>4, <1>r
<1>6. /\ ref \in ExecRefs /\ ref.execution = refs[m].execution + 1 /\ ref.sending
      /\ ref.cancels = r /\ ref.job = refs[m].job /\ ref.seen = refs[m].seen
      /\ ref.environment = refs[m].environment
  <2>1. refs[m].execution + 1 \in Nat
    BY <1>2
  <2>2. r \in Nat /\ refs[m] \in ExecRefs
    BY <1>1, <1>5
  <2>3. ref = [execution |-> refs[m].execution + 1, sending |-> TRUE, cancels |-> r,
               job |-> refs[m].job, seen |-> refs[m].seen, environment |-> refs[m].environment]
    BY <1>f, <2>2 DEF ExecRefs
  <2>4. /\ refs[m].job \in 0..MaxJobs /\ refs[m].seen \in ExecConfigs
        /\ refs[m].environment \in 0..MaxWorkbenches
    BY <2>2 DEF ExecRefs
  <2> QED
    BY <2>1, <2>2, <2>3, <2>4 DEF ExecRefs
<1>7. refs' = [refs EXCEPT ![m] = ref]
  BY <1>0, <1>1, <1>f DEF ExecInv, ExecTypes
<1>8. /\ refs' \in [Execution!Mounts -> ExecRefs] /\ refs'[m] = ref
      /\ \A n \in Execution!Mounts : n # m => refs'[n] = refs[n]
  <2> QED
    BY <1>1, <1>6, <1>7 DEF ExecInv, ExecTypes
<1>9. /\ ui' \in [sending : BOOLEAN, response : 0..MaxSends, cancel : 0..MaxWorkbenches]
      /\ ui'.sending /\ ui'.cancel = m /\ ui'.response = ui.response
  <2> QED
    BY <1>0, <1>2, ExecSessionSet DEF ExecInv, ExecTypes
<1>10. /\ new.at = "resolving" /\ new.in = m /\ new.mine = ref.execution /\ ~new.dispatched
       /\ ~new.recorded /\ ~new.aborted /\ new.job = 0
  BY <1>6, <1>n
<1>11. \A q \in DOMAIN runs : runs[q].in \in Execution!Mounts /\ runs[q].mine \in Nat
                              /\ refs[runs[q].in].execution \in Nat
  BY ExecAt DEF ExecInv, ExecRuns, ExecRefs
<1>12. ExecTypes'
  <2>1. \A q \in DOMAIN runs' : runs'[q].job <= Len(jobs')
    BY <1>0, <1>5, <1>10 DEF ExecInv, ExecTypes
  <2>2. Len(runs') <= MaxSends
    BY <1>0, <1>4, <1>5, <1>r, ExecBounds
  <2> QED
    BY <1>0, <1>5, <1>8, <1>9, <2>1, <2>2 DEF ExecInv, ExecTypes
<1>13. \A q \in DOMAIN runs :
         /\ ~ExecCounts(q)' /\ runs[q].mine <= refs'[runs[q].in].execution
         /\ runs[q].at # "over" => ~Execution!IsCurrent(q)
  <2> TAKE q \in DOMAIN runs
  <2>1. ~ExecCounts(q) /\ runs[q].mine <= refs[runs[q].in].execution /\ runs'[q] = runs[q]
    BY <1>0, <1>5 DEF ExecInv, ExecRunning
  <2>2. CASE runs[q].in = m
    BY <1>2, <1>6, <1>8, <1>11, <2>1, <2>2 DEF ExecCounts, Execution!IsCurrent
  <2>3. CASE runs[q].in # m
    BY <1>8, <1>11, <2>1, <2>3 DEF ExecCounts, Execution!IsCurrent
  <2> QED
    BY <2>2, <2>3
<1>14. ExecCounts(r)' /\ runs'[r].in = m /\ r \in DOMAIN runs'
  BY <1>5, <1>8, <1>10 DEF ExecCounts, Execution!IsCurrent
<1>15. ExecRunning'
  <2>1. \A q \in DOMAIN runs' :
        /\ runs'[q].mine <= refs'[runs'[q].in].execution
        /\ ExecCounts(q)' =>
               /\ q = Len(runs') /\ ui'.sending /\ ui'.cancel = runs'[q].in
               /\ refs'[runs'[q].in].cancels = q
               /\ ~runs'[q].aborted /\ ~runs'[q].recorded
        /\ runs'[q].at # "over" /\ ~Execution!IsCurrent(q)' =>
               runs'[q].aborted /\ (runs'[q].dispatched => runs'[q].recorded)
        /\ runs'[q].at \in {"transport", "answered"} => runs'[q].dispatched
        /\ runs'[q].at = "over" /\ runs'[q].dispatched => runs'[q].recorded
    <3> TAKE q \in DOMAIN runs'
    <3>1. CASE q = r
      <4>1. runs'[q] = new /\ refs'[new.in] = ref /\ Execution!IsCurrent(q)'
        BY <1>5, <1>8, <1>10, <1>14, <3>1 DEF ExecCounts
      <4> QED
        BY <1>2, <1>5, <1>6, <1>9, <1>10, <3>1, <4>1
    <3>2. CASE q # r
      <4>1. q \in DOMAIN runs /\ runs'[q] = runs[q]
        BY <1>5, <3>2
      <4>2. runs[q].at # "over" => runs[q].aborted /\ (runs[q].dispatched => runs[q].recorded)
        BY <1>13, <4>1 DEF ExecInv, ExecRunning
      <4> QED
        BY <1>13, <4>1, <4>2 DEF ExecInv, ExecRunning
    <3> QED
      BY <3>1, <3>2
  <2>2. \A n \in Execution!Mounts : refs'[n].sending => n = m
    BY <1>0, <1>8 DEF ExecInv, ExecRunning
  <2>3. ui'.cancel \in Execution!Mounts /\ refs'[ui'.cancel].sending /\ refs'[ui'.cancel].cancels = r
    BY <1>1, <1>6, <1>8, <1>9
  <2> QED
    BY <1>9, <1>14, <2>1, <2>2, <2>3 DEF ExecRunning
<1>16. ExecHistory'
  <2>1. ui'.response <= Len(runs) /\ ui.response <= Len(runs) /\ ui'.response \in Nat
    BY <1>9 DEF ExecInv, ExecHistory, ExecTypes
  <2>2. \A q \in Execution!Runs :
          /\ q \in DOMAIN runs' =>
               /\ Len(history'[q]) = IF runs'[q].recorded THEN 1 ELSE 0
               /\ runs'[q].recorded => runs'[q].dispatched
               /\ ui'.response = q => history'[q] = <<"response">>
          /\ q \notin DOMAIN runs' => history'[q] = <<>>
    <3> TAKE q \in Execution!Runs
    <3>1. CASE q = r
      <4>1. r \notin DOMAIN runs
        BY <1>5
      <4>2. ui'.response # r
        BY <1>4, <1>r, <2>1
      <4> QED
        BY <1>0, <1>5, <1>10, <3>1, <4>1, <4>2 DEF ExecInv, ExecHistory
    <3>2. CASE q # r
      BY <1>0, <1>5, <1>9, <3>2 DEF ExecInv, ExecHistory
    <3> QED
      BY <3>1, <3>2
  <2>3. ui'.response <= Len(runs')
    BY <1>4, <1>5, <1>r, <2>1
  <2> QED
    BY <2>2, <2>3 DEF ExecHistory
<1>17. ExecTokens'
  <2>1. \A n \in Execution!Mounts : refs'[n].job = refs[n].job /\ refs'[n].seen = refs[n].seen
                                   /\ refs'[n].environment = refs[n].environment
    BY <1>6, <1>8
  <2>2. \A q \in DOMAIN runs' : runs'[q].in <= mounts'
    BY <1>0, <1>1, <1>5, <1>10 DEF ExecInv, ExecTokens, Execution!Mounts
  <2>3. shown' # 0 => refs'[shown'].environment = config'.environment
    BY <1>0, <1>1, <2>1 DEF ExecInv, ExecTokens
  <2>4. UNCHANGED <<mounts, shown, jobs>>
    BY <1>0
  <2> QED
    BY <2>1, <2>2, <2>3, <2>4 DEF ExecInv, ExecTokens
<1> QED
  BY <1>12, <1>15, <1>16, <1>17 DEF ExecInv

\* The end of an execution.  One that was superseded changes nothing but
\* itself; the one that counts leaves nothing under way.
LEMMA ExecFinishes ==
  ASSUME ExecInv, NEW r \in DOMAIN runs, runs[r].at # "over",
         NEW o \in Outcomes, NEW shows \in BOOLEAN,
         shows => runs[r].at = "answered" /\ o = "response",
         Execution!Finish(r, o, shows), UNCHANGED jobs
  PROVE  ExecInv'
<1>m. PICK m : m = runs[r].in
  OBVIOUS
<1>n. PICK new : new =
        [runs[r] EXCEPT !.at = "over", !.mine = 0, !.job = 0, !.token = FALSE,
            !.aborted = FALSE,
            !.recorded = runs[r].recorded \/ (Execution!IsCurrent(r) /\ runs[r].dispatched)]
  OBVIOUS
<1>0. /\ runs' = [runs EXCEPT ![r].at = "over", ![r].mine = 0, ![r].job = 0,
             ![r].token = FALSE, ![r].aborted = FALSE,
             ![r].recorded = @ \/ (Execution!IsCurrent(r) /\ runs[r].dispatched)]
      /\ UNCHANGED <<mounts, shown, config, configEdits, jobs>>
  BY DEF Execution!Finish, Execution!Over, Execution!Nobody
<1>1. /\ runs[r] \in ExecRuns /\ m \in Execution!Mounts /\ refs[m] \in ExecRefs
      /\ r \in 1..Len(runs) /\ r \in Execution!Runs /\ history[r] \in Seq(Outcomes)
  BY <1>m, ExecAt DEF ExecInv
<1>2. /\ new \in ExecRuns /\ new.at = "over" /\ new.mine = 0 /\ new.job = 0 /\ new.in = m
      /\ new.dispatched = runs[r].dispatched
      /\ new.recorded <=> runs[r].recorded \/ (Execution!IsCurrent(r) /\ runs[r].dispatched)
  <2>1. new = [at |-> "over", in |-> m, mine |-> 0, token |-> FALSE,
               dispatched |-> runs[r].dispatched, aborted |-> FALSE, job |-> 0,
               recorded |-> runs[r].recorded
                            \/ (Execution!IsCurrent(r) /\ runs[r].dispatched)]
    BY <1>1, <1>m, <1>n DEF ExecRuns
  <2>2. runs[r].dispatched \in BOOLEAN
    BY <1>1 DEF ExecRuns
  <2>3. (runs[r].recorded \/ (Execution!IsCurrent(r) /\ runs[r].dispatched)) \in BOOLEAN
    OBVIOUS
  <2> QED
    BY <1>1, <2>1, <2>2, <2>3, ExecBounds DEF ExecRuns
<1>3. runs \in Seq(ExecRuns) /\ Len(runs) \in Nat /\ DOMAIN runs = 1..Len(runs)
  BY DEF ExecInv, ExecTypes
<1>4. runs' = [runs EXCEPT ![r] = new]
  BY <1>0, <1>3, <1>n
<1>5. /\ runs' \in Seq(ExecRuns) /\ Len(runs') = Len(runs) /\ DOMAIN runs' = DOMAIN runs
      /\ runs'[r] = new /\ \A q \in DOMAIN runs : q # r => runs'[q] = runs[q]
  BY <1>2, <1>3, <1>4
<1>6. /\ refs' \in [Execution!Mounts -> ExecRefs]
      /\ \A n \in Execution!Mounts :
             /\ refs'[n].execution = refs[n].execution /\ refs'[n].job = refs[n].job
             /\ refs'[n].seen = refs[n].seen /\ refs'[n].environment = refs[n].environment
             /\ n # m => refs'[n] = refs[n]
      /\ Execution!IsCurrent(r) => ~refs'[m].sending
  <2>1. CASE ~Execution!IsCurrent(r)
    BY <2>1 DEF Execution!Finish, Execution!Superseded, ExecInv, ExecTypes
  <2>2. CASE Execution!IsCurrent(r)
    <3>f. PICK ref : ref = [refs[m] EXCEPT !.sending = FALSE, !.cancels = 0]
      OBVIOUS
    <3>1. refs' = [refs EXCEPT ![m] = ref]
      BY <1>1, <1>m, <2>2, <3>f
      DEF Execution!Finish, Execution!Superseded, Execution!Nobody, ExecInv, ExecTypes
    <3>2. ref = [execution |-> refs[m].execution, sending |-> FALSE, cancels |-> 0,
                 job |-> refs[m].job, seen |-> refs[m].seen,
                 environment |-> refs[m].environment]
      BY <1>1, <3>f DEF ExecRefs
    <3>3. ref \in ExecRefs
      BY <1>1, <3>2 DEF ExecRefs
    <3>4. refs \in [Execution!Mounts -> ExecRefs]
      BY DEF ExecInv, ExecTypes
    <3> QED
      BY <1>1, <3>1, <3>2, <3>3, <3>4
  <2> QED
    BY <2>1, <2>2
<1>7. ASSUME ~Execution!IsCurrent(r) PROVE ExecRunning' /\ ExecHistory'
  <2>1. UNCHANGED <<refs, ui, history>> /\ (new.recorded <=> runs[r].recorded)
    BY <1>2, <1>7 DEF Execution!Finish, Execution!Superseded
  <2>2. /\ \A q \in DOMAIN runs : q # r => (Execution!IsCurrent(q)' <=> Execution!IsCurrent(q))
        /\ \A q \in DOMAIN runs : ExecCounts(q)' <=> ExecCounts(q)
    BY <1>2, <1>5, <1>7, <2>1 DEF ExecCounts, Execution!IsCurrent
  <2>3. \A q \in DOMAIN runs :
        /\ runs'[q].mine <= refs'[runs'[q].in].execution
        /\ ExecCounts(q)' =>
               /\ q = Len(runs') /\ ui'.sending /\ ui'.cancel = runs'[q].in
               /\ refs'[runs'[q].in].cancels = q
               /\ ~runs'[q].aborted /\ ~runs'[q].recorded
        /\ runs'[q].at # "over" /\ ~Execution!IsCurrent(q)' =>
               runs'[q].aborted /\ (runs'[q].dispatched => runs'[q].recorded)
        /\ runs'[q].at \in {"transport", "answered"} => runs'[q].dispatched
        /\ runs'[q].at = "over" /\ runs'[q].dispatched => runs'[q].recorded
    <3> TAKE q \in DOMAIN runs
    <3>1. CASE q = r
      <4>1. refs[m].execution \in Nat
        BY <1>1 DEF ExecRefs
      <4>2. ~ExecCounts(r)' /\ (runs[r].dispatched => runs[r].recorded)
        BY <1>7, <2>2 DEF ExecCounts, ExecInv, ExecRunning
      <4> QED
        BY <1>2, <1>5, <2>1, <3>1, <4>1, <4>2
    <3>2. CASE q # r
      <4>1. runs'[q] = runs[q] /\ (Execution!IsCurrent(q)' <=> Execution!IsCurrent(q))
            /\ (ExecCounts(q)' <=> ExecCounts(q))
        BY <1>5, <2>2, <3>2
      <4> QED
        BY <1>5, <2>1, <4>1 DEF ExecInv, ExecRunning
    <3> QED
      BY <3>1, <3>2
  <2>4. ui.sending => refs[ui.cancel].cancels # r
    BY <1>7 DEF ExecInv, ExecRunning, ExecCounts
  <2>5. ui'.sending =>
           /\ ui'.cancel \in Execution!Mounts /\ refs'[ui'.cancel].sending
           /\ refs'[ui'.cancel].cancels \in DOMAIN runs'
           /\ runs'[refs'[ui'.cancel].cancels].in = ui'.cancel
           /\ ExecCounts(refs[ui.cancel].cancels)'
    <3> SUFFICES ASSUME ui.sending PROVE
           /\ ui.cancel \in Execution!Mounts /\ refs[ui.cancel].sending
           /\ refs[ui.cancel].cancels \in DOMAIN runs
           /\ runs'[refs[ui.cancel].cancels].in = ui.cancel
           /\ ExecCounts(refs[ui.cancel].cancels)'
      BY <1>5, <2>1
    <3>1. PICK q : q = refs[ui.cancel].cancels
      OBVIOUS
    <3>2. /\ ui.cancel \in Execution!Mounts /\ refs[ui.cancel].sending
          /\ q \in DOMAIN runs /\ runs[q].in = ui.cancel /\ ExecCounts(q) /\ q # r
      BY <2>4, <3>1 DEF ExecInv, ExecRunning
    <3>3. ExecCounts(q)' /\ runs'[q] = runs[q]
      BY <1>5, <2>2, <3>2
    <3>4. UNCHANGED refs[ui.cancel].cancels
      BY <2>1
    <3> QED
      BY <2>1, <3>1, <3>2, <3>3, <3>4 DEF ExecCounts, Execution!IsCurrent
  <2>6. ExecRunning'
    BY <1>5, <2>1, <2>3, <2>5 DEF ExecInv, ExecRunning
  <2>7. ExecHistory'
    BY <1>2, <1>5, <2>1 DEF ExecInv, ExecHistory
  <2> QED
    BY <2>6, <2>7
<1>8. ASSUME Execution!IsCurrent(r)
      PROVE  /\ ui' \in [sending : BOOLEAN, response : 0..MaxSends, cancel : 0..MaxWorkbenches]
             /\ history' \in [Execution!Runs -> Seq(Outcomes)]
             /\ ExecRunning' /\ ExecHistory'
  <2>1. /\ r = Len(runs) /\ ui.sending /\ ui.cancel = m /\ ~runs[r].recorded
    BY <1>8, <1>m DEF ExecInv, ExecRunning, ExecCounts
  <2>2. ui' = [sending |-> FALSE, cancel |-> 0, response |-> IF shows THEN r ELSE ui.response]
    BY <1>8 DEF Execution!Finish, Execution!Superseded, Execution!Nobody
  <2>3. ui.response \in 0..MaxSends /\ ui.response \in Nat
    BY DEF ExecInv, ExecTypes
  <2>4. /\ ui' \in [sending : BOOLEAN, response : 0..MaxSends, cancel : 0..MaxWorkbenches]
        /\ ~ui'.sending /\ ui'.cancel = 0
        /\ ui'.response = IF shows THEN r ELSE ui.response
    BY <1>1, <2>2, <2>3, ExecBounds DEF Execution!Runs
  <2>5. \A q \in DOMAIN runs : q # r =>
           /\ ~ExecCounts(q)' /\ (Execution!IsCurrent(q)' <=> Execution!IsCurrent(q))
           /\ runs[q].mine <= refs'[runs[q].in].execution
    <3> TAKE q \in DOMAIN runs
    <3> HAVE q # r
    <3>1. runs'[q] = runs[q] /\ runs[q].in \in Execution!Mounts
      BY <1>5, ExecAt DEF ExecInv
    <3>2. Execution!IsCurrent(q)' <=> Execution!IsCurrent(q)
      BY <1>6, <3>1 DEF Execution!IsCurrent
    <3>3. ~ExecCounts(q) /\ runs[q].mine <= refs[runs[q].in].execution
      BY <2>1 DEF ExecInv, ExecRunning
    <3> QED
      BY <1>6, <3>1, <3>2, <3>3 DEF ExecCounts
  <2>6. \A q \in DOMAIN runs :
        /\ runs'[q].mine <= refs'[runs'[q].in].execution
        /\ ~ExecCounts(q)'
        /\ runs'[q].at # "over" /\ ~Execution!IsCurrent(q)' =>
               runs'[q].aborted /\ (runs'[q].dispatched => runs'[q].recorded)
        /\ runs'[q].at \in {"transport", "answered"} => runs'[q].dispatched
        /\ runs'[q].at = "over" /\ runs'[q].dispatched => runs'[q].recorded
    <3> TAKE q \in DOMAIN runs
    <3>1. CASE q = r
      <4>1. refs'[m].execution \in Nat
        BY <1>1, <1>6 DEF ExecRefs
      <4>2. ~ExecCounts(q)'
        BY <1>2, <1>5, <3>1 DEF ExecCounts
      <4> QED
        BY <1>2, <1>5, <1>8, <3>1, <4>1, <4>2
    <3>2. CASE q # r
      BY <1>5, <2>5, <3>2 DEF ExecInv, ExecRunning
    <3> QED
      BY <3>1, <3>2
  <2>7. \A n \in Execution!Mounts : ~refs'[n].sending
    BY <1>6, <1>8, <2>1 DEF ExecInv, ExecRunning
  <2>8. ExecRunning'
    BY <1>5, <2>4, <2>6, <2>7 DEF ExecRunning
  <2>9. history' = IF runs[r].dispatched THEN [history EXCEPT ![r] = Append(@, o)] ELSE history
    BY <1>8, <2>1 DEF Execution!Finish, Execution!Superseded, Execution!Record, Execution!ToRecord
  <2>10. history \in [Execution!Runs -> Seq(Outcomes)] /\ history[r] = <<>>
    <3>1. Len(history[r]) = 0
      BY <1>1, <2>1 DEF ExecInv, ExecHistory
    <3> QED
      BY <1>1, <3>1 DEF ExecInv, ExecTypes
  <2>11. /\ history' \in [Execution!Runs -> Seq(Outcomes)]
         /\ \A q \in Execution!Runs : q # r => history'[q] = history[q]
         /\ history'[r] = IF runs[r].dispatched THEN <<o>> ELSE <<>>
    BY <1>1, <2>9, <2>10
  <2>12. ExecHistory'
    <3>1. new.recorded <=> runs[r].dispatched
      BY <1>2, <1>8, <2>1
    <3>2. ui.response # r /\ ui.response <= Len(runs)
      <4>1. ui.response = r => history[r] = <<"response">>
        BY <1>1 DEF ExecInv, ExecHistory
      <4>2. Len(<<>>) = 0 /\ Len(<<"response">>) = 1
        OBVIOUS
      <4> QED
        BY <2>10, <4>1, <4>2 DEF ExecInv, ExecHistory
    <3>3. shows => runs[r].dispatched /\ o = "response"
      BY DEF ExecInv, ExecRunning
    <3>4. \A q \in Execution!Runs :
            /\ q \in DOMAIN runs' =>
                   /\ Len(history'[q]) = IF runs'[q].recorded THEN 1 ELSE 0
                   /\ runs'[q].recorded => runs'[q].dispatched
                   /\ ui'.response = q => history'[q] = <<"response">>
            /\ q \notin DOMAIN runs' => history'[q] = <<>>
      <4> TAKE q \in Execution!Runs
      <4>1. CASE q = r
        <5>1. Len(history'[r]) = IF new.recorded THEN 1 ELSE 0
          BY <2>11, <3>1
        <5>2. ui'.response = r => history'[r] = <<"response">>
          BY <2>4, <2>11, <3>2, <3>3
        <5> QED
          BY <1>2, <1>5, <3>1, <4>1, <5>1, <5>2
      <4>2. CASE q # r
        BY <1>5, <2>4, <2>11, <4>2 DEF ExecInv, ExecHistory
      <4> QED
        BY <4>1, <4>2
    <3>5. ui'.response <= Len(runs')
      BY <1>3, <1>5, <2>1, <2>4, <3>2
    <3> QED
      BY <3>4, <3>5 DEF ExecHistory
  <2> QED
    BY <2>4, <2>8, <2>11, <2>12
<1>9. /\ ui' \in [sending : BOOLEAN, response : 0..MaxSends, cancel : 0..MaxWorkbenches]
      /\ history' \in [Execution!Runs -> Seq(Outcomes)]
      /\ ExecRunning' /\ ExecHistory'
  <2>1. CASE ~Execution!IsCurrent(r)
    BY <1>7, <2>1 DEF Execution!Finish, Execution!Superseded, ExecInv, ExecTypes
  <2> QED
    BY <1>8, <2>1
<1>10. ExecTypes'
  <2>1. \A q \in DOMAIN runs' : runs'[q].job <= Len(jobs')
    BY <1>0, <1>2, <1>5 DEF ExecInv, ExecTypes
  <2> QED
    BY <1>0, <1>5, <1>6, <1>9, <2>1 DEF ExecInv, ExecTypes
<1>11. ExecTokens'
  <2>1. \A q \in DOMAIN runs' : runs'[q].in <= mounts'
    BY <1>0, <1>2, <1>5, <1>m DEF ExecInv, ExecTokens
  <2>2. shown' # 0 => refs'[shown'].environment = config'.environment
    <3>1. shown # 0 => shown \in Execution!Mounts
      BY DEF ExecInv, ExecTypes
    <3> QED
      BY <1>0, <1>6, <3>1 DEF ExecInv, ExecTokens
  <2> QED
    BY <1>0, <1>6, <2>1, <2>2 DEF ExecInv, ExecTokens
<1> QED
  BY <1>9, <1>10, <1>11 DEF ExecInv

\* Dropping a job aborts it and nothing else.
LEMMA ExecAborts ==
  ASSUME ExecTypes, NEW j \in 0..Len(jobs), jobs' = Execution!Aborted(j)
  PROVE  /\ jobs' \in Seq(ExecJobs) /\ Len(jobs') = Len(jobs) /\ DOMAIN jobs' = DOMAIN jobs
         /\ \A i \in DOMAIN jobs :
                jobs'[i].in = jobs[i].in /\ jobs'[i].from = jobs[i].from
                /\ (jobs'[i].over <=> jobs[i].over)
<1>1. jobs \in Seq(ExecJobs) /\ DOMAIN jobs = 1..Len(jobs) /\ Len(jobs) \in Nat
  BY DEF ExecTypes
<1>2. CASE j = 0
  BY <1>1, <1>2 DEF Execution!Aborted, Execution!Nobody
<1>3. CASE j # 0
  <2>1. j \in DOMAIN jobs /\ jobs[j] \in ExecJobs
    BY <1>1, <1>3
  <2>n. PICK new : new = [jobs[j] EXCEPT !.aborted = TRUE]
    OBVIOUS
  <2>2. jobs' = [jobs EXCEPT ![j] = new]
    BY <1>3, <2>1, <2>n DEF Execution!Aborted, Execution!Nobody
  <2>3. new = [in |-> jobs[j].in, from |-> jobs[j].from, aborted |-> TRUE, over |-> jobs[j].over]
    BY <2>1, <2>n DEF ExecJobs
  <2>4. new \in ExecJobs
    BY <2>1, <2>3 DEF ExecJobs
  <2>5. jobs' \in Seq(ExecJobs) /\ Len(jobs') = Len(jobs) /\ DOMAIN jobs' = DOMAIN jobs
        /\ jobs'[j] = new /\ \A i \in DOMAIN jobs : i # j => jobs'[i] = jobs[i]
    BY <1>1, <2>1, <2>2, <2>4
  <2> QED
    BY <2>3, <2>5
<1> QED
  BY <1>2, <1>3

\* Workbenches that drop their jobs or keep them wait for their own ones still.
LEMMA ExecTokensKept ==
  ASSUME ExecInv, UNCHANGED <<mounts, shown>>, config'.environment = config.environment,
         \A j \in DOMAIN jobs :
             /\ j \in DOMAIN jobs' /\ jobs'[j].in = jobs[j].in /\ jobs'[j].from = jobs[j].from
             /\ jobs'[j].over <=> jobs[j].over,
         \A n \in Execution!Mounts :
             /\ refs'[n].job \in {0, refs[n].job} /\ refs'[n].seen = refs[n].seen
             /\ refs'[n].environment = refs[n].environment,
         DOMAIN runs' = DOMAIN runs, \A r \in DOMAIN runs : runs'[r].in = runs[r].in
  PROVE  ExecTokens'
<1>1. \A n \in Execution!Mounts :
        /\ n > mounts => refs'[n].job = 0
        /\ refs'[n].job # 0 =>
               /\ refs'[n].job \in DOMAIN jobs'
               /\ jobs'[refs'[n].job].in = n /\ ~jobs'[refs'[n].job].over
               /\ jobs'[refs'[n].job].from.environment = refs'[n].environment
  <2> TAKE n \in Execution!Mounts
  <2>1. n > mounts => refs[n].job = 0
    BY DEF ExecInv, ExecTokens
  <2>2. CASE refs'[n].job = 0
    BY <2>2
  <2>3. CASE refs'[n].job # 0
    <3>1. refs'[n].job = refs[n].job /\ refs[n].job # 0
      BY <2>3
    <3>2. /\ refs[n].job \in DOMAIN jobs
          /\ jobs[refs[n].job].in = n /\ ~jobs[refs[n].job].over
          /\ jobs[refs[n].job].from.environment = refs[n].environment
      BY <3>1 DEF ExecInv, ExecTokens
    <3> QED
      BY <2>1, <3>1, <3>2
  <2> QED
    BY <2>2, <2>3
<1>2. shown' # 0 => refs'[shown'].environment = config'.environment
  <2>1. shown # 0 => shown \in Execution!Mounts
    BY DEF ExecInv, ExecTypes
  <2> QED
    BY <2>1 DEF ExecInv, ExecTokens
<1> QED
  BY <1>1, <1>2 DEF ExecInv, ExecTokens

\* Cancelling ends what counts, and keeps it in the history if it was sent.
LEMMA ExecCancels == ASSUME ExecInv, Execution!Cancel PROVE ExecInv'
<1>m. PICK m : m = ui.cancel
  OBVIOUS
<1>r. PICK r : r = refs[m].cancels
  BY Zenon
<1>1. /\ ui.sending /\ m \in Execution!Mounts /\ refs[m].sending /\ r \in DOMAIN runs
      /\ runs[r].in = m /\ ExecCounts(r) /\ ~runs[r].recorded /\ r = Len(runs)
      /\ shown # 0 /\ shown \in Execution!Mounts
  <2>1. ui.sending /\ shown # 0
    BY Zenon DEF Execution!Cancel, Execution!Nobody
  <2>2. shown # 0 => shown \in Execution!Mounts
    BY DEF ExecInv, ExecTypes
  <2>3. ExecRunning
    BY DEF ExecInv
  <2>4. /\ m \in Execution!Mounts /\ refs[m].sending /\ r \in DOMAIN runs
        /\ runs[r].in = m /\ ExecCounts(r) /\ ~runs[r].recorded /\ r = Len(runs)
    BY <1>m, <1>r, <2>1, <2>3 DEF ExecRunning
  <2> QED
    BY <2>1, <2>2, <2>4
<1>2. (IF refs[shown].sending THEN shown ELSE ui.cancel) = m
  BY <1>1, <1>m DEF ExecInv, ExecRunning
<1>0. /\ history' = Execution!Record(r, "cancelled")
      /\ runs' = [runs EXCEPT ![r].aborted = TRUE,
                              ![r].recorded = runs[r].recorded \/ runs[r].dispatched]
      /\ jobs' = Execution!Aborted(refs[m].job)
      /\ refs' = [refs EXCEPT ![m].execution = refs[m].execution + 1, ![m].sending = FALSE,
                              ![m].cancels = 0, ![m].job = 0]
      /\ ui' = [ui EXCEPT !.sending = FALSE, !.cancel = 0]
      /\ UNCHANGED <<mounts, shown, config, configEdits>>
  BY <1>1, <1>2, <1>r, Zenon DEF Execution!Cancel, Execution!Nobody
<1>3. /\ runs[r] \in ExecRuns /\ refs[m] \in ExecRefs /\ r \in Execution!Runs
      /\ runs \in Seq(ExecRuns) /\ Len(runs) \in Nat /\ DOMAIN runs = 1..Len(runs)
      /\ refs \in [Execution!Mounts -> ExecRefs]
  BY <1>1, ExecAt DEF ExecInv, ExecTypes
<1>n. PICK new : new = [runs[r] EXCEPT !.aborted = TRUE,
                                       !.recorded = runs[r].recorded \/ runs[r].dispatched]
  OBVIOUS
<1>f. PICK ref : ref = [refs[m] EXCEPT !.execution = refs[m].execution + 1,
                                       !.sending = FALSE, !.cancels = 0, !.job = 0]
  OBVIOUS
<1>4. runs' = [runs EXCEPT ![r] = new] /\ refs' = [refs EXCEPT ![m] = ref]
  BY <1>0, <1>1, <1>3, <1>f, <1>n
<1>5. /\ new \in ExecRuns /\ new.at = runs[r].at /\ new.in = m /\ new.mine = runs[r].mine
      /\ new.dispatched = runs[r].dispatched /\ new.aborted /\ new.job = runs[r].job
      /\ new.recorded <=> runs[r].dispatched
  <2>1. new = [at |-> runs[r].at, in |-> m, mine |-> runs[r].mine, token |-> runs[r].token,
               dispatched |-> runs[r].dispatched, aborted |-> TRUE, job |-> runs[r].job,
               recorded |-> runs[r].recorded \/ runs[r].dispatched]
    BY <1>1, <1>3, <1>n DEF ExecRuns
  <2>2. (runs[r].recorded \/ runs[r].dispatched) \in BOOLEAN
    OBVIOUS
  <2> QED
    BY <1>1, <1>3, <2>1, <2>2 DEF ExecRuns
<1>6. /\ ref \in ExecRefs /\ ref.execution = refs[m].execution + 1 /\ ~ref.sending
      /\ ref.job = 0 /\ ref.seen = refs[m].seen /\ ref.environment = refs[m].environment
  <2>1. ref = [execution |-> refs[m].execution + 1, sending |-> FALSE, cancels |-> 0,
               job |-> 0, seen |-> refs[m].seen, environment |-> refs[m].environment]
    BY <1>3, <1>f DEF ExecRefs
  <2>2. /\ refs[m].execution + 1 \in Nat /\ refs[m].seen \in ExecConfigs
        /\ refs[m].environment \in 0..MaxWorkbenches /\ 0 \in 0..MaxJobs
    BY <1>3, ExecBounds DEF ExecRefs
  <2> QED
    BY <2>1, <2>2 DEF ExecRefs
<1>7. /\ runs' \in Seq(ExecRuns) /\ Len(runs') = Len(runs) /\ DOMAIN runs' = DOMAIN runs
      /\ runs'[r] = new /\ \A q \in DOMAIN runs : q # r => runs'[q] = runs[q]
  BY <1>1, <1>3, <1>4, <1>5
<1>8. /\ refs' \in [Execution!Mounts -> ExecRefs] /\ refs'[m] = ref
      /\ \A n \in Execution!Mounts : n # m => refs'[n] = refs[n]
  BY <1>1, <1>3, <1>4, <1>6
<1>9. /\ ui' \in [sending : BOOLEAN, response : 0..MaxSends, cancel : 0..MaxWorkbenches]
      /\ ~ui'.sending /\ ui'.cancel = 0 /\ ui'.response = ui.response
  <2>1. 0 \in 0..MaxWorkbenches
    BY ExecBounds
  <2> QED
    BY <1>0, <2>1, ExecSessionSet DEF ExecInv, ExecTypes
<1>10. /\ jobs' \in Seq(ExecJobs) /\ Len(jobs') = Len(jobs) /\ DOMAIN jobs' = DOMAIN jobs
       /\ \A i \in DOMAIN jobs :
              jobs'[i].in = jobs[i].in /\ jobs'[i].from = jobs[i].from
              /\ (jobs'[i].over <=> jobs[i].over)
  <2>1. refs[m].job \in 0..Len(jobs)
    <3>1. refs[m].job # 0 => refs[m].job \in DOMAIN jobs
      BY <1>1 DEF ExecInv, ExecTokens
    <3> QED
      BY <3>1 DEF ExecInv, ExecTypes
  <2> QED
    BY <1>0, <2>1, ExecAborts DEF ExecInv
<1>11. history' = IF runs[r].dispatched THEN [history EXCEPT ![r] = Append(@, "cancelled")]
                  ELSE history
  BY <1>0, <1>1 DEF Execution!Record, Execution!ToRecord
<1>12. /\ history' \in [Execution!Runs -> Seq(Outcomes)] /\ history[r] = <<>>
       /\ \A q \in Execution!Runs : q # r => history'[q] = history[q]
       /\ history'[r] = IF runs[r].dispatched THEN <<"cancelled">> ELSE <<>>
  <2>1. history \in [Execution!Runs -> Seq(Outcomes)]
    BY DEF ExecInv, ExecTypes
  <2>2. Len(history[r]) = 0
    BY <1>1, <1>3 DEF ExecInv, ExecHistory
  <2>3. history[r] = <<>> /\ history[r] \in Seq(Outcomes)
    BY <1>3, <2>1, <2>2
  <2> QED
    BY <1>3, <1>11, <2>1, <2>3 DEF Outcomes
<1>13. ExecTypes'
  <2>1. \A q \in DOMAIN runs' : runs'[q].job <= Len(jobs')
    BY <1>5, <1>7, <1>10 DEF ExecInv, ExecTypes
  <2> QED
    BY <1>0, <1>7, <1>8, <1>9, <1>10, <1>12, <2>1 DEF ExecInv, ExecTypes
<1>14. \A q \in DOMAIN runs :
         /\ ~ExecCounts(q)' /\ runs'[q].mine <= refs'[runs'[q].in].execution
         /\ q # r => (Execution!IsCurrent(q) => runs[q].at = "over")
  <2> TAKE q \in DOMAIN runs
  <2>1. /\ runs[q] \in ExecRuns /\ runs[q].in \in Execution!Mounts /\ runs[q].mine \in Nat
        /\ refs[runs[q].in].execution \in Nat /\ refs[m].execution \in Nat
    BY <1>3, ExecAt DEF ExecInv, ExecRuns, ExecRefs
  <2>2. runs[q].mine <= refs[runs[q].in].execution /\ (q # r => ~ExecCounts(q))
    BY <1>1 DEF ExecInv, ExecRunning
  <2>3. runs'[q].at = runs[q].at /\ runs'[q].in = runs[q].in /\ runs'[q].mine = runs[q].mine
    BY <1>1, <1>5, <1>7
  <2>4. CASE runs[q].in = m
    BY <1>6, <1>8, <2>1, <2>2, <2>3, <2>4 DEF ExecCounts, Execution!IsCurrent
  <2>5. CASE runs[q].in # m
    BY <1>1, <1>8, <2>1, <2>2, <2>3, <2>5 DEF ExecCounts, Execution!IsCurrent
  <2> QED
    BY <2>4, <2>5
<1>15. ExecRunning'
  <2>1. \A q \in DOMAIN runs :
        /\ runs'[q].at # "over" =>
               runs'[q].aborted /\ (runs'[q].dispatched => runs'[q].recorded)
        /\ runs'[q].at \in {"transport", "answered"} => runs'[q].dispatched
        /\ runs'[q].at = "over" /\ runs'[q].dispatched => runs'[q].recorded
    <3> TAKE q \in DOMAIN runs
    <3>1. CASE q = r
      BY <1>1, <1>5, <1>7, <3>1 DEF ExecInv, ExecRunning
    <3>2. CASE q # r
      BY <1>7, <1>14, <3>2 DEF ExecInv, ExecRunning
    <3> QED
      BY <3>1, <3>2
  <2>2. \A n \in Execution!Mounts : ~refs'[n].sending
    BY <1>m, <1>6, <1>8 DEF ExecInv, ExecRunning
  <2> QED
    BY <1>7, <1>9, <1>14, <2>1, <2>2 DEF ExecRunning
<1>16. ExecHistory'
  <2>1. ui.response # r /\ ui.response <= Len(runs)
    <3>1. ui.response = r => history[r] = <<"response">>
      BY <1>1, <1>3 DEF ExecInv, ExecHistory
    <3>2. Len(<<>>) = 0 /\ Len(<<"response">>) = 1
      OBVIOUS
    <3> QED
      BY <1>12, <3>1, <3>2 DEF ExecInv, ExecHistory
  <2>2. \A q \in Execution!Runs :
          /\ q \in DOMAIN runs' =>
                 /\ Len(history'[q]) = IF runs'[q].recorded THEN 1 ELSE 0
                 /\ runs'[q].recorded => runs'[q].dispatched
                 /\ ui'.response = q => history'[q] = <<"response">>
          /\ q \notin DOMAIN runs' => history'[q] = <<>>
    <3> TAKE q \in Execution!Runs
    <3>1. CASE q = r
      BY <1>1, <1>5, <1>7, <1>9, <1>12, <2>1, <3>1
    <3>2. CASE q # r
      BY <1>7, <1>9, <1>12, <3>2 DEF ExecInv, ExecHistory
    <3> QED
      BY <3>1, <3>2
  <2> QED
    BY <1>7, <1>9, <2>1, <2>2 DEF ExecHistory
<1>17. ExecTokens'
  <2>1. \A n \in Execution!Mounts :
             /\ refs'[n].job \in {0, refs[n].job} /\ refs'[n].seen = refs[n].seen
             /\ refs'[n].environment = refs[n].environment
    BY <1>6, <1>8
  <2>2. \A q \in DOMAIN runs : runs'[q].in = runs[q].in
    BY <1>1, <1>5, <1>7
  <2>3. UNCHANGED <<mounts, shown>> /\ config'.environment = config.environment
    BY <1>0
  <2> QED
    BY <1>7, <1>10, <2>1, <2>2, <2>3, ExecTokensKept
<1> QED
  BY <1>13, <1>15, <1>16, <1>17 DEF ExecInv

\* A step of one execution that does not end it, with what it does to the jobs.
LEMMA ExecStepOf ==
  ASSUME ExecInv, NEW r \in DOMAIN runs, runs[r].at # "over", NEW new \in ExecRuns,
         runs' = [runs EXCEPT ![r] = new],
         new.at # "over", new.in = runs[r].in, new.mine = runs[r].mine,
         new.recorded = runs[r].recorded, new.aborted = runs[r].aborted,
         new.at \in {"transport", "answered"} => new.dispatched,
         new.dispatched = runs[r].dispatched \/ (new.dispatched /\ ~runs[r].aborted),
         UNCHANGED <<mounts, shown, ui, history, config, configEdits>>,
         jobs' \in Seq(ExecJobs), Len(jobs) <= Len(jobs'), Len(jobs') <= MaxJobs,
         new.job <= Len(jobs'),
         refs' \in [Execution!Mounts -> ExecRefs],
         \A m \in Execution!Mounts :
             /\ refs'[m].execution = refs[m].execution /\ refs'[m].sending = refs[m].sending
             /\ refs'[m].cancels = refs[m].cancels
  PROVE  /\ ExecTypes' /\ ExecRunning' /\ ExecHistory'
         /\ DOMAIN runs' = DOMAIN runs /\ \A q \in DOMAIN runs : runs'[q].in = runs[q].in
<1>1. /\ runs \in Seq(ExecRuns) /\ Len(runs) \in Nat /\ DOMAIN runs = 1..Len(runs)
      /\ jobs \in Seq(ExecJobs) /\ Len(jobs) \in Nat /\ Len(jobs') \in Nat
  BY DEF ExecInv, ExecTypes
<1>2. /\ runs' \in Seq(ExecRuns) /\ Len(runs') = Len(runs) /\ DOMAIN runs' = DOMAIN runs
      /\ runs'[r] = new /\ \A q \in DOMAIN runs : q # r => runs'[q] = runs[q]
  BY <1>1
<1>3. \A q \in DOMAIN runs : runs'[q].in = runs[q].in /\ runs'[q].job <= Len(jobs')
  <2> TAKE q \in DOMAIN runs
  <2>1. runs[q].job <= Len(jobs) /\ runs[q].job \in Nat
    <3>1. runs[q] \in ExecRuns
      BY ExecAt DEF ExecInv
    <3> QED
      BY <3>1 DEF ExecInv, ExecTypes, ExecRuns
  <2> QED
    BY <1>1, <1>2, <2>1
<1>4. ExecTypes'
  BY <1>2, <1>3 DEF ExecInv, ExecTypes
<1>5. \A q \in DOMAIN runs :
             /\ runs'[q].in = runs[q].in /\ runs'[q].mine = runs[q].mine
             /\ runs'[q].recorded = runs[q].recorded /\ runs'[q].aborted = runs[q].aborted
             /\ runs'[q].at = "over" <=> runs[q].at = "over"
             /\ runs'[q].at \in {"transport", "answered"} => runs'[q].dispatched
             /\ \/ runs'[q].dispatched = runs[q].dispatched
                \/ runs'[q].dispatched /\ runs[q].at # "over" /\ ~runs[q].aborted
  <2> TAKE q \in DOMAIN runs
  <2>1. CASE q = r
    BY <1>2, <2>1
  <2>2. CASE q # r
    BY <1>2, <2>2 DEF ExecInv, ExecRunning
  <2> QED
    BY <2>1, <2>2
<1>6. UNCHANGED <<ui, history>>
  OBVIOUS
<1>7. ExecRunning' /\ ExecHistory'
  BY <1>2, <1>5, <1>6, ExecSame
<1> QED
  BY <1>2, <1>3, <1>4, <1>7

\* A job begins, with the configuration its workbench last rendered.
LEMMA ExecRunsJob ==
  ASSUME ExecInv, NEW m \in Execution!Mounts, m <= mounts, refs[m].job = 0,
         Execution!RunJob(m), UNCHANGED <<mounts, shown, config>>,
         DOMAIN runs' = DOMAIN runs, \A r \in DOMAIN runs : runs'[r].in = runs[r].in
  PROVE  /\ jobs' \in Seq(ExecJobs) /\ Len(jobs') = Len(jobs) + 1 /\ Len(jobs') <= MaxJobs
         /\ refs' \in [Execution!Mounts -> ExecRefs] /\ refs'[m].job = Len(jobs')
         /\ \A n \in Execution!Mounts :
                /\ refs'[n].execution = refs[n].execution /\ refs'[n].sending = refs[n].sending
                /\ refs'[n].cancels = refs[n].cancels
         /\ ExecTokens'
<1>n. PICK new :
        new = [in |-> m, from |-> Execution!Rendered(m), aborted |-> FALSE, over |-> FALSE]
  OBVIOUS
<1>f. PICK ref : ref = [refs[m] EXCEPT !.job = Len(jobs) + 1]
  OBVIOUS
<1>1. /\ jobs \in Seq(ExecJobs) /\ Len(jobs) \in Nat /\ DOMAIN jobs = 1..Len(jobs)
      /\ refs \in [Execution!Mounts -> ExecRefs] /\ refs[m] \in ExecRefs
      /\ config \in ExecConfigs /\ mounts \in Nat /\ m \in Nat /\ shown \in {0, mounts}
  BY DEF ExecInv, ExecTypes, Execution!Mounts
<1>2. Len(jobs) < MaxJobs /\ jobs' = Append(jobs, new) /\ refs' = [refs EXCEPT ![m] = ref]
  BY <1>1, <1>f, <1>n DEF Execution!RunJob
<1>3. Execution!Rendered(m) \in ExecConfigs /\ Execution!Rendered(m).environment = refs[m].environment
  <2>1. CASE m = shown
    BY <1>1, <2>1 DEF Execution!Rendered, ExecInv, ExecTokens, Execution!Mounts
  <2>2. CASE m # shown
    <3>1. m < mounts \/ (m = mounts /\ shown = 0)
      BY <1>1, <2>2
    <3>2. refs[m].seen.environment = refs[m].environment
      BY <3>1 DEF ExecInv, ExecTokens
    <3> QED
      BY <1>1, <2>2, <3>2 DEF Execution!Rendered, ExecRefs
  <2> QED
    BY <2>1, <2>2
<1>4. new \in ExecJobs /\ new.in = m /\ ~new.over /\ new.from.environment = refs[m].environment
  BY <1>3, <1>n DEF ExecJobs
<1>5. /\ ref \in ExecRefs /\ ref.execution = refs[m].execution /\ ref.sending = refs[m].sending
      /\ ref.cancels = refs[m].cancels /\ ref.job = Len(jobs) + 1 /\ ref.seen = refs[m].seen
      /\ ref.environment = refs[m].environment
  <2>1. Len(jobs) + 1 \in 0..MaxJobs
    BY <1>1, <1>2, ExecBounds
  <2>2. ref = [execution |-> refs[m].execution, sending |-> refs[m].sending,
               cancels |-> refs[m].cancels, job |-> Len(jobs) + 1, seen |-> refs[m].seen,
               environment |-> refs[m].environment]
    BY <1>1, <1>f DEF ExecRefs
  <2> QED
    BY <1>1, <2>1, <2>2 DEF ExecRefs
<1>6. /\ jobs' \in Seq(ExecJobs) /\ Len(jobs') = Len(jobs) + 1 /\ Len(jobs') <= MaxJobs
      /\ DOMAIN jobs' = DOMAIN jobs \cup {Len(jobs')} /\ jobs'[Len(jobs')] = new
      /\ \A j \in DOMAIN jobs : jobs'[j] = jobs[j]
  <2>1. /\ jobs' \in Seq(ExecJobs) /\ Len(jobs') = Len(jobs) + 1
        /\ DOMAIN jobs' = 1..Len(jobs) + 1 /\ jobs'[Len(jobs) + 1] = new
        /\ \A j \in DOMAIN jobs : jobs'[j] = jobs[j]
    BY <1>1, <1>2, <1>4
  <2>2. Len(jobs') <= MaxJobs
    BY <1>1, <1>2, <2>1, ExecBounds
  <2> QED
    BY <1>1, <2>1, <2>2
<1>7. /\ refs' \in [Execution!Mounts -> ExecRefs] /\ refs'[m] = ref
      /\ \A n \in Execution!Mounts : n # m => refs'[n] = refs[n]
  BY <1>1, <1>2, <1>5
<1>8. \A n \in Execution!Mounts :
        /\ n > mounts => refs'[n].job = 0
        /\ refs'[n].job # 0 =>
               /\ refs'[n].job \in DOMAIN jobs'
               /\ jobs'[refs'[n].job].in = n /\ ~jobs'[refs'[n].job].over
               /\ jobs'[refs'[n].job].from.environment = refs'[n].environment
        /\ refs'[n].seen = refs[n].seen /\ refs'[n].environment = refs[n].environment
  <2> TAKE n \in Execution!Mounts
  <2>1. CASE n = m
    BY <1>1, <1>4, <1>5, <1>6, <1>7, <2>1
  <2>2. CASE n # m
    <3>1. refs'[n] = refs[n]
      BY <1>7, <2>2
    <3> QED
      BY <1>6, <3>1 DEF ExecInv, ExecTokens
  <2> QED
    BY <2>1, <2>2
<1>9. ExecTokens'
  <2>1. shown' # 0 => refs'[shown'].environment = config'.environment
    <3>1. shown # 0 => shown \in Execution!Mounts
      BY DEF ExecInv, ExecTypes
    <3> QED
      BY <1>8, <3>1 DEF ExecInv, ExecTokens
  <2> QED
    BY <1>8, <2>1 DEF ExecInv, ExecTokens
<1>10. \A n \in Execution!Mounts :
        /\ refs'[n].execution = refs[n].execution /\ refs'[n].sending = refs[n].sending
        /\ refs'[n].cancels = refs[n].cancels
  BY <1>5, <1>7
<1> QED
  BY <1>5, <1>6, <1>7, <1>9, <1>10

\* The steps of an execution: preparing it, asking for its token and sending.
LEMMA ExecProgress ==
  ASSUME ExecInv, NEW r \in DOMAIN runs,
         Execution!Resolved(r) \/ Execution!Prepared(r) \/ Execution!Exchanged(r)
         \/ Execution!Settled(r)
  PROVE  ExecInv'
<1>1. /\ runs[r] \in ExecRuns /\ runs[r].in \in Execution!Mounts /\ runs[r].in <= mounts
      /\ runs[r].job \in Nat /\ runs[r].job <= Len(jobs)
      /\ jobs \in Seq(ExecJobs) /\ Len(jobs) <= MaxJobs /\ Len(jobs) \in Nat
      /\ runs \in Seq(ExecRuns) /\ refs \in [Execution!Mounts -> ExecRefs]
  <2>1. runs[r] \in ExecRuns /\ runs[r].in \in Execution!Mounts
    BY ExecAt DEF ExecInv
  <2> QED
    BY <2>1 DEF ExecInv, ExecTypes, ExecTokens, ExecRuns
<1>2. ASSUME Execution!Failed(r), runs[r].at # "over" PROVE ExecInv'
  <2>1. FALSE \in BOOLEAN /\ "error" \in Outcomes
    BY DEF Outcomes
  <2>2. Execution!Finish(r, "error", FALSE) /\ UNCHANGED jobs
    BY <1>2 DEF Execution!Failed
  <2> QED
    BY <1>2, <2>1, <2>2, ExecFinishes
<1>3. ASSUME NEW new \in ExecRuns, runs' = [runs EXCEPT ![r] = new], runs[r].at # "over",
             new.at # "over", new.in = runs[r].in, new.mine = runs[r].mine,
             new.recorded = runs[r].recorded, new.aborted = runs[r].aborted,
             new.at \in {"transport", "answered"} => new.dispatched,
             new.dispatched = runs[r].dispatched \/ (new.dispatched /\ ~runs[r].aborted),
             new.job = runs[r].job,
             UNCHANGED <<mounts, shown, ui, history, config, configEdits, jobs, refs>>
      PROVE  ExecInv'
  <2>1. /\ ExecTypes' /\ ExecRunning' /\ ExecHistory'
        /\ DOMAIN runs' = DOMAIN runs /\ \A q \in DOMAIN runs : runs'[q].in = runs[q].in
    <3>1. /\ jobs' \in Seq(ExecJobs) /\ Len(jobs) <= Len(jobs') /\ Len(jobs') <= MaxJobs
          /\ new.job <= Len(jobs')
          /\ refs' \in [Execution!Mounts -> ExecRefs]
          /\ \A m \in Execution!Mounts :
                 /\ refs'[m].execution = refs[m].execution /\ refs'[m].sending = refs[m].sending
                 /\ refs'[m].cancels = refs[m].cancels
      BY <1>1, <1>3
    <3>2. UNCHANGED <<mounts, shown, ui, history, config, configEdits>>
      BY <1>3
    <3> QED
      BY <1>3, <3>1, <3>2, ExecStepOf
  <2>2. ExecTokens'
    BY <1>3, <2>1, ExecTokensKept
  <2> QED
    BY <2>1, <2>2 DEF ExecInv
<1>4. CASE Execution!Resolved(r)
  <2>1. runs[r].at = "resolving"
    BY <1>4 DEF Execution!Resolved
  <2>2. CASE Execution!Failed(r)
    BY <1>2, <2>1, <2>2
  <2>3. CASE /\ runs' = [runs EXCEPT ![r].at = "preparing"]
             /\ UNCHANGED <<mounts, shown, refs, ui, history, jobs, config, configEdits>>
    <3>n. PICK new : new = [runs[r] EXCEPT !.at = "preparing"]
      OBVIOUS
    <3>1. runs' = [runs EXCEPT ![r] = new]
      BY <2>3, <3>n
    <3>2. /\ new \in ExecRuns /\ new.at = "preparing" /\ new.in = runs[r].in
          /\ new.mine = runs[r].mine /\ new.recorded = runs[r].recorded
          /\ new.aborted = runs[r].aborted /\ new.dispatched = runs[r].dispatched
          /\ new.job = runs[r].job
      BY <1>1, <3>n DEF ExecRuns
    <3> QED
      BY <1>3, <2>1, <2>3, <3>1, <3>2
  <2>4. CASE /\ IF refs[runs[r].in].job # 0 THEN UNCHANGED <<jobs, refs>>
                ELSE Execution!RunJob(runs[r].in)
             /\ runs' = [runs EXCEPT ![r].at = "token", ![r].job = refs'[runs[r].in].job]
             /\ UNCHANGED <<mounts, shown, ui, history, config, configEdits>>
    <3>n. PICK new : new = [runs[r] EXCEPT !.at = "token", !.job = refs'[runs[r].in].job]
      OBVIOUS
    <3>1. runs' = [runs EXCEPT ![r] = new]
      BY <2>4, <3>n
    <3>2. /\ new.at = "token" /\ new.in = runs[r].in
          /\ new.mine = runs[r].mine /\ new.recorded = runs[r].recorded
          /\ new.aborted = runs[r].aborted /\ new.dispatched = runs[r].dispatched
          /\ new.job = refs'[runs[r].in].job
          /\ refs'[runs[r].in].job \in 0..MaxJobs => new \in ExecRuns
      BY <1>1, <3>n DEF ExecRuns
    <3>3. DOMAIN runs' = DOMAIN runs /\ \A q \in DOMAIN runs : runs'[q].in = runs[q].in
      BY <1>1, <3>1, <3>2
    <3>4. /\ jobs' \in Seq(ExecJobs) /\ Len(jobs) <= Len(jobs') /\ Len(jobs') <= MaxJobs
          /\ refs' \in [Execution!Mounts -> ExecRefs]
          /\ refs'[runs[r].in].job <= Len(jobs')
          /\ \A m \in Execution!Mounts :
                 /\ refs'[m].execution = refs[m].execution /\ refs'[m].sending = refs[m].sending
                 /\ refs'[m].cancels = refs[m].cancels
          /\ ExecTokens'
      <4>1. CASE refs[runs[r].in].job # 0
        <5>1. UNCHANGED <<jobs, refs>>
          BY <2>4, <4>1
        <5>2. refs[runs[r].in].job \in 1..Len(jobs)
          BY <1>1, <4>1 DEF ExecInv, ExecTokens
        <5>3. ExecTokens'
          BY <2>4, <3>3, <5>1, ExecTokensKept
        <5> QED
          BY <1>1, <5>1, <5>2, <5>3
      <4>2. CASE refs[runs[r].in].job = 0
        <5>1. Execution!RunJob(runs[r].in) /\ UNCHANGED <<mounts, shown, config>>
          BY <2>4, <4>2
        <5>2. /\ jobs' \in Seq(ExecJobs) /\ Len(jobs') = Len(jobs) + 1 /\ Len(jobs') <= MaxJobs
              /\ refs' \in [Execution!Mounts -> ExecRefs]
              /\ refs'[runs[r].in].job = Len(jobs')
              /\ \A n \in Execution!Mounts :
                     /\ refs'[n].execution = refs[n].execution
                     /\ refs'[n].sending = refs[n].sending
                     /\ refs'[n].cancels = refs[n].cancels
              /\ ExecTokens'
          BY <1>1, <3>3, <4>2, <5>1, ExecRunsJob
        <5>3. Len(jobs') \in Nat
          BY <1>1, <5>2
        <5> QED
          BY <1>1, <5>2, <5>3
      <4> QED
        BY <4>1, <4>2
    <3>5. new \in ExecRuns /\ new.job <= Len(jobs')
      <4>1. refs'[runs[r].in].job \in 0..MaxJobs
        BY <1>1, <3>4 DEF ExecRefs
      <4> QED
        BY <3>2, <3>4, <4>1
    <3>6. ExecTypes' /\ ExecRunning' /\ ExecHistory'
      BY <1>1, <2>1, <2>4, <3>1, <3>2, <3>4, <3>5, ExecStepOf
    <3> QED
      BY <3>4, <3>6 DEF ExecInv
  <2> QED
    BY <1>4, <2>2, <2>3, <2>4 DEF Execution!Resolved, Execution!Nobody
<1>5. CASE Execution!Prepared(r)
  <2>1. runs[r].at = "preparing"
    BY <1>5 DEF Execution!Prepared
  <2>2. CASE Execution!Failed(r)
    BY <1>2, <2>1, <2>2
  <2>3. CASE /\ ~runs[r].aborted
             /\ runs' = [runs EXCEPT ![r].at = "transport", ![r].dispatched = TRUE]
             /\ UNCHANGED <<mounts, shown, refs, ui, history, jobs, config, configEdits>>
    <3>n. PICK new : new = [runs[r] EXCEPT !.at = "transport", !.dispatched = TRUE]
      OBVIOUS
    <3>1. runs' = [runs EXCEPT ![r] = new]
      BY <2>3, <3>n
    <3>2. /\ new \in ExecRuns /\ new.at = "transport" /\ new.in = runs[r].in
          /\ new.mine = runs[r].mine /\ new.recorded = runs[r].recorded
          /\ new.aborted = runs[r].aborted /\ new.dispatched
          /\ new.job = runs[r].job
      BY <1>1, <3>n DEF ExecRuns
    <3> QED
      BY <1>3, <2>1, <2>3, <3>1, <3>2
  <2> QED
    BY <1>5, <2>2, <2>3 DEF Execution!Prepared
<1>6. CASE Execution!Exchanged(r)
  <2>1. PICK at2 \in {"answered", "failed"} :
          /\ runs[r].at = "transport"
          /\ runs' = [runs EXCEPT ![r].at = at2]
          /\ UNCHANGED <<mounts, shown, refs, ui, history, jobs, config, configEdits>>
    BY <1>6 DEF Execution!Exchanged
  <2>n. PICK new : new = [runs[r] EXCEPT !.at = at2]
    OBVIOUS
  <2>2. runs' = [runs EXCEPT ![r] = new]
    BY <2>1, <2>n
  <2>3. /\ new \in ExecRuns /\ new.at = at2 /\ new.in = runs[r].in
        /\ new.mine = runs[r].mine /\ new.recorded = runs[r].recorded
        /\ new.aborted = runs[r].aborted /\ new.dispatched = runs[r].dispatched
        /\ new.job = runs[r].job
    BY <1>1, <2>n DEF ExecRuns
  <2>4. runs[r].dispatched
    BY <2>1 DEF ExecInv, ExecRunning
  <2> QED
    BY <1>3, <2>1, <2>2, <2>3, <2>4
<1>7. CASE Execution!Settled(r)
  <2>1. runs[r].at \in {"answered", "failed"} /\ UNCHANGED jobs
    BY <1>7 DEF Execution!Settled
  <2>2. CASE runs[r].at = "answered"
    <3>1. TRUE \in BOOLEAN /\ "response" \in Outcomes /\ Execution!Finish(r, "response", TRUE)
      BY <1>7, <2>2 DEF Outcomes, Execution!Settled
    <3> QED
      BY <2>1, <2>2, <3>1, ExecFinishes
  <2>3. CASE runs[r].at = "failed"
    <3>1. Execution!Failed(r)
      BY <1>7, <2>1, <2>3 DEF Execution!Settled, Execution!Failed
    <3> QED
      BY <1>2, <2>3, <3>1
  <2> QED
    BY <2>1, <2>2, <2>3
<1> QED
  BY <1>4, <1>5, <1>6, <1>7

\* A configuration with a token is one, of the same environment.
LEMMA ExecWithToken ==
  ASSUME NEW now \in ExecConfigs, NEW from \in ExecConfigs, NEW e
  PROVE  /\ Execution!WithToken(now, from, e) \in ExecConfigs
         /\ Execution!WithToken(now, from, e).environment = now.environment
<1>1. CASE Inherited
  <2>1. Execution!WithToken(now, from, e) =
            [identity |-> from.identity, preferences |-> from.preferences, token |-> TRUE,
             environment |-> now.environment]
    BY <1>1 DEF Execution!WithToken, ExecConfigs
  <2> QED
    BY <2>1 DEF ExecConfigs
<1>2. CASE ~Inherited /\ now.identity = from.identity /\ now.environment = e
  <2>1. Execution!WithToken(now, from, e) =
            [identity |-> now.identity, preferences |-> now.preferences, token |-> TRUE,
             environment |-> now.environment]
    BY <1>2 DEF Execution!WithToken, ExecConfigs
  <2> QED
    BY <2>1 DEF ExecConfigs
<1>3. CASE ~Inherited /\ ~(now.identity = from.identity /\ now.environment = e)
  BY <1>3 DEF Execution!WithToken
<1> QED
  BY <1>1, <1>2, <1>3

\* A job ends: whoever waits for it goes on or fails, and the workbench that
\* began it waits for nothing.
LEMMA ExecJobEnds ==
  ASSUME ExecInv, NEW j \in DOMAIN jobs, Execution!JobEnds(j)
  PROVE  ExecInv'
<1>m. PICK m : m = jobs[j].in
  OBVIOUS
<1>1. /\ jobs \in Seq(ExecJobs) /\ Len(jobs) \in Nat /\ DOMAIN jobs = 1..Len(jobs)
      /\ jobs[j] \in ExecJobs /\ m \in Execution!Mounts
      /\ refs \in [Execution!Mounts -> ExecRefs] /\ refs[m] \in ExecRefs
      /\ config \in ExecConfigs /\ config.environment < mounts
      /\ runs \in Seq(ExecRuns) /\ Len(runs) \in Nat /\ DOMAIN runs = 1..Len(runs)
  <2>1. /\ jobs \in Seq(ExecJobs) /\ Len(jobs) \in Nat /\ DOMAIN jobs = 1..Len(jobs)
        /\ runs \in Seq(ExecRuns) /\ Len(runs) \in Nat /\ DOMAIN runs = 1..Len(runs)
        /\ config \in ExecConfigs /\ config.environment < mounts
        /\ refs \in [Execution!Mounts -> ExecRefs]
    BY DEF ExecInv, ExecTypes
  <2>2. jobs[j] \in ExecJobs
    BY <2>1
  <2>3. m \in Execution!Mounts
    BY <1>m, <2>2 DEF ExecJobs
  <2> QED
    BY <2>1, <2>2, <2>3
<1>2. PICK ok \in BOOLEAN :
        LET mine == refs[m].job = j
            token == ok /\ mine
            waiting == {r \in DOMAIN runs : runs[r].at = "token" /\ runs[r].job = j} IN
        /\ config' = IF token THEN Execution!WithToken(config, jobs[j].from, refs[m].environment)
                     ELSE config
        /\ refs' = IF mine THEN [refs EXCEPT ![m].job = 0] ELSE refs
        /\ jobs' = [jobs EXCEPT ![j].over = TRUE, ![j].aborted = FALSE,
                                ![j].from = Execution!NoConfig]
        /\ runs' = [r \in DOMAIN runs |->
                       IF r \in waiting
                       THEN [runs[r] EXCEPT !.at = IF token THEN "preparing" ELSE "failed"]
                       ELSE runs[r]]
  BY <1>m DEF Execution!JobEnds, Execution!Nobody
<1>3. UNCHANGED <<mounts, shown, ui, history, configEdits>>
  BY DEF Execution!JobEnds
<1>4. config' \in ExecConfigs /\ config'.environment = config.environment
  <2>1. jobs[j].from \in ExecConfigs
    BY <1>1 DEF ExecJobs
  <2> QED
    BY <1>1, <1>2, <2>1, ExecWithToken
<1>5. \A r \in DOMAIN runs :
        /\ runs'[r] \in ExecRuns
        /\ runs'[r].in = runs[r].in /\ runs'[r].mine = runs[r].mine
        /\ runs'[r].recorded = runs[r].recorded /\ runs'[r].aborted = runs[r].aborted
        /\ runs'[r].dispatched = runs[r].dispatched /\ runs'[r].job = runs[r].job
        /\ \/ runs'[r].at = runs[r].at
           \/ runs[r].at = "token" /\ runs'[r].at \in {"preparing", "failed"}
  <2> TAKE r \in DOMAIN runs
  <2>1. runs[r] \in ExecRuns
    BY ExecAt DEF ExecInv
  <2>2. runs'[r] = runs[r] \/ (runs[r].at = "token" /\ \E a \in {"preparing", "failed"} :
                                   runs'[r] = [runs[r] EXCEPT !.at = a])
    BY <1>2
  <2>3. CASE runs'[r] = runs[r]
    BY <2>1, <2>3
  <2>4. ASSUME NEW a \in {"preparing", "failed"}, runs[r].at = "token",
               runs'[r] = [runs[r] EXCEPT !.at = a]
        PROVE  /\ runs'[r] \in ExecRuns
               /\ runs'[r].in = runs[r].in /\ runs'[r].mine = runs[r].mine
               /\ runs'[r].recorded = runs[r].recorded /\ runs'[r].aborted = runs[r].aborted
               /\ runs'[r].dispatched = runs[r].dispatched /\ runs'[r].job = runs[r].job
               /\ runs[r].at = "token" /\ runs'[r].at \in {"preparing", "failed"}
    BY <2>1, <2>4 DEF ExecRuns
  <2> QED
    BY <2>2, <2>3, <2>4
<1>6. DOMAIN runs' = DOMAIN runs /\ Len(runs') = Len(runs) /\ runs' \in Seq(ExecRuns)
  <2>1. runs' = [r \in 1..Len(runs) |-> runs'[r]]
    BY <1>1, <1>2
  <2>2. \A r \in 1..Len(runs) : runs'[r] \in ExecRuns
    BY <1>1, <1>5
  <2> QED
    BY <1>1, <2>1, <2>2
<1>n. PICK new : new = [jobs[j] EXCEPT !.over = TRUE, !.aborted = FALSE,
                                       !.from = Execution!NoConfig]
  OBVIOUS
<1>7. new \in ExecJobs /\ new.in = m /\ new.over
  <2>1. new = [in |-> m, from |-> Execution!NoConfig, aborted |-> FALSE, over |-> TRUE]
    BY <1>1, <1>m, <1>n DEF ExecJobs
  <2>2. Execution!NoConfig \in ExecConfigs
    BY ExecBounds DEF Execution!NoConfig, ExecConfigs
  <2> QED
    BY <1>1, <2>1, <2>2 DEF ExecJobs
<1>8. /\ jobs' \in Seq(ExecJobs) /\ Len(jobs') = Len(jobs) /\ DOMAIN jobs' = DOMAIN jobs
      /\ jobs'[j] = new /\ \A i \in DOMAIN jobs : i # j => jobs'[i] = jobs[i]
  <2>1. jobs' = [jobs EXCEPT ![j] = new]
    BY <1>1, <1>2, <1>n
  <2> QED
    BY <1>1, <1>7, <2>1
<1>9. /\ refs' \in [Execution!Mounts -> ExecRefs]
      /\ refs[m].job = j => refs'[m].job = 0
      /\ \A n \in Execution!Mounts :
             /\ refs'[n].execution = refs[n].execution /\ refs'[n].sending = refs[n].sending
             /\ refs'[n].cancels = refs[n].cancels /\ refs'[n].seen = refs[n].seen
             /\ refs'[n].environment = refs[n].environment
             /\ refs'[n].job \in {0, refs[n].job}
  <2>1. CASE refs[m].job = j
    <3>f. PICK ref : ref = [refs[m] EXCEPT !.job = 0]
      OBVIOUS
    <3>1. refs' = [refs EXCEPT ![m] = ref]
      BY <1>1, <1>2, <2>1, <3>f
    <3>2. ref = [execution |-> refs[m].execution, sending |-> refs[m].sending,
                 cancels |-> refs[m].cancels, job |-> 0, seen |-> refs[m].seen,
                 environment |-> refs[m].environment]
      BY <1>1, <3>f DEF ExecRefs
    <3>3. ref \in ExecRefs
      BY <1>1, <3>2, ExecBounds DEF ExecRefs
    <3> QED
      BY <1>1, <3>1, <3>2, <3>3
  <2>2. CASE refs[m].job # j
    BY <1>1, <1>2, <2>2
  <2> QED
    BY <2>1, <2>2
<1>10. ExecTypes'
  <2>1. \A r \in DOMAIN runs' : runs'[r].job <= Len(jobs')
    BY <1>5, <1>6, <1>8 DEF ExecInv, ExecTypes
  <2> QED
    BY <1>1, <1>3, <1>4, <1>6, <1>8, <1>9, <2>1 DEF ExecInv, ExecTypes
<1>11. ExecRunning' /\ ExecHistory'
  <2>1. \A r \in DOMAIN runs :
             /\ runs'[r].in = runs[r].in /\ runs'[r].mine = runs[r].mine
             /\ runs'[r].recorded = runs[r].recorded /\ runs'[r].aborted = runs[r].aborted
             /\ runs'[r].at = "over" <=> runs[r].at = "over"
             /\ runs'[r].at \in {"transport", "answered"} => runs'[r].dispatched
             /\ \/ runs'[r].dispatched = runs[r].dispatched
                \/ runs'[r].dispatched /\ runs[r].at # "over" /\ ~runs[r].aborted
    BY <1>5 DEF ExecInv, ExecRunning
  <2>2. UNCHANGED <<ui, history>>
    BY <1>3
  <2> QED
    BY <1>6, <1>9, <2>1, <2>2, ExecSame
<1>12. ExecTokens'
  <2>1. \A n \in Execution!Mounts :
          /\ n > mounts => refs'[n].job = 0
          /\ refs'[n].job # 0 =>
                 /\ refs'[n].job \in DOMAIN jobs'
                 /\ jobs'[refs'[n].job].in = n /\ ~jobs'[refs'[n].job].over
                 /\ jobs'[refs'[n].job].from.environment = refs'[n].environment
    <3> TAKE n \in Execution!Mounts
    <3>1. n > mounts => refs[n].job = 0
      BY DEF ExecInv, ExecTokens
    <3>2. CASE refs'[n].job = 0
      BY <3>2
    <3>3. CASE refs'[n].job # 0
      <4>1. refs'[n].job = refs[n].job /\ refs[n].job # 0
        BY <1>9, <3>3
      <4>2. /\ refs[n].job \in DOMAIN jobs
            /\ jobs[refs[n].job].in = n /\ ~jobs[refs[n].job].over
            /\ jobs[refs[n].job].from.environment = refs[n].environment
        BY <4>1 DEF ExecInv, ExecTokens
      <4>3. refs[n].job # j
        BY <1>9, <1>m, <3>3, <4>1, <4>2
      <4>4. jobs'[refs[n].job] = jobs[refs[n].job] /\ refs[n].job \in DOMAIN jobs'
        BY <1>8, <4>2, <4>3
      <4>5. refs'[n].environment = refs[n].environment
        BY <1>9
      <4> QED
        BY <3>1, <4>1, <4>2, <4>4, <4>5
    <3> QED
      BY <3>2, <3>3
  <2>2. shown' # 0 => refs'[shown'].environment = config'.environment
    <3>1. shown # 0 => shown \in Execution!Mounts
      BY DEF ExecInv, ExecTypes
    <3> QED
      BY <1>3, <1>4, <1>9, <3>1 DEF ExecInv, ExecTokens
  <2>3. \A r \in DOMAIN runs' : runs'[r].in <= mounts'
    BY <1>3, <1>5, <1>6 DEF ExecInv, ExecTokens
  <2>4. \A n \in Execution!Mounts : n < mounts' \/ (n = mounts' /\ shown' = 0) =>
               refs'[n].seen.environment = refs'[n].environment
    BY <1>3, <1>9 DEF ExecInv, ExecTokens
  <2>5. UNCHANGED mounts
    BY <1>3
  <2> QED
    BY <2>1, <2>2, <2>3, <2>4, <2>5 DEF ExecTokens
<1> QED
  BY <1>10, <1>11, <1>12 DEF ExecInv

\* A workbench that waits for a job drops it.
LEMMA ExecDropsJob ==
  ASSUME ExecInv, NEW m \in Execution!Mounts, jobs' = Execution!Aborted(refs[m].job)
  PROVE  /\ jobs' \in Seq(ExecJobs) /\ Len(jobs') = Len(jobs) /\ DOMAIN jobs' = DOMAIN jobs
         /\ \A i \in DOMAIN jobs :
                jobs'[i].in = jobs[i].in /\ jobs'[i].from = jobs[i].from
                /\ (jobs'[i].over <=> jobs[i].over)
<1>1. jobs \in Seq(ExecJobs) /\ Len(jobs) \in Nat /\ DOMAIN jobs = 1..Len(jobs)
  BY DEF ExecInv, ExecTypes
<1>2. refs[m].job # 0 => refs[m].job \in DOMAIN jobs
  BY DEF ExecInv, ExecTokens
<1>3. refs[m].job \in 0..Len(jobs)
  BY <1>1, <1>2
<1> QED
  BY <1>3, ExecAborts DEF ExecInv

\* A workbench without its job.
LEMMA ExecDropped ==
  ASSUME NEW x \in ExecRefs, NEW y, y = [x EXCEPT !.job = 0]
  PROVE  /\ y \in ExecRefs /\ y.execution = x.execution /\ y.sending = x.sending
         /\ y.cancels = x.cancels /\ y.job = 0 /\ y.environment = x.environment
         /\ y.seen = x.seen
<1>1. y = [execution |-> x.execution, sending |-> x.sending, cancels |-> x.cancels,
           job |-> 0, seen |-> x.seen, environment |-> x.environment]
  BY DEF ExecRefs
<1> QED
  BY <1>1, ExecBounds DEF ExecRefs

\* What the user does beside executions: the workbench, its tokens and edits.
LEMMA ExecBeside ==
  ASSUME ExecInv, UNCHANGED <<runs, ui, history>>,
         \A n \in Execution!Mounts :
             /\ refs'[n].execution = refs[n].execution /\ refs'[n].sending = refs[n].sending
             /\ refs'[n].cancels = refs[n].cancels
  PROVE  ExecRunning' /\ ExecHistory'
<1>1. \A r \in DOMAIN runs :
        runs'[r].at \in {"transport", "answered"} => runs'[r].dispatched
  BY DEF ExecInv, ExecRunning
<1> QED
  BY <1>1, ExecSame

\* The user asks for a new token.
LEMMA ExecRefreshes == ASSUME ExecInv, Execution!Refresh PROVE ExecInv'
<1>1. /\ shown # 0 /\ refs[shown].job = 0 /\ Execution!RunJob(shown)
      /\ UNCHANGED <<runs, mounts, shown, ui, history, config, configEdits>>
  BY DEF Execution!Refresh, Execution!Nobody
<1>2. shown \in Execution!Mounts /\ shown <= mounts
  BY <1>1 DEF ExecInv, ExecTypes, Execution!Mounts
<1>3. UNCHANGED <<mounts, shown, config>> /\ DOMAIN runs' = DOMAIN runs
      /\ \A r \in DOMAIN runs : runs'[r].in = runs[r].in
  BY <1>1
<1>4. /\ jobs' \in Seq(ExecJobs) /\ Len(jobs') = Len(jobs) + 1 /\ Len(jobs') <= MaxJobs
      /\ refs' \in [Execution!Mounts -> ExecRefs]
      /\ \A n \in Execution!Mounts :
             /\ refs'[n].execution = refs[n].execution /\ refs'[n].sending = refs[n].sending
             /\ refs'[n].cancels = refs[n].cancels
      /\ ExecTokens'
  BY <1>1, <1>2, <1>3, ExecRunsJob
<1>5. ExecRunning' /\ ExecHistory'
  BY <1>1, <1>4, ExecBeside
<1>6. ExecTypes'
  <2>1. \A r \in DOMAIN runs' : runs'[r].job <= Len(jobs')
    <3> TAKE r \in DOMAIN runs'
    <3>1. r \in DOMAIN runs /\ runs[r] \in ExecRuns
      BY <1>1, ExecAt DEF ExecInv
    <3>2. runs[r].job \in Nat /\ runs[r].job <= Len(jobs) /\ Len(jobs) \in Nat
      BY <3>1 DEF ExecInv, ExecTypes, ExecRuns
    <3> QED
      BY <1>1, <1>4, <3>2
  <2> QED
    BY <1>1, <1>4, <2>1 DEF ExecInv, ExecTypes
<1> QED
  BY <1>4, <1>5, <1>6 DEF ExecInv

\* The user edits the configuration.
LEMMA ExecEdits == ASSUME ExecInv, Execution!Edit PROVE ExecInv'
<1>1. /\ configEdits < MaxConfigEdits /\ configEdits' = configEdits + 1
      /\ UNCHANGED <<runs, mounts, shown, ui, history>>
      /\ \/ /\ config' = [config EXCEPT !.identity = configEdits', !.token = FALSE]
            /\ IF shown = 0 THEN UNCHANGED <<refs, jobs>>
               ELSE /\ jobs' = Execution!Aborted(refs[shown].job)
                    /\ refs' = [refs EXCEPT ![shown].job = 0]
         \/ config' = [config EXCEPT !.preferences = configEdits'] /\ UNCHANGED <<refs, jobs>>
  BY DEF Execution!Edit, Execution!Nobody
<1>2. /\ config \in ExecConfigs /\ configEdits \in 0..MaxConfigEdits
      /\ refs \in [Execution!Mounts -> ExecRefs] /\ jobs \in Seq(ExecJobs)
      /\ shown # 0 => shown \in Execution!Mounts
  BY DEF ExecInv, ExecTypes
<1>3. configEdits' \in 0..MaxConfigEdits
  BY <1>1, <1>2, ExecBounds
<1>4. config' \in ExecConfigs /\ config'.environment = config.environment
  BY <1>1, <1>2, <1>3 DEF ExecConfigs
<1>5. /\ jobs' \in Seq(ExecJobs) /\ Len(jobs') = Len(jobs) /\ DOMAIN jobs' = DOMAIN jobs
      /\ \A i \in DOMAIN jobs :
             jobs'[i].in = jobs[i].in /\ jobs'[i].from = jobs[i].from
             /\ (jobs'[i].over <=> jobs[i].over)
  <2>1. CASE UNCHANGED jobs
    BY <1>2, <2>1
  <2>2. CASE shown # 0 /\ jobs' = Execution!Aborted(refs[shown].job)
    BY <1>2, <2>2, ExecDropsJob
  <2> QED
    BY <1>1, <2>1, <2>2
<1>6. /\ refs' \in [Execution!Mounts -> ExecRefs]
      /\ \A n \in Execution!Mounts :
             /\ refs'[n].execution = refs[n].execution /\ refs'[n].sending = refs[n].sending
             /\ refs'[n].cancels = refs[n].cancels /\ refs'[n].seen = refs[n].seen
             /\ refs'[n].environment = refs[n].environment
             /\ refs'[n].job \in {0, refs[n].job}
  <2>1. CASE UNCHANGED refs
    BY <1>2, <2>1
  <2>2. CASE shown # 0 /\ refs' = [refs EXCEPT ![shown].job = 0]
    <3>f. PICK ref : ref = [refs[shown] EXCEPT !.job = 0]
      OBVIOUS
    <3>1. refs' = [refs EXCEPT ![shown] = ref] /\ refs[shown] \in ExecRefs
      BY <1>2, <2>2, <3>f
    <3>2. /\ ref \in ExecRefs /\ ref.execution = refs[shown].execution
          /\ ref.sending = refs[shown].sending /\ ref.cancels = refs[shown].cancels
          /\ ref.job = 0 /\ ref.environment = refs[shown].environment
          /\ ref.seen = refs[shown].seen
      BY <1>2, <3>1, <3>f, ExecDropped
    <3> QED
      BY <1>2, <2>2, <3>1, <3>2
  <2> QED
    BY <1>1, <2>1, <2>2
<1>7. ExecTypes'
  BY <1>1, <1>3, <1>4, <1>5, <1>6 DEF ExecInv, ExecTypes
<1>8. ExecRunning' /\ ExecHistory'
  BY <1>1, <1>6, ExecBeside
<1>9. ExecTokens'
  <2>1. UNCHANGED <<mounts, shown>> /\ DOMAIN runs' = DOMAIN runs
        /\ \A r \in DOMAIN runs : runs'[r].in = runs[r].in
    BY <1>1
  <2> QED
    BY <1>4, <1>5, <1>6, <2>1, ExecTokensKept
<1> QED
  BY <1>7, <1>8, <1>9 DEF ExecInv

\* The workbench on screen goes, with its job and what it rendered last.
LEMMA ExecUnmounts ==
  ASSUME ExecInv, shown # 0
  PROVE  LET u == [refs EXCEPT ![shown].job = 0, ![shown].seen = config] IN
         /\ Execution!Unmounted = u
         /\ u \in [Execution!Mounts -> ExecRefs]
         /\ \A n \in Execution!Mounts :
                /\ u[n].execution = refs[n].execution /\ u[n].sending = refs[n].sending
                /\ u[n].cancels = refs[n].cancels /\ u[n].environment = refs[n].environment
                /\ u[n].job \in {0, refs[n].job}
                /\ n # shown => u[n].seen = refs[n].seen
         /\ u[shown].seen = config /\ u[shown].job = 0
<1>u. PICK u : u = [refs EXCEPT ![shown].job = 0, ![shown].seen = config]
  OBVIOUS
<1>f. PICK ref : ref = [refs[shown] EXCEPT !.job = 0, !.seen = config]
  OBVIOUS
<1>1. /\ shown \in Execution!Mounts /\ refs[shown] \in ExecRefs /\ config \in ExecConfigs
      /\ refs \in [Execution!Mounts -> ExecRefs]
  BY DEF ExecInv, ExecTypes
<1>2. u = [refs EXCEPT ![shown] = ref]
  BY <1>1, <1>f, <1>u
<1>3. /\ ref \in ExecRefs /\ ref.execution = refs[shown].execution
      /\ ref.sending = refs[shown].sending /\ ref.cancels = refs[shown].cancels
      /\ ref.job = 0 /\ ref.environment = refs[shown].environment
      /\ ref.seen = config
  <2>1. ref = [execution |-> refs[shown].execution, sending |-> refs[shown].sending,
               cancels |-> refs[shown].cancels, job |-> 0, seen |-> config,
               environment |-> refs[shown].environment]
    BY <1>1, <1>f DEF ExecRefs
  <2> QED
    BY <1>1, <2>1, ExecBounds DEF ExecRefs
<1>4. Execution!Unmounted = u
  BY <1>u DEF Execution!Unmounted, Execution!Nobody
<1>5. /\ u \in [Execution!Mounts -> ExecRefs]
      /\ \A n \in Execution!Mounts :
             /\ u[n].execution = refs[n].execution /\ u[n].sending = refs[n].sending
             /\ u[n].cancels = refs[n].cancels /\ u[n].environment = refs[n].environment
             /\ u[n].job \in {0, refs[n].job}
             /\ n # shown => u[n].seen = refs[n].seen
      /\ u[shown].seen = config /\ u[shown].job = 0
  BY <1>1, <1>2, <1>3
<1> QED
  BY <1>u, <1>4, <1>5, Zenon

\* The user leaves the workbench.
LEMMA ExecLeaves == ASSUME ExecInv, Execution!Leave PROVE ExecInv'
<1>1. /\ shown # 0 /\ shown' = 0 /\ jobs' = Execution!Aborted(refs[shown].job)
      /\ refs' = [refs EXCEPT ![shown].job = 0, ![shown].seen = config]
      /\ UNCHANGED <<runs, mounts, ui, history, config, configEdits>>
  BY DEF Execution!Leave, Execution!Nobody, Execution!Unmounted
<1>2. shown \in Execution!Mounts /\ shown = mounts
  BY <1>1 DEF ExecInv, ExecTypes
<1>3. /\ jobs' \in Seq(ExecJobs) /\ Len(jobs') = Len(jobs) /\ DOMAIN jobs' = DOMAIN jobs
      /\ \A i \in DOMAIN jobs :
             jobs'[i].in = jobs[i].in /\ jobs'[i].from = jobs[i].from
             /\ (jobs'[i].over <=> jobs[i].over)
  BY <1>1, <1>2, ExecDropsJob
<1>4. /\ refs' \in [Execution!Mounts -> ExecRefs]
      /\ \A n \in Execution!Mounts :
             /\ refs'[n].execution = refs[n].execution /\ refs'[n].sending = refs[n].sending
             /\ refs'[n].cancels = refs[n].cancels
             /\ refs'[n].environment = refs[n].environment
             /\ refs'[n].job \in {0, refs[n].job}
             /\ n # shown => refs'[n].seen = refs[n].seen
      /\ refs'[shown].seen = config /\ refs'[shown].job = 0
  BY <1>1, ExecUnmounts
<1>5. ExecTypes'
  BY <1>1, <1>3, <1>4 DEF ExecInv, ExecTypes
<1>6. ExecRunning' /\ ExecHistory'
  BY <1>1, <1>4, ExecBeside
<1>7. ExecTokens'
  <2>1. \A n \in Execution!Mounts :
          /\ n > mounts => refs'[n].job = 0
          /\ refs'[n].job # 0 =>
                 /\ refs'[n].job \in DOMAIN jobs'
                 /\ jobs'[refs'[n].job].in = n /\ ~jobs'[refs'[n].job].over
                 /\ jobs'[refs'[n].job].from.environment = refs'[n].environment
    <3> TAKE n \in Execution!Mounts
    <3>1. n > mounts => refs[n].job = 0
      BY DEF ExecInv, ExecTokens
    <3>2. CASE refs'[n].job = 0
      BY <3>2
    <3>3. CASE refs'[n].job # 0
      <4>1. refs'[n].job = refs[n].job /\ refs[n].job # 0
        BY <1>4, <3>3
      <4>2. /\ refs[n].job \in DOMAIN jobs
            /\ jobs[refs[n].job].in = n /\ ~jobs[refs[n].job].over
            /\ jobs[refs[n].job].from.environment = refs[n].environment
        BY <4>1 DEF ExecInv, ExecTokens
      <4> QED
        BY <1>3, <1>4, <3>1, <4>1, <4>2
    <3> QED
      BY <3>2, <3>3
  <2>2. \A n \in Execution!Mounts : n < mounts \/ n = mounts =>
             refs'[n].seen.environment = refs'[n].environment
    <3> TAKE n \in Execution!Mounts
    <3>1. CASE n = shown
      BY <1>1, <1>4, <3>1 DEF ExecInv, ExecTokens
    <3>2. CASE n # shown
      BY <1>2, <1>4, <3>2 DEF ExecInv, ExecTokens
    <3> QED
      BY <3>1, <3>2
  <2>3. \A r \in DOMAIN runs' : runs'[r].in <= mounts'
    BY <1>1 DEF ExecInv, ExecTokens
  <2>4. UNCHANGED mounts /\ shown' = 0
    BY <1>1
  <2> QED
    BY <2>1, <2>2, <2>3, <2>4 DEF ExecTokens
<1> QED
  BY <1>5, <1>6, <1>7 DEF ExecInv

\* The user comes back to the workbench.
LEMMA ExecReturns == ASSUME ExecInv, Execution!Return PROVE ExecInv'
<1>1. /\ shown = 0 /\ mounts < MaxWorkbenches /\ mounts' = mounts + 1 /\ shown' = mounts'
      /\ refs' = [refs EXCEPT ![mounts'].environment = config.environment]
      /\ UNCHANGED <<runs, ui, history, jobs, config, configEdits>>
  BY DEF Execution!Return, Execution!Nobody
<1>m. PICK m : m = mounts'
  OBVIOUS
<1>2. /\ mounts \in Nat /\ m = mounts + 1 /\ m \in Execution!Mounts /\ refs[m] \in ExecRefs
      /\ refs \in [Execution!Mounts -> ExecRefs] /\ config.environment \in 0..MaxWorkbenches
  BY <1>1, <1>m, ExecBounds DEF ExecInv, ExecTypes, Execution!Mounts, ExecConfigs
<1>3. /\ refs' \in [Execution!Mounts -> ExecRefs]
      /\ \A n \in Execution!Mounts :
             /\ refs'[n].execution = refs[n].execution /\ refs'[n].sending = refs[n].sending
             /\ refs'[n].cancels = refs[n].cancels /\ refs'[n].seen = refs[n].seen
             /\ refs'[n].job = refs[n].job
             /\ n # m => refs'[n].environment = refs[n].environment
      /\ refs'[m].environment = config.environment
  <2>f. PICK ref : ref = [refs[m] EXCEPT !.environment = config.environment]
    OBVIOUS
  <2>1. refs' = [refs EXCEPT ![m] = ref]
    BY <1>1, <1>2, <1>m, <2>f
  <2>2. ref = [execution |-> refs[m].execution, sending |-> refs[m].sending,
               cancels |-> refs[m].cancels, job |-> refs[m].job, seen |-> refs[m].seen,
               environment |-> config.environment]
    BY <1>2, <2>f DEF ExecRefs
  <2>3. ref \in ExecRefs
    BY <1>2, <2>2 DEF ExecRefs
  <2> QED
    BY <1>2, <2>1, <2>2, <2>3
<1>4. ExecTypes'
  BY <1>1, <1>2, <1>3, <1>m DEF ExecInv, ExecTypes
<1>5. ExecRunning' /\ ExecHistory'
  BY <1>1, <1>3, ExecBeside
<1>6. ExecTokens'
  <2>1. \A n \in Execution!Mounts :
          /\ n > m => refs'[n].job = 0
          /\ refs'[n].job # 0 =>
                 /\ refs'[n].job \in DOMAIN jobs'
                 /\ jobs'[refs'[n].job].in = n /\ ~jobs'[refs'[n].job].over
                 /\ jobs'[refs'[n].job].from.environment = refs'[n].environment
          /\ n < m => refs'[n].seen.environment = refs'[n].environment
    <3> TAKE n \in Execution!Mounts
    <3>1. n \in Nat /\ (n > mounts => refs[n].job = 0)
      BY DEF ExecInv, ExecTokens, Execution!Mounts
    <3>2. refs'[n].job # 0 => n # m /\ refs[n].job # 0
      BY <1>2, <1>3, <3>1
    <3>3. n < m => n < mounts \/ n = mounts
      BY <1>2, <3>1
    <3>4. n < m => n # m
      BY <1>2, <3>1
    <3>5. n < m => refs'[n].seen.environment = refs'[n].environment
      BY <1>1, <1>3, <3>3, <3>4 DEF ExecInv, ExecTokens
    <3>6. n > m => refs'[n].job = 0
      BY <1>2, <1>3, <3>1
    <3>7. refs'[n].job # 0 =>
                 /\ refs'[n].job \in DOMAIN jobs'
                 /\ jobs'[refs'[n].job].in = n /\ ~jobs'[refs'[n].job].over
                 /\ jobs'[refs'[n].job].from.environment = refs'[n].environment
      BY <1>1, <1>3, <3>2 DEF ExecInv, ExecTokens
    <3> QED
      BY <3>5, <3>6, <3>7
  <2>2. \A r \in DOMAIN runs' : runs'[r].in <= m
    <3> TAKE r \in DOMAIN runs'
    <3>1. r \in DOMAIN runs /\ runs'[r] = runs[r] /\ runs[r].in <= mounts
          /\ runs[r].in \in Execution!Mounts
      BY <1>1, ExecAt DEF ExecInv, ExecTokens
    <3> QED
      BY <1>2, <3>1 DEF Execution!Mounts
  <2>3. m # 0 /\ mounts' = m /\ shown' = m /\ config' = config
    BY <1>1, <1>2, <1>m
  <2> QED
    BY <1>3, <2>1, <2>2, <2>3 DEF ExecTokens
<1> QED
  BY <1>4, <1>5, <1>6 DEF ExecInv

\* The user switches the environment.
LEMMA ExecSwitches == ASSUME ExecInv, Execution!SwitchEnvironment PROVE ExecInv'
<1>u. PICK u : u = [refs EXCEPT ![shown].job = 0, ![shown].seen = config]
  OBVIOUS
<1>m. PICK m : m = mounts'
  OBVIOUS
<1>1. /\ shown # 0 /\ mounts < MaxWorkbenches /\ mounts' = mounts + 1 /\ shown' = mounts'
      /\ jobs' = Execution!Aborted(refs[shown].job)
      /\ config' = [config EXCEPT !.environment = config.environment + 1,
                                  !.token = Inherited /\ config.token]
      /\ refs' = [u EXCEPT ![m].environment = config'.environment]
      /\ UNCHANGED <<runs, ui, history, configEdits>>
  BY <1>u, <1>m DEF Execution!SwitchEnvironment, Execution!Nobody, Execution!Unmounted
<1>2. /\ mounts \in Nat /\ m = mounts + 1 /\ m \in Execution!Mounts /\ config \in ExecConfigs
      /\ shown \in Execution!Mounts /\ shown = mounts /\ config.environment < mounts
      /\ config.environment \in Nat
  <2>1. /\ mounts \in Nat /\ config \in ExecConfigs /\ shown \in Execution!Mounts
        /\ shown = mounts /\ config.environment < mounts
    BY <1>1 DEF ExecInv, ExecTypes, Execution!Mounts
  <2>2. m = mounts + 1 /\ m \in Execution!Mounts
    BY <1>1, <1>m, <2>1, ExecBounds DEF Execution!Mounts
  <2>3. config.environment \in Nat
    BY <2>1 DEF ExecConfigs
  <2> QED
    BY <2>1, <2>2, <2>3
<1>3. /\ config' \in ExecConfigs /\ config'.environment = config.environment + 1
      /\ config'.environment < m /\ config'.environment \in 0..MaxWorkbenches
  <2>1. config' = [identity |-> config.identity, preferences |-> config.preferences,
                   token |-> Inherited /\ config.token,
                   environment |-> config.environment + 1]
    BY <1>1, <1>2 DEF ExecConfigs
  <2>2. (Inherited /\ config.token) \in BOOLEAN
    OBVIOUS
  <2>3. config.environment + 1 \in 0..MaxWorkbenches
    BY <1>1, <1>2, ExecBounds
  <2> QED
    BY <1>2, <2>1, <2>2, <2>3 DEF ExecConfigs
<1>4. /\ jobs' \in Seq(ExecJobs) /\ Len(jobs') = Len(jobs) /\ DOMAIN jobs' = DOMAIN jobs
      /\ \A i \in DOMAIN jobs :
             jobs'[i].in = jobs[i].in /\ jobs'[i].from = jobs[i].from
             /\ (jobs'[i].over <=> jobs[i].over)
  BY <1>1, <1>2, ExecDropsJob
<1>5. /\ u \in [Execution!Mounts -> ExecRefs] /\ u[m] \in ExecRefs
      /\ \A n \in Execution!Mounts :
             /\ u[n].execution = refs[n].execution /\ u[n].sending = refs[n].sending
             /\ u[n].cancels = refs[n].cancels
             /\ u[n].environment = refs[n].environment
             /\ u[n].job \in {0, refs[n].job}
             /\ n # shown => u[n].seen = refs[n].seen
      /\ u[shown].seen = config /\ u[shown].job = 0
  BY <1>1, <1>2, <1>u, ExecUnmounts
<1>6. /\ refs' \in [Execution!Mounts -> ExecRefs]
      /\ \A n \in Execution!Mounts :
             /\ refs'[n].execution = u[n].execution /\ refs'[n].sending = u[n].sending
             /\ refs'[n].cancels = u[n].cancels /\ refs'[n].seen = u[n].seen
             /\ refs'[n].job = u[n].job
             /\ n # m => refs'[n].environment = u[n].environment
      /\ refs'[m].environment = config'.environment
  <2>f. PICK ref : ref = [u[m] EXCEPT !.environment = config'.environment]
    OBVIOUS
  <2>1. refs' = [u EXCEPT ![m] = ref]
    BY <1>1, <1>2, <1>5, <2>f
  <2>2. ref = [execution |-> u[m].execution, sending |-> u[m].sending,
               cancels |-> u[m].cancels, job |-> u[m].job, seen |-> u[m].seen,
               environment |-> config'.environment]
    BY <1>5, <2>f DEF ExecRefs
  <2>3. ref \in ExecRefs
    BY <1>3, <1>5, <2>2 DEF ExecRefs
  <2> QED
    BY <1>2, <1>5, <2>1, <2>2, <2>3
<1>7. ExecTypes'
  BY <1>1, <1>2, <1>3, <1>4, <1>6, <1>m DEF ExecInv, ExecTypes
<1>8. ExecRunning' /\ ExecHistory'
  BY <1>1, <1>5, <1>6, ExecBeside
<1>9. ExecTokens'
  <2>1. \A n \in Execution!Mounts :
          /\ n > m => refs'[n].job = 0
          /\ refs'[n].job # 0 =>
                 /\ refs'[n].job \in DOMAIN jobs'
                 /\ jobs'[refs'[n].job].in = n /\ ~jobs'[refs'[n].job].over
                 /\ jobs'[refs'[n].job].from.environment = refs'[n].environment
          /\ n < m => refs'[n].seen.environment = refs'[n].environment
    <3> TAKE n \in Execution!Mounts
    <3>1. n \in Nat /\ (n > mounts => refs[n].job = 0)
      BY DEF ExecInv, ExecTokens, Execution!Mounts
    <3>2. refs'[n].job # 0 => n # m /\ refs[n].job # 0 /\ refs'[n].job = refs[n].job
      BY <1>2, <1>5, <1>6, <3>1
    <3>3. n < m => n < mounts \/ n = shown
      BY <1>2, <3>1
    <3>4. n < m => n # m
      BY <1>2, <3>1
    <3>5. n < m => refs'[n].seen.environment = refs'[n].environment
      <4>1. CASE n = shown
        BY <1>1, <1>2, <1>5, <1>6, <3>4, <4>1 DEF ExecInv, ExecTokens
      <4>2. CASE n # shown
        BY <1>5, <1>6, <3>3, <3>4, <4>2 DEF ExecInv, ExecTokens
      <4> QED
        BY <4>1, <4>2
    <3>6. n > m => refs'[n].job = 0
      BY <1>2, <1>5, <1>6, <3>1
    <3>7. refs'[n].job # 0 =>
                 /\ refs'[n].job \in DOMAIN jobs'
                 /\ jobs'[refs'[n].job].in = n /\ ~jobs'[refs'[n].job].over
                 /\ jobs'[refs'[n].job].from.environment = refs'[n].environment
      <4> HAVE refs'[n].job # 0
      <4>1. /\ refs[n].job \in DOMAIN jobs
            /\ jobs[refs[n].job].in = n /\ ~jobs[refs[n].job].over
            /\ jobs[refs[n].job].from.environment = refs[n].environment
        BY <3>2 DEF ExecInv, ExecTokens
      <4>2. refs'[n].environment = refs[n].environment /\ refs'[n].job = refs[n].job
        BY <1>5, <1>6, <3>2
      <4> QED
        BY <1>4, <4>1, <4>2
    <3> QED
      BY <3>5, <3>6, <3>7
  <2>2. \A r \in DOMAIN runs' : runs'[r].in <= m
    <3> TAKE r \in DOMAIN runs'
    <3>1. r \in DOMAIN runs /\ runs'[r] = runs[r] /\ runs[r].in <= mounts
          /\ runs[r].in \in Execution!Mounts
      BY <1>1, ExecAt DEF ExecInv, ExecTokens
    <3> QED
      BY <1>2, <3>1 DEF Execution!Mounts
  <2>3. m # 0 /\ mounts' = m /\ shown' = m
    BY <1>1, <1>2, <1>m
  <2> QED
    BY <1>6, <2>1, <2>2, <2>3 DEF ExecTokens
<1> QED
  BY <1>7, <1>8, <1>9 DEF ExecInv

\* Every step of the executions keeps the invariant.
LEMMA ExecStep == ExecInv /\ [Execution!Next]_(Execution!vars) => ExecInv'
<1> SUFFICES ASSUME ExecInv, [Execution!Next]_(Execution!vars) PROVE ExecInv'
  OBVIOUS
<1>1. CASE UNCHANGED Execution!vars
  <2>1. UNCHANGED <<runs, mounts, shown, refs, ui, history, jobs, config, configEdits>>
    BY <1>1 DEF Execution!vars
  <2>2. ExecTypes'
    BY <2>1 DEF ExecInv, ExecTypes
  <2>3. ExecRunning' /\ ExecHistory'
    BY <2>1, ExecBeside
  <2>4. ExecTokens'
    BY <2>1 DEF ExecInv, ExecTokens
  <2> QED
    BY <2>2, <2>3, <2>4 DEF ExecInv
<1>2. ASSUME NEW r \in Execution!Runs, Execution!Progress(r) PROVE ExecInv'
  BY <1>2, ExecProgress DEF Execution!Progress
<1>3. ASSUME NEW j \in Execution!Jobs, Execution!JobProgress(j) PROVE ExecInv'
  BY <1>3, ExecJobEnds DEF Execution!JobProgress
<1> QED
  BY <1>1, <1>2, <1>3, ExecSends, ExecCancels, ExecRefreshes, ExecEdits, ExecLeaves,
     ExecReturns, ExecSwitches
  DEF Execution!Next

\* The executions keep their invariant in every behaviour.
LEMMA ExecKeeps == Clients => []ExecInv
<1>1. ClientsInit => Execution!Init
  BY DEF ClientsInit
<1> QED
  BY <1>1, ExecMoves, ExecStarts, ExecStep, PTL DEF Clients

\* The state of executions stays of its types.
LEMMA ExecTyped == ExecInv => Execution!TypeOK
<1> SUFFICES ASSUME ExecInv PROVE Execution!TypeOK
  OBVIOUS
<1>1. \A r \in DOMAIN runs :
        /\ runs[r].at \in {"resolving", "token", "preparing", "transport",
                           "answered", "failed", "over"}
        /\ runs[r].in \in Execution!Mounts /\ runs[r].job \in 0..Len(jobs)
  <2> TAKE r \in DOMAIN runs
  <2>1. runs[r] \in ExecRuns /\ runs[r].job <= Len(jobs)
    BY ExecAt DEF ExecInv, ExecTypes
  <2> QED
    BY <2>1 DEF ExecRuns
<1>2. ui.sending <=> \E m \in Execution!Mounts : refs[m].sending
  BY DEF ExecInv, ExecRunning
<1>3. ui.sending <=> ui.cancel # 0
  BY DEF ExecInv, ExecRunning, Execution!Mounts
<1> QED
  BY <1>1, <1>2, <1>3
  DEF ExecInv, ExecTypes, ExecConfigs, Execution!TypeOK, Execution!Nobody

\* Only an execution that counts is shown, when it is answered.
LEMMA ExecShows ==
  ASSUME ExecInv, Execution!Next, ui'.response # ui.response
  PROVE  /\ ui'.response = Len(runs) /\ ~runs[ui'.response].aborted /\ ui.sending
<1>0. /\ ui \in [sending : BOOLEAN, response : 0..MaxSends, cancel : 0..MaxWorkbenches]
  BY DEF ExecInv, ExecTypes
<1>1. ASSUME NEW r \in DOMAIN runs, NEW o, NEW shows \in BOOLEAN, runs[r].at # "over",
             Execution!Finish(r, o, shows)
      PROVE  ui'.response = Len(runs) /\ ~runs[ui'.response].aborted /\ ui.sending
  <2>1. ExecCounts(r)
    BY <1>1 DEF Execution!Finish, Execution!Superseded, ExecCounts
  <2>2. ui'.response = IF shows THEN r ELSE ui.response
    BY <1>1, <2>1 DEF Execution!Finish, Execution!Superseded, ExecCounts
  <2>3. ui'.response = r
    BY <2>2
  <2> QED
    BY <2>1, <2>3 DEF ExecInv, ExecRunning
<1>2. ASSUME NEW r \in DOMAIN runs, Execution!Failed(r), runs[r].at # "over"
      PROVE  ui'.response = Len(runs) /\ ~runs[ui'.response].aborted /\ ui.sending
  BY <1>1, <1>2 DEF Execution!Failed
<1>3. ASSUME NEW r \in DOMAIN runs, Execution!Progress(r)
      PROVE  ui'.response = Len(runs) /\ ~runs[ui'.response].aborted /\ ui.sending
  <2>1. CASE Execution!Resolved(r)
    BY <1>2, <2>1 DEF Execution!Resolved
  <2>2. CASE Execution!Prepared(r)
    BY <1>2, <2>2 DEF Execution!Prepared
  <2>3. CASE Execution!Exchanged(r)
    BY <2>3 DEF Execution!Exchanged
  <2>4. CASE Execution!Settled(r)
    BY <1>1, <2>4, Zenon DEF Execution!Settled
  <2> QED
    BY <1>3, <2>1, <2>2, <2>3, <2>4 DEF Execution!Progress
<1>4. ~Execution!Send
  BY <1>0, Zenon DEF Execution!Send
<1>5. ~Execution!Cancel
  BY <1>0, Zenon DEF Execution!Cancel
<1>6. \A j : ~Execution!JobEnds(j)
  BY DEF Execution!JobEnds
<1> QED
  BY <1>3, <1>4, <1>5, <1>6
  DEF Execution!Next, Execution!Refresh, Execution!Edit, Execution!Leave, Execution!Return,
      Execution!SwitchEnvironment, Execution!Progress, Execution!JobProgress

\* Every execution that went to the network is in the history exactly once when
\* it is over, as what the user saw of it; only the one that counts is shown.
THEOREM ExecutionsAreRecorded == Clients => ShownAndRecorded
<1>1. ExecInv => Execution!RecordedOnce
  <2> SUFFICES ASSUME ExecInv PROVE Execution!RecordedOnce
    OBVIOUS
  <2>1. \A r \in DOMAIN runs : r \in Execution!Runs
    BY ExecAt DEF ExecInv
  <2>2. \A r \in DOMAIN runs :
          /\ Len(history[r]) = IF runs[r].recorded THEN 1 ELSE 0
          /\ runs[r].recorded => runs[r].dispatched
          /\ ui.response = r => history[r] = <<"response">>
          /\ runs[r].at = "over" /\ runs[r].dispatched => runs[r].recorded
    BY <2>1 DEF ExecInv, ExecHistory, ExecRunning
  <2>3. ASSUME NEW r \in DOMAIN runs
        PROVE  /\ Len(history[r]) <= IF runs[r].dispatched THEN 1 ELSE 0
               /\ runs[r].at = "over" /\ runs[r].dispatched => Len(history[r]) = 1
               /\ ui.response = r => history[r] = <<"response">>
    <3>1. CASE runs[r].recorded
      <4>1. Len(history[r]) = 1 /\ runs[r].dispatched
        BY <2>2, <3>1
      <4> QED
        BY <2>2, <4>1
    <3>2. CASE ~runs[r].recorded
      <4>1. Len(history[r]) = 0
        BY <2>2, <3>2
      <4>2. Len(history[r]) <= IF runs[r].dispatched THEN 1 ELSE 0
        BY <4>1
      <4> QED
        BY <2>2, <3>2, <4>2
    <3> QED
      BY <3>1, <3>2
  <2> QED
    BY <2>3 DEF Execution!RecordedOnce
<1>2. ExecInv /\ [Execution!Next]_(Execution!vars) =>
          [ui'.response # ui.response =>
              LET r == ui'.response IN
              r = Len(runs) /\ ~runs[r].aborted /\ ui.sending]_(Execution!vars)
  BY ExecShows
<1>3. Clients => []Execution!RecordedOnce
  BY <1>1, ExecKeeps, PTL
<1>4. Clients => Execution!OnlyCurrentShown
  BY <1>2, ExecMoves, ExecKeeps, PTL DEF Clients, Execution!OnlyCurrentShown
<1>5. Clients => [](part = "execution" => Execution!RecordedOnce)
  BY <1>3, PTL
<1> QED
  BY <1>4, <1>5, PTL DEF ShownAndRecorded

\* Jobs end by JobEnds alone.
LEMMA ExecJobsStay ==
  ASSUME ExecInv, Execution!Next, NEW j \in DOMAIN jobs, ~jobs[j].over, jobs'[j].over
  PROVE  Execution!JobEnds(j)
<1>1. /\ jobs \in Seq(ExecJobs) /\ DOMAIN jobs = 1..Len(jobs) /\ Len(jobs) \in Nat
      /\ jobs[j] \in ExecJobs
      /\ shown # 0 => shown \in Execution!Mounts
  BY DEF ExecInv, ExecTypes
<1>2. ~UNCHANGED jobs
  OBVIOUS
<1>3. ASSUME NEW m, Execution!RunJob(m) PROVE FALSE
  <2>1. PICK x : jobs' = Append(jobs, x)
    BY <1>3 DEF Execution!RunJob
  <2> QED
    BY <1>1, <2>1
<1>4. ASSUME NEW m \in Execution!Mounts, jobs' = Execution!Aborted(refs[m].job) PROVE FALSE
  BY <1>4, ExecDropsJob
<1>5. CASE Execution!Send
  BY <1>2, <1>5 DEF Execution!Send
<1>6. CASE Execution!Cancel
  <2>1. ui.sending => ui.cancel \in Execution!Mounts
    BY DEF ExecInv, ExecRunning
  <2>2. \E m \in Execution!Mounts : jobs' = Execution!Aborted(refs[m].job)
    <3>1. PICK m : m = IF refs[shown].sending THEN shown ELSE ui.cancel
      BY Zenon
    <3>s. ui.sending /\ shown # 0
      BY <1>6, Zenon DEF Execution!Cancel, Execution!Nobody
    <3>2. m \in Execution!Mounts
      BY <1>1, <2>1, <3>1, <3>s, Zenon
    <3>3. jobs' = Execution!Aborted(refs[m].job)
      BY <1>6, <3>1, Zenon DEF Execution!Cancel
    <3> QED
      BY <3>2, <3>3
  <2> QED
    BY <1>4, <2>2
<1>7. CASE Execution!Refresh
  BY <1>3, <1>7 DEF Execution!Refresh
<1>8. CASE Execution!Edit
  BY <1>1, <1>2, <1>4, <1>8 DEF Execution!Edit, Execution!Nobody
<1>9. CASE Execution!Leave \/ Execution!SwitchEnvironment
  BY <1>1, <1>4, <1>9 DEF Execution!Leave, Execution!SwitchEnvironment, Execution!Nobody
<1>10. CASE Execution!Return
  BY <1>2, <1>10 DEF Execution!Return
<1>11. ASSUME NEW r \in Execution!Runs, Execution!Progress(r) PROVE FALSE
  BY <1>2, <1>3, <1>11
  DEF Execution!Progress, Execution!Resolved, Execution!Prepared, Execution!Exchanged,
      Execution!Settled, Execution!Failed
<1>12. ASSUME NEW i \in Execution!Jobs, Execution!JobProgress(i) PROVE Execution!JobEnds(j)
  <2>1. Execution!JobEnds(i) /\ i \in DOMAIN jobs
    BY <1>12 DEF Execution!JobProgress
  <2>2. i # j => jobs'[j] = jobs[j]
    BY <1>1, <2>1 DEF Execution!JobEnds
  <2> QED
    BY <2>1, <2>2
<1> QED
  BY <1>5, <1>6, <1>7, <1>8, <1>9, <1>10, <1>11, <1>12 DEF Execution!Next

\* A token that arrives for the document's own configuration adds itself to the
\* configuration it was asked for, or changes nothing.  One for an inherited
\* configuration can take the place of a profile edited meanwhile.
LEMMA ExecLateTokens ==
  ASSUME ~Inherited, ExecInv, Execution!Next, NEW j \in DOMAIN jobs,
         ~jobs[j].over, jobs'[j].over
  PROVE  /\ config' = [config EXCEPT !.token = config'.token]
         /\ config' # config =>
               /\ jobs[j].from.identity = config.identity
               /\ Inherited \/ jobs[j].from.environment = config.environment
<1>1. Execution!JobEnds(j)
  BY ExecJobsStay
<1>m. PICK m : m = jobs[j].in
  OBVIOUS
<1>2. config \in ExecConfigs /\ m \in Execution!Mounts
  <2>1. jobs \in Seq(ExecJobs) /\ config \in ExecConfigs
    BY DEF ExecInv, ExecTypes
  <2>2. jobs[j] \in ExecJobs
    BY <2>1
  <2> QED
    BY <1>m, <2>1, <2>2 DEF ExecJobs
<1>3. CASE config' = config
  <2>1. config = [config EXCEPT !.token = config.token]
    BY <1>2 DEF ExecConfigs
  <2> QED
    BY <1>3, <2>1
<1>4. CASE config' # config
  <2>1. /\ refs[m].job = j
        /\ config' = Execution!WithToken(config, jobs[j].from, refs[m].environment)
    BY <1>1, <1>4, <1>m DEF Execution!JobEnds
  <2>2. /\ config.identity = jobs[j].from.identity /\ config.environment = refs[m].environment
        /\ config' = [config EXCEPT !.token = TRUE]
    BY <1>4, <2>1 DEF Execution!WithToken
  <2>3. jobs[j].from.environment = refs[m].environment
    <3>1. j # 0
      BY DEF ExecInv, ExecTypes
    <3> QED
      BY <1>2, <2>1, <3>1 DEF ExecInv, ExecTokens
  <2>4. config' = [config EXCEPT !.token = config'.token]
    BY <1>2, <2>2 DEF ExecConfigs
  <2> QED
    BY <2>2, <2>3, <2>4
<1> QED
  BY <1>3, <1>4

\* Where no profile is inherited, a token that arrives late replaces no edit
\* the user made meanwhile.
LEMMA ExecKeepsEdits == ~Inherited => (Clients => Execution!LateTokenKeepsEdits)
<1> SUFFICES ASSUME ~Inherited PROVE Clients => Execution!LateTokenKeepsEdits
  OBVIOUS
<1>1. ExecInv /\ [Execution!Next]_(Execution!vars) =>
        [\A j \in DOMAIN jobs : ~jobs[j].over /\ jobs'[j].over =>
            /\ config' = [config EXCEPT !.token = config'.token]
            /\ config' # config =>
                  /\ jobs[j].from.identity = config.identity
                  /\ Inherited \/ jobs[j].from.environment = config.environment
        ]_(Execution!vars)
  BY ExecLateTokens
<1> QED
  BY <1>1, ExecMoves, ExecKeeps, PTL DEF Clients, Execution!LateTokenKeepsEdits
-----------------------------------------------------------------------------
(* Grants.  Whoever listens on the port is the one job that may be answered, *)
(* and what a job asks for, is issued and gives in follows from the way it   *)
(* was begun.                                                                *)

\* A step of a grant is taken by the grants, and the others leave them alone.
LEMMA GrantMoves == [ClientsNext]_allVars => [Grant!Next]_(Grant!vars)
  BY DEF ClientsNext, OfSession, OfExecution, OfChain, OfSecret, OfVariables, OfExit,
         OfSchema, OfGrant, OfTransfer, Only, networkVars, grantVars, allVars, Grant!vars

GrantInputs ==
    {"client-id", "token-url", "secret", "scopes", "refresh-token", "authorization-url",
     "redirect-uri"}
GrantTokens == [client : Users \cup {None}, refresh : BOOLEAN]
GrantJobs ==
    [at : {"resolving", "asked", "registered", "listening", "answered", "exchanging", "over"},
     client : Users, code : Nat, aborted : BOOLEAN, authorize : BOOLEAN, refresh : BOOLEAN,
     inputs : SUBSET GrantInputs]

\* How a job got where it is: only one with the user's consent asked for a
\* page, and the code it holds is its own.
GrantOf(j, x) ==
    /\ x.authorize => ~x.refresh
    /\ x.at \in {"asked", "registered", "listening", "answered"} => x.authorize
    /\ x.at \in {"asked", "registered", "listening", "answered", "exchanging"} =>
           x.inputs = Grant!Selected(x.authorize, x.refresh)
    /\ x.at \in {"resolving", "asked", "registered", "listening"} => x.code = 0
    /\ x.at = "answered" => x.code = j
    /\ x.at = "exchanging" => x.code = IF x.authorize THEN j ELSE 0
    /\ x.code \in {0, j}

GrantTypes ==
    /\ oauth \in [client : Users, token : GrantTokens] /\ rendered \in Users
    /\ grants \in Seq(GrantJobs) /\ Len(grants) <= MaxGrants
    /\ awaited \in 0..Len(grants) /\ port \in 0..Len(grants)
    /\ oauthEdits \in 0..MaxOAuthEdits
    /\ exchanged \in [Grant!Jobs -> Seq(Nat)]
    /\ Grant!TokenBelongs

\* The port is the listener's, who can be told to stop or was, and a code that
\* was given in is not given in again.
GrantJobsInv ==
    /\ \A j \in DOMAIN grants :
        /\ GrantOf(j, grants[j])
        /\ grants[j].at = "listening" <=> port = j
        /\ grants[j].at \in {"registered", "listening"} => j \in callbacks \cup signalled
    /\ \A t \in Grant!Jobs :
        /\ exchanged[t] \in {<<>>, <<t>>}
        /\ exchanged[t] # <<>> =>
               t \in DOMAIN grants /\ grants[t].at \in {"exchanging", "over"}

GrantInv == GrantTypes /\ GrantJobsInv

\* The types of a job.
LEMMA GrantAt ==
  ASSUME GrantTypes, NEW j \in DOMAIN grants
  PROVE  /\ grants[j] \in GrantJobs /\ j \in Grant!Jobs /\ j \in 1..Len(grants) /\ j # 0
<1>1. grants \in Seq(GrantJobs) /\ Len(grants) <= MaxGrants
  BY DEF GrantTypes
<1>2. grants[j] \in GrantJobs /\ j \in 1..Len(grants) /\ Len(grants) \in Nat
  BY <1>1
<1> QED
  <2>1. MaxGrants \in Nat
    BY ClientsAssumption
  <2> QED
    BY <1>1, <1>2, <2>1 DEF Grant!Jobs

\* The first state of the grants satisfies the invariant.
LEMMA GrantStarts == Grant!Init => GrantInv
<1> SUFFICES ASSUME Grant!Init PROVE GrantInv
  OBVIOUS
<1>1. grants = <<>> /\ awaited = 0 /\ port = 0 /\ oauthEdits = 0 /\ rendered = oauth.client
      /\ exchanged = [j \in Grant!Jobs |-> <<>>]
  BY DEF Grant!Init, Grant!Nobody
<1>2. Grant!NoToken \in GrantTokens
  BY DEF Grant!NoToken, GrantTokens
<1>3. oauth \in [client : Users, token : GrantTokens] /\ Grant!TokenBelongs
  <2>1. \/ \E c \in Users : oauth = [client |-> c, token |-> Grant!NoToken]
        \/ \E c \in Users, r \in BOOLEAN :
               oauth = [client |-> c, token |-> [client |-> c, refresh |-> r]]
    BY DEF Grant!Init
  <2>2. ASSUME NEW c \in Users, oauth = [client |-> c, token |-> Grant!NoToken]
        PROVE  oauth \in [client : Users, token : GrantTokens] /\ Grant!TokenBelongs
    BY <1>2, <2>2 DEF Grant!TokenBelongs, Grant!HasToken
  <2>3. ASSUME NEW c \in Users, NEW r \in BOOLEAN,
               oauth = [client |-> c, token |-> [client |-> c, refresh |-> r]]
        PROVE  oauth \in [client : Users, token : GrantTokens] /\ Grant!TokenBelongs
    BY <2>3 DEF Grant!TokenBelongs, Grant!HasToken, GrantTokens
  <2> QED
    BY <2>1, <2>2, <2>3
<1>4. GrantTypes
  BY <1>1, <1>3, ClientsAssumption DEF GrantTypes
<1>5. GrantJobsInv
  BY <1>1 DEF GrantJobsInv
<1> QED
  BY <1>4, <1>5 DEF GrantInv

\* A step of one job, with what it does to the port, the commands and the codes.
LEMMA GrantChanges ==
  ASSUME GrantInv, NEW j \in DOMAIN grants, NEW new \in GrantJobs,
         grants' = [grants EXCEPT ![j] = new], GrantOf(j, new),
         new.at = "listening" <=> port' = j, port' \in 0..Len(grants),
         \A i \in DOMAIN grants : i # j =>
             /\ port' = i <=> port = i
             /\ i \in callbacks \cup signalled => i \in callbacks' \cup signalled',
         new.at \in {"registered", "listening"} => j \in callbacks' \cup signalled',
         exchanged' \in [Grant!Jobs -> Seq(Nat)],
         \A t \in Grant!Jobs : t # j => exchanged'[t] = exchanged[t],
         exchanged'[j] \in {<<>>, <<j>>},
         exchanged'[j] # <<>> => new.at \in {"exchanging", "over"},
         oauth' \in [client : Users, token : GrantTokens], rendered' \in Users,
         awaited' \in 0..Len(grants), oauthEdits' \in 0..MaxOAuthEdits, Grant!TokenBelongs'
  PROVE  GrantInv'
<1>1. grants \in Seq(GrantJobs) /\ Len(grants) <= MaxGrants
  BY DEF GrantInv, GrantTypes
<1>2. /\ grants' \in Seq(GrantJobs) /\ Len(grants') = Len(grants) /\ DOMAIN grants' = DOMAIN grants
      /\ grants'[j] = new /\ \A i \in DOMAIN grants : i # j => grants'[i] = grants[i]
  BY <1>1
<1>3. GrantTypes'
  BY <1>1, <1>2 DEF GrantTypes
<1>4. \A i \in DOMAIN grants' :
        /\ GrantOf(i, grants'[i])
        /\ grants'[i].at = "listening" <=> port' = i
        /\ grants'[i].at \in {"registered", "listening"} => i \in callbacks' \cup signalled'
  <2> TAKE i \in DOMAIN grants'
  <2>1. CASE i = j
    BY <1>2, <2>1
  <2>2. CASE i # j
    <3>1. grants'[i] = grants[i] /\ i \in DOMAIN grants
      BY <1>2, <2>2
    <3> QED
      BY <2>2, <3>1 DEF GrantInv, GrantJobsInv
  <2> QED
    BY <2>1, <2>2
<1>5. \A t \in Grant!Jobs :
        /\ exchanged'[t] \in {<<>>, <<t>>}
        /\ exchanged'[t] # <<>> =>
               t \in DOMAIN grants' /\ grants'[t].at \in {"exchanging", "over"}
  <2> TAKE t \in Grant!Jobs
  <2>1. CASE t = j
    BY <1>2, <2>1
  <2>2. CASE t # j
    BY <1>2, <2>2 DEF GrantInv, GrantJobsInv
  <2> QED
    BY <2>1, <2>2
<1>6. GrantJobsInv'
  <2>1. \A i \in DOMAIN grants' : GrantOf(i, grants'[i]) = GrantOf(i, grants[i])'
    BY DEF GrantOf, Grant!Selected
  <2> QED
    BY <1>4, <1>5 DEF GrantJobsInv, GrantOf, Grant!Selected
<1> QED
  BY <1>3, <1>6 DEF GrantInv

\* Codes that are not given in by the step of a job that did not give in its own.
LEMMA GrantCodes ==
  ASSUME GrantInv, NEW j \in DOMAIN grants, UNCHANGED exchanged
  PROVE  /\ exchanged' \in [Grant!Jobs -> Seq(Nat)]
         /\ \A t \in Grant!Jobs : exchanged'[t] = exchanged[t]
         /\ exchanged'[j] \in {<<>>, <<j>>}
         /\ grants[j].at \notin {"exchanging", "over"} => exchanged'[j] = <<>>
<1>1. j \in Grant!Jobs
  BY GrantAt DEF GrantInv
<1> QED
  BY <1>1 DEF GrantInv, GrantTypes, GrantJobsInv

\* What the user does: the job that is waited for is abandoned, or none is.
LEMMA GrantAbandons ==
  ASSUME GrantInv, Grant!Abandoned \/ UNCHANGED <<grants, awaited>>,
         UNCHANGED <<callbacks, signalled, port, exchanged>>,
         oauth' \in [client : Users, token : GrantTokens], rendered' \in Users,
         oauthEdits' \in 0..MaxOAuthEdits, Grant!TokenBelongs'
  PROVE  GrantInv'
<1>1. CASE UNCHANGED <<grants, awaited>>
  <2>1. GrantTypes'
    BY <1>1 DEF GrantInv, GrantTypes
  <2>2. GrantJobsInv'
    BY <1>1 DEF GrantInv, GrantJobsInv, GrantOf, Grant!Selected
  <2> QED
    BY <2>1, <2>2 DEF GrantInv
<1>2. CASE Grant!Abandoned
  <2>j. PICK j : j = awaited
    OBVIOUS
  <2>1. /\ j # 0 /\ awaited' = 0
        /\ grants' = [grants EXCEPT ![j].aborted = grants[j].at # "over"]
    BY <1>2, <2>j DEF Grant!Abandoned, Grant!Nobody
  <2>2. /\ j \in DOMAIN grants /\ grants \in Seq(GrantJobs) /\ Len(grants) \in Nat
        /\ DOMAIN grants = 1..Len(grants)
    BY <2>1, <2>j DEF GrantInv, GrantTypes
  <2>n. PICK new : new = [grants[j] EXCEPT !.aborted = grants[j].at # "over"]
    OBVIOUS
  <2>3. grants' = [grants EXCEPT ![j] = new] /\ grants[j] \in GrantJobs
    BY <2>1, <2>2, <2>n
  <2>4. /\ new \in GrantJobs /\ new.at = grants[j].at /\ new.code = grants[j].code
        /\ new.authorize = grants[j].authorize /\ new.refresh = grants[j].refresh
        /\ new.inputs = grants[j].inputs
    <3>1. new = [at |-> grants[j].at, client |-> grants[j].client, code |-> grants[j].code,
                 aborted |-> grants[j].at # "over", authorize |-> grants[j].authorize,
                 refresh |-> grants[j].refresh, inputs |-> grants[j].inputs]
      BY <2>3, <2>n DEF GrantJobs
    <3>2. (grants[j].at # "over") \in BOOLEAN
      OBVIOUS
    <3> QED
      BY <2>3, <3>1, <3>2 DEF GrantJobs
  <2>5. GrantOf(j, new)
    BY <2>2, <2>4 DEF GrantInv, GrantJobsInv, GrantOf
  <2>6. /\ new.at = "listening" <=> port' = j
        /\ new.at \in {"registered", "listening"} => j \in callbacks' \cup signalled'
        /\ \A i \in DOMAIN grants : i # j =>
             /\ port' = i <=> port = i
             /\ i \in callbacks \cup signalled => i \in callbacks' \cup signalled'
    BY <2>2, <2>4 DEF GrantInv, GrantJobsInv
  <2>7. port' \in 0..Len(grants) /\ awaited' \in 0..Len(grants)
    BY <2>1, <2>2 DEF GrantInv, GrantTypes
  <2>8. exchanged'[j] # <<>> => new.at \in {"exchanging", "over"}
    BY <2>2, <2>4, GrantCodes
  <2>9. /\ exchanged' \in [Grant!Jobs -> Seq(Nat)]
        /\ \A t \in Grant!Jobs : t # j => exchanged'[t] = exchanged[t]
        /\ exchanged'[j] \in {<<>>, <<j>>}
    BY <2>2, GrantCodes
  <2> QED
    BY <2>2, <2>3, <2>4, <2>5, <2>6, <2>7, <2>8, <2>9, GrantChanges
<1> QED
  BY <1>1, <1>2

\* A job that ends and gives the port back, if it had it.
LEMMA GrantEnds ==
  ASSUME GrantInv, NEW j \in DOMAIN grants, Grant!Ends(j), UNCHANGED exchanged,
         \/ grants[j].at # "listening" /\ UNCHANGED <<callbacks, signalled, port>>
         \/ Grant!NativeEnds(j),
         oauth' \in [client : Users, token : GrantTokens], rendered' \in Users,
         oauthEdits' \in 0..MaxOAuthEdits, Grant!TokenBelongs'
  PROVE  GrantInv'
<1>1. /\ grants[j] \in GrantJobs /\ grants \in Seq(GrantJobs) /\ Len(grants) \in Nat
      /\ DOMAIN grants = 1..Len(grants) /\ j # 0
  BY GrantAt DEF GrantInv, GrantTypes
<1>n. PICK new : new = [grants[j] EXCEPT !.at = "over", !.inputs = {}, !.aborted = FALSE]
  OBVIOUS
<1>2. grants' = [grants EXCEPT ![j] = new]
  BY <1>n DEF Grant!Ends, Grant!Over
<1>3. /\ new \in GrantJobs /\ new.at = "over" /\ new.code = grants[j].code
      /\ new.authorize = grants[j].authorize /\ new.refresh = grants[j].refresh
  <2>1. new = [at |-> "over", client |-> grants[j].client, code |-> grants[j].code,
               aborted |-> FALSE, authorize |-> grants[j].authorize,
               refresh |-> grants[j].refresh, inputs |-> {}]
    BY <1>1, <1>n DEF GrantJobs
  <2> QED
    BY <1>1, <2>1 DEF GrantJobs
<1>4. GrantOf(j, new)
  BY <1>3 DEF GrantInv, GrantJobsInv, GrantOf
<1>5. port' # j /\ port' \in 0..Len(grants) /\ awaited' \in 0..Len(grants)
  BY <1>1 DEF Grant!Ends, Grant!NativeEnds, Grant!Nobody, GrantInv, GrantTypes, GrantJobsInv
<1>6. \A i \in DOMAIN grants : i # j =>
             /\ port' = i <=> port = i
             /\ i \in callbacks \cup signalled => i \in callbacks' \cup signalled'
  BY <1>1 DEF Grant!NativeEnds, Grant!Nobody
<1>7. /\ exchanged' \in [Grant!Jobs -> Seq(Nat)]
      /\ \A t \in Grant!Jobs : t # j => exchanged'[t] = exchanged[t]
      /\ exchanged'[j] \in {<<>>, <<j>>}
  BY GrantCodes
<1> QED
  BY <1>2, <1>3, <1>4, <1>5, <1>6, <1>7, GrantChanges

\* The codes, the token and the edits, with the step of a job that does not
\* touch them.
LEMMA GrantQuietly ==
  ASSUME GrantInv, UNCHANGED <<oauth, rendered, oauthEdits, exchanged>>
  PROVE  /\ oauth' \in [client : Users, token : GrantTokens] /\ rendered' \in Users
         /\ oauthEdits' \in 0..MaxOAuthEdits /\ Grant!TokenBelongs'
  BY DEF GrantInv, GrantTypes, Grant!TokenBelongs, Grant!HasToken

\* A new job: nothing was given in for it yet.
LEMMA GrantRuns ==
  ASSUME GrantInv, NEW action, Grant!Run(action) PROVE GrantInv'
<1>l. PICK l : l = Len(grants)
  OBVIOUS
<1>n. PICK new : new =
           [at |-> "resolving", client |-> oauth.client, code |-> 0, aborted |-> FALSE,
            authorize |-> action = "initial" /\ oauth.client \in Consent,
            refresh |-> action = "refresh" /\ oauth.token.refresh, inputs |-> {}]
  OBVIOUS
<1>1. /\ l < MaxGrants /\ grants' = Append(grants, new) /\ awaited' = Len(grants')
      /\ UNCHANGED <<oauth, rendered, unavailable, stops, exchanged, oauthEdits>>
      /\ UNCHANGED <<callbacks, signalled, port, pages>>
  BY <1>l, <1>n DEF Grant!Run, Grant!native, Grant!Nobody
<1>2. grants \in Seq(GrantJobs) /\ l \in Nat /\ MaxGrants \in Nat
  BY <1>l, ClientsAssumption DEF GrantInv, GrantTypes
<1>3. new \in GrantJobs
  <2>1. oauth.client \in Users /\ oauth.token.refresh \in BOOLEAN
    BY DEF GrantInv, GrantTypes, GrantTokens
  <2>2. /\ (action = "initial" /\ oauth.client \in Consent) \in BOOLEAN
        /\ (action = "refresh" /\ oauth.token.refresh) \in BOOLEAN
    BY <2>1
  <2> QED
    BY <1>n, <2>1, <2>2 DEF GrantJobs
<1>4. /\ grants' \in Seq(GrantJobs) /\ Len(grants') = l + 1 /\ grants'[l + 1] = new
      /\ DOMAIN grants = 1..l /\ DOMAIN grants' = 1..(l + 1)
      /\ \A j \in 1..l : grants'[j] = grants[j]
  BY <1>l, <1>1, <1>2, <1>3
<1>5. GrantTypes'
  <2>1. oauth' \in [client : Users, token : GrantTokens] /\ rendered' \in Users
        /\ oauthEdits' \in 0..MaxOAuthEdits /\ Grant!TokenBelongs'
    BY <1>1, GrantQuietly
  <2>2. awaited' \in 0..Len(grants') /\ port' \in 0..Len(grants') /\ Len(grants') <= MaxGrants
    BY <1>l, <1>1, <1>2, <1>4 DEF GrantInv, GrantTypes
  <2>3. exchanged' \in [Grant!Jobs -> Seq(Nat)]
    BY <1>1 DEF GrantInv, GrantTypes
  <2> QED
    BY <1>4, <2>1, <2>2, <2>3 DEF GrantTypes
<1>6. GrantOf(l + 1, new)
  BY <1>n DEF GrantOf
<1>7. \A j \in DOMAIN grants' :
        /\ GrantOf(j, grants'[j])
        /\ grants'[j].at = "listening" <=> port' = j
        /\ grants'[j].at \in {"registered", "listening"} => j \in callbacks' \cup signalled'
  <2> TAKE j \in DOMAIN grants'
  <2>1. CASE j = l + 1
    <3>1. port' # l + 1
      BY <1>l, <1>1, <1>2 DEF GrantInv, GrantTypes
    <3>2. grants'[j] = new /\ new.at = "resolving"
      BY <1>4, <1>n, <2>1
    <3> QED
      BY <1>6, <2>1, <3>1, <3>2
  <2>2. CASE j # l + 1
    <3>1. j \in DOMAIN grants /\ grants'[j] = grants[j]
      BY <1>2, <1>4, <2>2
    <3> QED
      BY <1>1, <3>1 DEF GrantInv, GrantJobsInv
  <2> QED
    BY <2>1, <2>2
<1>8. \A t \in Grant!Jobs :
        /\ exchanged'[t] \in {<<>>, <<t>>}
        /\ exchanged'[t] # <<>> =>
               t \in DOMAIN grants' /\ grants'[t].at \in {"exchanging", "over"}
  BY <1>1, <1>2, <1>4 DEF GrantInv, GrantJobsInv
<1>9. GrantJobsInv'
  BY <1>7, <1>8 DEF GrantJobsInv, GrantOf, Grant!Selected
<1> QED
  BY <1>5, <1>9 DEF GrantInv

\* A job that changes its place without a word to or from the native side.
LEMMA GrantMoved ==
  ASSUME GrantInv, NEW j \in DOMAIN grants, NEW new \in GrantJobs,
         grants' = [grants EXCEPT ![j] = new], GrantOf(j, new),
         grants[j].at # "listening", new.at \notin {"registered", "listening"},
         UNCHANGED <<callbacks, signalled, port, oauth, rendered, awaited, oauthEdits>>,
         exchanged' \in [Grant!Jobs -> Seq(Nat)],
         \A t \in Grant!Jobs : t # j => exchanged'[t] = exchanged[t],
         exchanged'[j] \in {<<>>, <<j>>},
         exchanged'[j] # <<>> => new.at \in {"exchanging", "over"}
  PROVE  GrantInv'
<1>1. /\ oauth' \in [client : Users, token : GrantTokens] /\ rendered' \in Users
      /\ oauthEdits' \in 0..MaxOAuthEdits /\ Grant!TokenBelongs'
  BY DEF GrantInv, GrantTypes, Grant!TokenBelongs, Grant!HasToken
<1>2. port' # j /\ port' \in 0..Len(grants) /\ awaited' \in 0..Len(grants)
  BY DEF GrantInv, GrantTypes, GrantJobsInv
<1>3. \A i \in DOMAIN grants : i # j =>
             /\ port' = i <=> port = i
             /\ i \in callbacks \cup signalled => i \in callbacks' \cup signalled'
  OBVIOUS
<1> QED
  BY <1>1, <1>2, <1>3, GrantChanges

\* The inputs of a job are those of its operation, or it ends.
LEMMA GrantResolves ==
  ASSUME GrantInv, NEW j \in DOMAIN grants, Grant!Resolved(j) PROVE GrantInv'
<1>1. /\ grants[j] \in GrantJobs /\ grants \in Seq(GrantJobs) /\ grants[j].at = "resolving"
      /\ UNCHANGED <<callbacks, signalled, port, pages>>
      /\ DOMAIN grants = 1..Len(grants) /\ Len(grants) \in Nat
  BY GrantAt DEF GrantInv, GrantTypes, Grant!Resolved, Grant!native
<1>n. PICK inputs, new : /\ inputs = Grant!Selected(grants[j].authorize, grants[j].refresh)
                         /\ new = [grants[j] EXCEPT !.inputs = inputs,
                                     !.at = IF grants[j].authorize THEN "asked" ELSE "exchanging"]
  OBVIOUS
<1>2. \/ Grant!Fails(j)
      \/ /\ grants' = [grants EXCEPT ![j].inputs = inputs,
                            ![j].at = IF grants[j].authorize THEN "asked" ELSE "exchanging"]
         /\ UNCHANGED <<oauth, rendered, awaited, oauthEdits, exchanged>>
  BY <1>n DEF Grant!Resolved, Grant!frontend
<1>3. CASE Grant!Fails(j)
  <2>1. /\ Grant!Ends(j) /\ UNCHANGED <<oauth, rendered, oauthEdits, exchanged>>
    BY <1>3 DEF Grant!Fails
  <2> QED
    BY <1>1, <2>1, GrantQuietly, GrantEnds
<1>4. CASE /\ grants' = [grants EXCEPT ![j].inputs = inputs,
                            ![j].at = IF grants[j].authorize THEN "asked" ELSE "exchanging"]
           /\ UNCHANGED <<oauth, rendered, awaited, oauthEdits, exchanged>>
  <2>1. grants' = [grants EXCEPT ![j] = new]
    BY <1>1, <1>4, <1>n DEF GrantJobs
  <2>2. new = [at |-> IF grants[j].authorize THEN "asked" ELSE "exchanging",
               client |-> grants[j].client, code |-> grants[j].code,
               aborted |-> grants[j].aborted, authorize |-> grants[j].authorize,
               refresh |-> grants[j].refresh, inputs |-> inputs]
    BY <1>1, <1>n DEF GrantJobs
  <2>3. inputs \in SUBSET GrantInputs
    BY <1>n DEF GrantInputs, Grant!Selected
  <2>4. new \in GrantJobs
    BY <1>1, <2>2, <2>3 DEF GrantJobs
  <2>5. GrantOf(j, new)
    <3>1. GrantOf(j, grants[j])
      BY DEF GrantInv, GrantJobsInv
    <3> QED
      BY <1>1, <1>n, <2>2, <3>1 DEF GrantOf, GrantJobs
  <2>6. new.at \notin {"registered", "listening"}
    BY <2>2
  <2>7. /\ exchanged' \in [Grant!Jobs -> Seq(Nat)]
        /\ \A t \in Grant!Jobs : exchanged'[t] = exchanged[t]
        /\ exchanged'[j] = <<>>
    BY <1>1, <1>4, GrantCodes
  <2> QED
    BY <1>1, <1>4, <2>1, <2>4, <2>5, <2>6, <2>7, GrantMoved
<1> QED
  BY <1>2, <1>3, <1>4

\* What the user does keeps a token with its configuration.
LEMMA GrantUser ==
  ASSUME GrantInv,
         \/ Grant!Cancel \/ Grant!Render \/ Grant!ClearToken \/ \E c \in Users : Grant!Edit(c)
  PROVE  GrantInv'
<1>1. CASE Grant!Cancel
  <2>1. /\ Grant!Abandoned /\ UNCHANGED <<oauth, rendered, oauthEdits, exchanged>>
        /\ UNCHANGED <<callbacks, signalled, port>>
    BY <1>1 DEF Grant!Cancel, Grant!native
  <2> QED
    BY <2>1, GrantQuietly, GrantAbandons
<1>2. CASE Grant!Render
  <2>1. /\ Grant!Abandoned \/ UNCHANGED <<grants, awaited>>
        /\ UNCHANGED <<oauth, oauthEdits, callbacks, signalled, port, exchanged>>
        /\ rendered' = oauth.client
    BY <1>2 DEF Grant!Render, Grant!native
  <2>2. /\ oauth' \in [client : Users, token : GrantTokens] /\ rendered' \in Users
        /\ oauthEdits' \in 0..MaxOAuthEdits /\ Grant!TokenBelongs'
    BY <2>1 DEF GrantInv, GrantTypes, Grant!TokenBelongs, Grant!HasToken
  <2> QED
    BY <2>1, <2>2, GrantAbandons
<1>3. CASE Grant!ClearToken
  <2>1. /\ Grant!Abandoned \/ UNCHANGED <<grants, awaited>>
        /\ UNCHANGED <<rendered, oauthEdits, callbacks, signalled, port, exchanged>>
        /\ oauth' = [oauth EXCEPT !.token = Grant!NoToken]
    BY <1>3 DEF Grant!ClearToken, Grant!native
  <2>2. Grant!NoToken \in GrantTokens
    BY DEF Grant!NoToken, GrantTokens
  <2>3. /\ oauth' \in [client : Users, token : GrantTokens] /\ rendered' \in Users
        /\ oauthEdits' \in 0..MaxOAuthEdits /\ oauth'.token = Grant!NoToken
    BY <2>1, <2>2 DEF GrantInv, GrantTypes
  <2>4. Grant!TokenBelongs'
    BY <2>3 DEF Grant!TokenBelongs, Grant!HasToken, Grant!NoToken
  <2> QED
    BY <2>1, <2>3, <2>4, GrantAbandons
<1>4. CASE \E c \in Users : Grant!Edit(c)
  <2>1. PICK c \in Users : Grant!Edit(c)
    BY <1>4
  <2>2. /\ UNCHANGED <<grants, awaited, rendered, callbacks, signalled, port, exchanged>>
        /\ oauth' = [client |-> c, token |-> Grant!NoToken]
        /\ oauthEdits < MaxOAuthEdits /\ oauthEdits' = oauthEdits + 1
    BY <2>1 DEF Grant!Edit, Grant!native
  <2>3. Grant!NoToken \in GrantTokens
    BY DEF Grant!NoToken, GrantTokens
  <2>4. /\ oauth' \in [client : Users, token : GrantTokens] /\ rendered' \in Users
        /\ oauthEdits' \in 0..MaxOAuthEdits /\ oauth'.token = Grant!NoToken
    <3>1. MaxOAuthEdits \in Nat
      BY ClientsAssumption
    <3> QED
      BY <2>2, <2>3, <3>1 DEF GrantInv, GrantTypes
  <2>5. Grant!TokenBelongs'
    BY <2>4 DEF Grant!TokenBelongs, Grant!HasToken, Grant!NoToken
  <2> QED
    BY <2>2, <2>4, <2>5, GrantAbandons
<1> QED
  BY <1>1, <1>2, <1>3, <1>4

\* The command is handled, and the listener takes the port.
LEMMA GrantListens ==
  ASSUME GrantInv, NEW j \in DOMAIN grants, Grant!Register(j) \/ Grant!Bind(j)
  PROVE  GrantInv'
<1>1. /\ grants[j] \in GrantJobs /\ grants \in Seq(GrantJobs) /\ j # 0
      /\ DOMAIN grants = 1..Len(grants) /\ Len(grants) \in Nat
  BY GrantAt DEF GrantInv, GrantTypes
<1>2. /\ UNCHANGED <<oauth, rendered, oauthEdits, exchanged>>
      /\ grants[j].at \in {"asked", "registered"}
  BY DEF Grant!Register, Grant!Bind, Grant!Quietly
<1>3. /\ oauth' \in [client : Users, token : GrantTokens] /\ rendered' \in Users
      /\ oauthEdits' \in 0..MaxOAuthEdits /\ Grant!TokenBelongs'
  BY <1>2, GrantQuietly
<1>4. /\ exchanged' \in [Grant!Jobs -> Seq(Nat)]
      /\ \A t \in Grant!Jobs : exchanged'[t] = exchanged[t]
      /\ exchanged'[j] = <<>>
  BY <1>2, GrantCodes
<1>5. ASSUME NEW p \in {"registered", "listening"}, Grant!Wait(j, p),
             p = "listening" <=> port' = j, port' \in 0..Len(grants),
             \A i \in DOMAIN grants : i # j =>
                 /\ port' = i <=> port = i
                 /\ i \in callbacks \cup signalled => i \in callbacks' \cup signalled',
             j \in callbacks' \cup signalled', UNCHANGED awaited
      PROVE  GrantInv'
  <2>n. PICK new : new = [grants[j] EXCEPT !.at = p]
    OBVIOUS
  <2>1. grants' = [grants EXCEPT ![j] = new]
    BY <1>5, <2>n DEF Grant!Wait
  <2>2. new = [at |-> p, client |-> grants[j].client, code |-> grants[j].code,
               aborted |-> grants[j].aborted, authorize |-> grants[j].authorize,
               refresh |-> grants[j].refresh, inputs |-> grants[j].inputs]
    BY <1>1, <2>n DEF GrantJobs
  <2>3. new \in GrantJobs
    BY <1>1, <2>2 DEF GrantJobs
  <2>4. GrantOf(j, new)
    <3>1. GrantOf(j, grants[j])
      BY DEF GrantInv, GrantJobsInv
    <3> QED
      BY <1>2, <2>2, <3>1 DEF GrantOf
  <2>5. new.at = p /\ awaited' \in 0..Len(grants)
    BY <1>5, <2>2 DEF GrantInv, GrantTypes
  <2>6. /\ exchanged'[j] \in {<<>>, <<j>>}
        /\ exchanged'[j] # <<>> => new.at \in {"exchanging", "over"}
        /\ \A t \in Grant!Jobs : t # j => exchanged'[t] = exchanged[t]
    BY <1>4
  <2>7. /\ new.at = "listening" <=> port' = j
        /\ new.at \in {"registered", "listening"} => j \in callbacks' \cup signalled'
    BY <1>5, <2>5
  <2> QED
    BY <1>3, <1>4, <1>5, <2>1, <2>3, <2>4, <2>5, <2>6, <2>7, GrantChanges
<1>6. CASE Grant!Register(j)
  <2>1. /\ Grant!Wait(j, "registered") /\ callbacks' = callbacks \cup {j}
        /\ UNCHANGED <<awaited, signalled, port>> /\ grants[j].at = "asked"
    BY <1>6 DEF Grant!Register
  <2>2. port' # j /\ port' \in 0..Len(grants)
    BY <2>1 DEF GrantInv, GrantTypes, GrantJobsInv
  <2>3. \A i \in DOMAIN grants : i # j =>
                 /\ port' = i <=> port = i
                 /\ i \in callbacks \cup signalled => i \in callbacks' \cup signalled'
    BY <2>1
  <2>4. j \in callbacks' \cup signalled'
    BY <2>1
  <2> QED
    BY <1>5, <2>1, <2>2, <2>3, <2>4
<1>7. CASE Grant!Bind(j)
  <2>1. \/ Grant!Ends(j) /\ Grant!NativeEnds(j)
        \/ /\ port = 0 /\ Grant!Wait(j, "listening") /\ port' = j
           /\ UNCHANGED <<awaited, callbacks, signalled>>
    BY <1>7 DEF Grant!Bind, Grant!Nobody
  <2>2. grants[j].at = "registered"
    BY <1>7 DEF Grant!Bind
  <2>3. CASE Grant!Ends(j) /\ Grant!NativeEnds(j)
    BY <1>2, <1>3, <2>3, GrantEnds
  <2>4. CASE /\ port = 0 /\ Grant!Wait(j, "listening") /\ port' = j
             /\ UNCHANGED <<awaited, callbacks, signalled>>
    <3>1. j \in callbacks' \cup signalled'
      BY <2>2, <2>4 DEF GrantInv, GrantJobsInv
    <3>2. \A i \in DOMAIN grants : i # j =>
                 /\ port' = i <=> port = i
                 /\ i \in callbacks \cup signalled => i \in callbacks' \cup signalled'
      BY <1>1, <2>4
    <3>3. port' \in 0..Len(grants)
      BY <1>1, <2>4
    <3> QED
      BY <1>5, <2>4, <3>1, <3>2, <3>3
  <2> QED
    BY <2>1, <2>3, <2>4
<1> QED
  BY <1>6, <1>7

\* A job that is told to stop stays known to the native side.
LEMMA GrantStops ==
  ASSUME GrantInv, NEW j \in DOMAIN grants, Grant!Stop(j) PROVE GrantInv'
<1>1. /\ UNCHANGED <<oauth, rendered, awaited, oauthEdits, grants, port, exchanged>>
      /\ callbacks' \cup signalled' = callbacks \cup signalled
  BY DEF Grant!Stop, Grant!frontend
<1>2. GrantTypes'
  BY <1>1 DEF GrantInv, GrantTypes, Grant!TokenBelongs, Grant!HasToken
<1>3. GrantJobsInv'
  BY <1>1 DEF GrantInv, GrantJobsInv, GrantOf, Grant!Selected
<1> QED
  BY <1>2, <1>3 DEF GrantInv

\* A page that comes back, is given up, or is waited for too long: the listener
\* is gone, and the code it took is its own.
LEMMA GrantCallsBack ==
  ASSUME GrantInv, NEW j \in DOMAIN grants,
         \/ Grant!Stopped(j) \/ Grant!TimedOut(j) \/ (port = j /\ Grant!Callback(j))
  PROVE  GrantInv'
<1>1. /\ grants[j] \in GrantJobs /\ grants \in Seq(GrantJobs) /\ j # 0
      /\ DOMAIN grants = 1..Len(grants) /\ Len(grants) \in Nat /\ j \in Grant!Jobs
  BY GrantAt DEF GrantInv, GrantTypes
<1>2. /\ UNCHANGED <<oauth, rendered, oauthEdits, exchanged>> /\ Grant!NativeEnds(j)
      /\ \/ Grant!Ends(j)
         \/ /\ port = j /\ UNCHANGED awaited
            /\ grants' = [grants EXCEPT ![j].at = "answered", ![j].code = j]
  BY DEF Grant!Stopped, Grant!TimedOut, Grant!Callback, Grant!Quietly
<1>3. /\ oauth' \in [client : Users, token : GrantTokens] /\ rendered' \in Users
      /\ oauthEdits' \in 0..MaxOAuthEdits /\ Grant!TokenBelongs'
  BY <1>2, GrantQuietly
<1>4. CASE Grant!Ends(j)
  BY <1>2, <1>3, <1>4, GrantEnds
<1>5. CASE /\ port = j /\ UNCHANGED awaited
           /\ grants' = [grants EXCEPT ![j].at = "answered", ![j].code = j]
  <2>n. PICK new : new = [grants[j] EXCEPT !.at = "answered", !.code = j]
    OBVIOUS
  <2>1. grants' = [grants EXCEPT ![j] = new]
    BY <1>1, <1>5, <2>n DEF GrantJobs
  <2>2. new = [at |-> "answered", client |-> grants[j].client, code |-> j,
               aborted |-> grants[j].aborted, authorize |-> grants[j].authorize,
               refresh |-> grants[j].refresh, inputs |-> grants[j].inputs]
    BY <1>1, <2>n DEF GrantJobs
  <2>3. new \in GrantJobs
    BY <1>1, <2>2 DEF GrantJobs
  <2>4. GrantOf(j, new) /\ grants[j].at = "listening"
    <3>1. GrantOf(j, grants[j]) /\ grants[j].at = "listening"
      BY <1>5 DEF GrantInv, GrantJobsInv
    <3> QED
      BY <2>2, <3>1 DEF GrantOf
  <2>5. /\ new.at = "answered" /\ awaited' \in 0..Len(grants)
        /\ port' # j /\ port' \in 0..Len(grants)
    BY <1>1, <1>2, <1>5, <2>2 DEF GrantInv, GrantTypes, Grant!NativeEnds, Grant!Nobody
  <2>6. /\ exchanged' \in [Grant!Jobs -> Seq(Nat)]
        /\ \A t \in Grant!Jobs : t # j => exchanged'[t] = exchanged[t]
        /\ exchanged'[j] = <<>>
    BY <1>2, <2>4, GrantCodes
  <2>7. \A i \in DOMAIN grants : i # j =>
             /\ port' = i <=> port = i
             /\ i \in callbacks \cup signalled => i \in callbacks' \cup signalled'
    BY <1>1, <1>2, <1>5 DEF Grant!NativeEnds, Grant!Nobody
  <2>8. /\ new.at = "listening" <=> port' = j
        /\ new.at \in {"registered", "listening"} => j \in callbacks' \cup signalled'
        /\ exchanged'[j] \in {<<>>, <<j>>}
        /\ exchanged'[j] # <<>> => new.at \in {"exchanging", "over"}
    BY <2>5, <2>6
  <2> QED
    BY <1>3, <2>1, <2>3, <2>4, <2>5, <2>6, <2>7, <2>8, GrantChanges
<1> QED
  BY <1>2, <1>4, <1>5

\* A callback is the listener's.
LEMMA GrantCallbacks ==
  ASSUME GrantInv, NEW t \in Grant!Jobs, Grant!Callback(t) PROVE GrantInv'
<1>1. port = t /\ port # 0
  BY DEF Grant!Callback, Grant!Accepted, Grant!Nobody
<1>2. t \in DOMAIN grants
  BY <1>1 DEF GrantInv, GrantTypes
<1> QED
  BY <1>1, <1>2, GrantCallsBack

\* What is given in is the job's own code, for the first time.
LEMMA GrantGivesIn ==
  ASSUME GrantInv, NEW j \in DOMAIN grants, Grant!Answered(j)
  PROVE  /\ GrantInv'
         /\ \A i \in DOMAIN grants : exchanged'[i] # exchanged[i] => ~grants[i].aborted
<1>1. /\ grants[j] \in GrantJobs /\ grants \in Seq(GrantJobs) /\ j # 0
      /\ DOMAIN grants = 1..Len(grants) /\ Len(grants) \in Nat /\ j \in Grant!Jobs
      /\ \A i \in DOMAIN grants : i \in Grant!Jobs
  BY GrantAt DEF GrantInv, GrantTypes
<1>2. /\ grants[j].at = "answered" /\ UNCHANGED <<callbacks, signalled, port, pages>>
      /\ \/ Grant!Fails(j)
         \/ /\ ~grants[j].aborted /\ Grant!Wait(j, "exchanging")
            /\ exchanged' = [exchanged EXCEPT ![grants[j].code] = Append(@, j)]
            /\ UNCHANGED <<oauth, rendered, awaited, oauthEdits>>
  BY DEF Grant!Answered, Grant!native, Grant!frontend, Grant!StillWanted
<1>3. CASE Grant!Fails(j)
  <2>1. /\ Grant!Ends(j) /\ UNCHANGED <<oauth, rendered, oauthEdits, exchanged>>
    BY <1>3 DEF Grant!Fails
  <2> QED
    BY <1>2, <2>1, GrantQuietly, GrantEnds
<1>4. CASE /\ ~grants[j].aborted /\ Grant!Wait(j, "exchanging")
           /\ exchanged' = [exchanged EXCEPT ![grants[j].code] = Append(@, j)]
           /\ UNCHANGED <<oauth, rendered, awaited, oauthEdits>>
  <2>n. PICK new : new = [grants[j] EXCEPT !.at = "exchanging"]
    OBVIOUS
  <2>1. grants' = [grants EXCEPT ![j] = new]
    BY <1>4, <2>n DEF Grant!Wait
  <2>2. new = [at |-> "exchanging", client |-> grants[j].client, code |-> grants[j].code,
               aborted |-> grants[j].aborted, authorize |-> grants[j].authorize,
               refresh |-> grants[j].refresh, inputs |-> grants[j].inputs]
    BY <1>1, <2>n DEF GrantJobs
  <2>3. new \in GrantJobs
    BY <1>1, <2>2 DEF GrantJobs
  <2>o. GrantOf(j, grants[j])
    BY DEF GrantInv, GrantJobsInv
  <2>4. GrantOf(j, new) /\ grants[j].code = j
    BY <1>2, <2>o, <2>2 DEF GrantOf
  <2>5. exchanged[j] = <<>> /\ exchanged \in [Grant!Jobs -> Seq(Nat)]
    BY <1>1, <1>2 DEF GrantInv, GrantJobsInv, GrantTypes
  <2>6. /\ exchanged'[j] = Append(exchanged[j], j)
        /\ \A t \in Grant!Jobs : t # j => exchanged'[t] = exchanged[t]
    BY <1>1, <1>4, <2>4, <2>5
  <2>7. exchanged'[j] = <<j>> /\ exchanged' \in [Grant!Jobs -> Seq(Nat)]
    <3>1. Append(<<>>, j) = <<j>> /\ <<j>> \in Seq(Nat)
      BY <1>1
    <3>2. exchanged' = [exchanged EXCEPT ![j] = <<j>>]
      BY <1>4, <2>4, <2>5, <3>1
    <3> QED
      BY <1>1, <2>5, <3>1, <3>2
  <2>8. GrantInv'
    <3>1. /\ exchanged'[j] \in {<<>>, <<j>>} /\ new.at \notin {"registered", "listening"}
          /\ exchanged'[j] # <<>> => new.at \in {"exchanging", "over"}
          /\ grants[j].at # "listening"
      BY <1>2, <2>2, <2>7
    <3> QED
      BY <1>2, <1>4, <2>1, <2>3, <2>4, <2>6, <2>7, <3>1, GrantMoved
  <2>9. \A i \in DOMAIN grants : exchanged'[i] # exchanged[i] => ~grants[i].aborted
    BY <1>1, <1>4, <2>6
  <2> QED
    BY <2>8, <2>9
<1> QED
  BY <1>2, <1>3, <1>4

\* The token of a job goes to the configuration it is for, if that is still
\* there.
LEMMA GrantInstalls ==
  ASSUME GrantInv, NEW j \in DOMAIN grants, NEW refresh \in BOOLEAN
  PROVE  /\ Grant!Installed(j, refresh) \in [client : Users, token : GrantTokens]
         /\ LET new == Grant!Installed(j, refresh) IN
               new.token # Grant!NoToken => new.token.client = new.client
<1>c. PICK c : c = grants[j].client
  OBVIOUS
<1>1. /\ oauth \in [client : Users, token : GrantTokens] /\ c \in Users
      /\ oauth.token # Grant!NoToken => oauth.token.client = oauth.client
  BY <1>c, GrantAt DEF GrantInv, GrantTypes, GrantJobs, Grant!TokenBelongs, Grant!HasToken
<1>2. CASE oauth.client # c
  BY <1>1, <1>2, <1>c DEF Grant!Installed
<1>3. CASE oauth.client = c
  <2>1. Grant!Installed(j, refresh) = [oauth EXCEPT !.token = [client |-> c, refresh |-> refresh]]
    BY <1>3, <1>c DEF Grant!Installed
  <2>2. Grant!Installed(j, refresh) =
            [client |-> oauth.client, token |-> [client |-> c, refresh |-> refresh]]
    BY <1>1, <2>1
  <2>3. [client |-> c, refresh |-> refresh] \in GrantTokens
    BY <1>1 DEF GrantTokens
  <2> QED
    BY <1>1, <1>3, <2>2, <2>3
<1> QED
  BY <1>2, <1>3

\* The code is exchanged for a token.
LEMMA GrantExchanges ==
  ASSUME GrantInv, NEW j \in DOMAIN grants, Grant!Exchange(j) PROVE GrantInv'
<1>1. /\ grants[j].at = "exchanging" /\ UNCHANGED <<callbacks, signalled, port>>
      /\ \/ Grant!Fails(j)
         \/ \E given \in BOOLEAN :
             /\ oauth' = IF awaited = j
                         THEN Grant!Installed(j, Grant!Refreshable(j, given)) ELSE oauth
             /\ Grant!Ends(j) /\ UNCHANGED <<rendered, oauthEdits, exchanged>>
  BY DEF Grant!Exchange, Grant!native
<1>2. CASE Grant!Fails(j)
  <2>1. /\ Grant!Ends(j) /\ UNCHANGED <<oauth, rendered, oauthEdits, exchanged>>
    BY <1>2 DEF Grant!Fails
  <2> QED
    BY <1>1, <2>1, GrantQuietly, GrantEnds
<1>3. ASSUME NEW given \in BOOLEAN, Grant!Ends(j), UNCHANGED <<rendered, oauthEdits, exchanged>>,
             oauth' = IF awaited = j
                      THEN Grant!Installed(j, Grant!Refreshable(j, given)) ELSE oauth
      PROVE  GrantInv'
  <2>1. Grant!Refreshable(j, given) \in BOOLEAN
    BY GrantAt DEF GrantInv, GrantJobs, Grant!Refreshable
  <2>2. CASE awaited # j
    <3>1. oauth' = oauth
      BY <1>3, <2>2
    <3> QED
      BY <1>1, <1>3, <3>1, GrantQuietly, GrantEnds
  <2>3. CASE awaited = j
    <3>1. /\ oauth' \in [client : Users, token : GrantTokens]
          /\ oauth'.token # Grant!NoToken => oauth'.token.client = oauth'.client
      BY <1>3, <2>1, <2>3, GrantInstalls
    <3>2. Grant!TokenBelongs'
      BY <3>1 DEF Grant!TokenBelongs, Grant!HasToken, Grant!NoToken
    <3>3. rendered' \in Users /\ oauthEdits' \in 0..MaxOAuthEdits
      BY <1>3 DEF GrantInv, GrantTypes
    <3> QED
      BY <1>1, <1>3, <3>1, <3>2, <3>3, GrantEnds
  <2> QED
    BY <2>2, <2>3
<1> QED
  BY <1>1, <1>2, <1>3

\* The invariant of the grants.
LEMMA GrantStep == GrantInv /\ [Grant!Next]_(Grant!vars) => GrantInv'
<1> SUFFICES ASSUME GrantInv, [Grant!Next]_(Grant!vars) PROVE GrantInv'
  OBVIOUS
<1>1. CASE UNCHANGED Grant!vars
  <2>1. /\ UNCHANGED <<oauth, rendered, awaited, oauthEdits, grants, port, exchanged>>
        /\ UNCHANGED <<callbacks, signalled>>
    BY <1>1 DEF Grant!vars
  <2>2. GrantTypes'
    BY <2>1 DEF GrantInv, GrantTypes, Grant!TokenBelongs, Grant!HasToken
  <2>3. GrantJobsInv'
    BY <2>1 DEF GrantInv, GrantJobsInv, GrantOf, Grant!Selected
  <2> QED
    BY <2>2, <2>3 DEF GrantInv
<1>2. CASE Grant!Initial
  BY <1>2, GrantRuns DEF Grant!Initial
<1>3. CASE Grant!Refresh
  BY <1>3, GrantRuns DEF Grant!Refresh
<1>4. CASE \/ Grant!Cancel \/ Grant!Render \/ Grant!ClearToken \/ \E c \in Users : Grant!Edit(c)
  BY <1>4, GrantUser
<1>5. ASSUME NEW j \in Grant!Jobs, Grant!Callback(j) PROVE GrantInv'
  BY <1>5, GrantCallbacks
<1>6. ASSUME NEW j \in Grant!Jobs, Grant!Progress(j) PROVE GrantInv'
  <2>1. j \in DOMAIN grants
    BY <1>6 DEF Grant!Progress
  <2>2. \/ Grant!Resolved(j) \/ Grant!Register(j) \/ Grant!Bind(j) \/ Grant!Stop(j)
        \/ Grant!Stopped(j) \/ Grant!TimedOut(j) \/ Grant!Answered(j) \/ Grant!Exchange(j)
    BY <1>6 DEF Grant!Progress
  <2>3. CASE Grant!Resolved(j)
    BY <2>1, <2>3, GrantResolves
  <2>4. CASE Grant!Register(j) \/ Grant!Bind(j)
    BY <2>1, <2>4, GrantListens
  <2>5. CASE Grant!Stop(j)
    BY <2>1, <2>5, GrantStops
  <2>6. CASE Grant!Stopped(j) \/ Grant!TimedOut(j)
    <3>1. \/ Grant!Stopped(j) \/ Grant!TimedOut(j) \/ (port = j /\ Grant!Callback(j))
      BY <2>6
    <3> QED
      BY <2>1, <3>1, GrantCallsBack
  <2>7. CASE Grant!Answered(j)
    BY <2>1, <2>7, GrantGivesIn
  <2>8. CASE Grant!Exchange(j)
    BY <2>1, <2>8, GrantExchanges
  <2> QED
    BY <2>2, <2>3, <2>4, <2>5, <2>6, <2>7, <2>8
<1> QED
  BY <1>1, <1>2, <1>3, <1>4, <1>5, <1>6 DEF Grant!Next

\* The grants keep their invariant in every behaviour.
LEMMA GrantKeeps == Clients => []GrantInv
<1>1. ClientsInit => GrantInv
  BY GrantStarts DEF ClientsInit
<1> QED
  BY <1>1, GrantMoves, GrantStep, PTL DEF Clients

\* The state of the grants stays of its types, and whoever listens can be told
\* to stop or was.
LEMMA GrantTyped == GrantInv => Grant!TypeOK
<1> SUFFICES ASSUME GrantInv PROVE Grant!TypeOK
  OBVIOUS
<1>1. /\ oauth.client \in Users /\ oauth.token \in [client : Users \cup {None}, refresh : BOOLEAN]
      /\ rendered \in Users /\ awaited \in 0..Len(grants) /\ port \in 0..Len(grants)
      /\ oauthEdits \in 0..MaxOAuthEdits
  BY DEF GrantInv, GrantTypes, GrantTokens
<1>2. \A j \in DOMAIN grants :
        /\ grants[j].at \in {"resolving", "asked", "registered", "listening", "answered",
                             "exchanging", "over"}
        /\ grants[j].client \in Users /\ grants[j].code \in 0..MaxGrants
  <2> TAKE j \in DOMAIN grants
  <2>1. grants[j] \in GrantJobs /\ j \in 1..MaxGrants
    BY GrantAt DEF GrantInv, Grant!Jobs
  <2>2. grants[j].code \in {0, j}
    BY DEF GrantInv, GrantJobsInv, GrantOf
  <2> QED
    BY <2>1, <2>2, ClientsAssumption DEF GrantJobs
<1>3. port # 0 => port \in callbacks \cup signalled
  <2>1. port # 0 => port \in DOMAIN grants
    BY DEF GrantInv, GrantTypes
  <2> QED
    BY <2>1 DEF GrantInv, GrantJobsInv
<1> QED
  BY <1>1, <1>2, <1>3 DEF Grant!TypeOK, Grant!Nobody

\* A code is the job's own, given in once; a token is its configuration's; and
\* what goes out was resolved.
LEMMA GrantHolds ==
  GrantInv => Grant!CodesAreExchangedOnce /\ Grant!TokenBelongs /\ Grant!AsksForWhatItSends
<1> SUFFICES ASSUME GrantInv
             PROVE  Grant!CodesAreExchangedOnce /\ Grant!TokenBelongs /\ Grant!AsksForWhatItSends
  OBVIOUS
<1>1. Grant!CodesAreExchangedOnce
  BY DEF GrantInv, GrantJobsInv, Grant!CodesAreExchangedOnce
<1>2. Grant!TokenBelongs
  BY DEF GrantInv, GrantTypes
<1>3. Grant!AsksForWhatItSends
  <2> SUFFICES ASSUME NEW j \in DOMAIN grants, grants[j].at = "exchanging"
               PROVE  grants[j].inputs = Grant!Sent(grants[j])
    BY DEF Grant!AsksForWhatItSends
  <2>1. grants[j] \in GrantJobs /\ j # 0
    BY GrantAt DEF GrantInv
  <2>2. /\ grants[j].authorize => ~grants[j].refresh
        /\ grants[j].inputs = Grant!Selected(grants[j].authorize, grants[j].refresh)
        /\ grants[j].code = IF grants[j].authorize THEN j ELSE 0
    BY DEF GrantInv, GrantJobsInv, GrantOf
  <2>3. CASE grants[j].refresh
    <3>1. ~grants[j].authorize /\ grants[j].code = 0
      BY <2>2, <2>3
    <3>2. Grant!Sent(grants[j]) = {"client-id", "token-url", "secret", "refresh-token"}
      BY <2>3, <3>1 DEF Grant!Sent, Grant!Form, Grant!Page, Grant!Nobody
    <3>3. Grant!Selected(grants[j].authorize, grants[j].refresh) =
              {"client-id", "token-url", "secret", "refresh-token"}
      BY <2>3, <3>1 DEF Grant!Selected
    <3> QED
      BY <2>2, <3>2, <3>3
  <2>4. CASE ~grants[j].refresh /\ grants[j].authorize
    <3>1. Grant!Sent(grants[j]) = {"client-id", "token-url", "secret", "redirect-uri",
                                   "authorization-url", "scopes"}
      BY <2>1, <2>2, <2>4 DEF Grant!Sent, Grant!Form, Grant!Page, Grant!Nobody
    <3>2. Grant!Selected(grants[j].authorize, grants[j].refresh) =
              {"client-id", "token-url", "secret", "redirect-uri", "authorization-url", "scopes"}
      BY <2>4 DEF Grant!Selected
    <3> QED
      BY <2>2, <3>1, <3>2
  <2>5. CASE ~grants[j].refresh /\ ~grants[j].authorize
    <3>1. Grant!Sent(grants[j]) = {"client-id", "token-url", "secret", "scopes"}
      BY <2>1, <2>2, <2>5 DEF Grant!Sent, Grant!Form, Grant!Page, Grant!Nobody
    <3>2. Grant!Selected(grants[j].authorize, grants[j].refresh) =
              {"client-id", "token-url", "secret", "scopes"}
      BY <2>5 DEF Grant!Selected
    <3> QED
      BY <2>2, <3>1, <3>2
  <2> QED
    BY <2>3, <2>4, <2>5
<1> QED
  BY <1>1, <1>2, <1>3

\* A job that was cancelled gives in nothing, and a refresh keeps the refresh
\* token.
LEMMA GrantLoses ==
  ASSUME GrantInv, [Grant!Next]_(Grant!vars) PROVE Grant!NothingLost
<1>1. \A i \in DOMAIN grants : exchanged'[i] # exchanged[i] => ~grants[i].aborted
  <2>1. \/ UNCHANGED exchanged
        \/ \E j \in Grant!Jobs : j \in DOMAIN grants /\ Grant!Answered(j)
    BY DEF Grant!Next, Grant!vars, Grant!Initial, Grant!Refresh, Grant!Run, Grant!Cancel,
       Grant!Render, Grant!ClearToken, Grant!Edit, Grant!Callback, Grant!Progress,
       Grant!Resolved, Grant!Fails, Grant!Register, Grant!Bind, Grant!Stop, Grant!Stopped,
       Grant!TimedOut, Grant!Exchange, Grant!Quietly
  <2> QED
    BY <2>1, GrantGivesIn
<1>2. \/ UNCHANGED oauth \/ oauth'.token = Grant!NoToken
      \/ \E j \in DOMAIN grants : Grant!Exchange(j)
  <2>1. /\ Grant!ClearToken => oauth'.token = Grant!NoToken
        /\ \A c : Grant!Edit(c) => oauth'.token = Grant!NoToken
    <3>1. oauth \in [client : Users, token : GrantTokens]
      BY DEF GrantInv, GrantTypes
    <3>2. Grant!ClearToken => oauth' = [oauth EXCEPT !.token = Grant!NoToken]
      BY DEF Grant!ClearToken
    <3> QED
      BY <3>1, <3>2 DEF Grant!Edit
  <2> QED
    BY <2>1 DEF Grant!Next, Grant!vars, Grant!Initial, Grant!Refresh, Grant!Run, Grant!Cancel,
       Grant!Render, Grant!Callback, Grant!Progress, Grant!frontend,
       Grant!Resolved, Grant!Fails, Grant!Register, Grant!Bind, Grant!Stop, Grant!Stopped,
       Grant!TimedOut, Grant!Answered, Grant!Quietly
<1>3. ASSUME NEW j \in DOMAIN grants, Grant!Exchange(j),
             oauth.token.refresh, oauth'.token # Grant!NoToken, ~oauth'.token.refresh
      PROVE  grants[j].at = "exchanging" /\ grants'[j].at = "over" /\ ~grants[j].refresh
  <2>1. /\ grants[j].at = "exchanging" /\ Grant!Ends(j)
        /\ \/ UNCHANGED oauth
           \/ \E given \in BOOLEAN : oauth' = Grant!Installed(j, Grant!Refreshable(j, given))
    BY <1>3 DEF Grant!Exchange, Grant!Fails
  <2>2. grants'[j].at = "over"
    <3>1. grants \in Seq(GrantJobs) /\ grants[j] \in GrantJobs
      BY GrantAt DEF GrantInv, GrantTypes
    <3>2. grants'[j] = [grants[j] EXCEPT !.at = "over", !.inputs = {}, !.aborted = FALSE]
      BY <2>1, <3>1 DEF Grant!Ends, Grant!Over
    <3> QED
      BY <3>1, <3>2 DEF GrantJobs
  <2>3. PICK given \in BOOLEAN : oauth' = Grant!Installed(j, Grant!Refreshable(j, given))
    BY <1>3, <2>1
  <2>4. ~Grant!Refreshable(j, given)
    <3>1. oauth \in [client : Users, token : GrantTokens]
      BY DEF GrantInv, GrantTypes
    <3>2. oauth' = [oauth EXCEPT !.token =
                        [client |-> grants[j].client, refresh |-> Grant!Refreshable(j, given)]]
      BY <1>3, <2>3 DEF Grant!Installed
    <3>3. oauth'.token.refresh = Grant!Refreshable(j, given)
      BY <3>1, <3>2
    <3> QED
      BY <1>3, <3>3
  <2> QED
    BY <2>1, <2>2, <2>4 DEF Grant!Refreshable
<1>4. oauth.token.refresh /\ oauth'.token # Grant!NoToken /\ ~oauth'.token.refresh =>
        \E j \in DOMAIN grants :
            grants[j].at = "exchanging" /\ grants'[j].at = "over" /\ ~grants[j].refresh
  BY <1>2, <1>3
<1> QED
  BY <1>1, <1>4 DEF Grant!NothingLost

\* Every authorization code is given in once, by the job it was issued for, a
\* token stays with the configuration it is for, nothing is resolved that is not
\* sent, and neither a cancelled job nor a refresh loses anything (oauth-client.ts,
\* use-auth-runtime.ts, oauth.rs), for any number of clients, jobs and edits.
THEOREM GrantsAreTheirOwn ==
  Clients => /\ [](part = "grant" => Grant!CodesAreExchangedOnce /\ Grant!TokenBelongs
                                      /\ Grant!AsksForWhatItSends)
             /\ [][part = "grant" => Grant!NothingLost]_grantVars
<1>1. GrantInv => (part = "grant" => Grant!CodesAreExchangedOnce /\ Grant!TokenBelongs
                                      /\ Grant!AsksForWhatItSends)
  BY GrantHolds
<1>2. GrantInv /\ [ClientsNext]_allVars => [part = "grant" => Grant!NothingLost]_grantVars
  BY GrantMoves, GrantLoses
<1> QED
  BY <1>1, <1>2, GrantKeeps, PTL DEF Clients

\* Tokens belong where they arrive: what the grants promise, and a token that
\* comes late adds itself to the configuration it was asked for and leaves every
\* edit (use-auth-runtime.ts, workbench-send.ts), where the configuration is the
\* document's own.
THEOREM TokensAreKept == ~Inherited => (Clients => TokensBelong)
<1> SUFFICES ASSUME ~Inherited PROVE Clients => TokensBelong
  OBVIOUS
<1>1. Clients => Execution!LateTokenKeepsEdits
  BY ExecKeepsEdits
<1> QED
  BY <1>1, GrantsAreTheirOwn, PTL DEF TokensBelong
-----------------------------------------------------------------------------
(* Variables.  A run sends the request of a variable once because what it    *)
(* extracted is a hit from then on, and the requests on its path differ.     *)

\* A step of the variables is taken by them, and the others leave them alone.
LEMMA VarMoves == [ClientsNext]_allVars => [Variable!Next]_(Variable!vars)
  BY DEF ClientsNext, OfSession, OfExecution, OfChain, OfSecret, OfVariables, OfExit,
         OfSchema, OfGrant, OfTransfer, Only, valueVars, variableVars, allVars, Variable!vars

VarKeys == Variables \X Environments
VarEntries == [ok : BOOLEAN, print : 0..2, at : 0..MaxTime]
VarFields == [definition : [Variables -> 0..2], cache : [VarKeys -> VarEntries]]
VarDrafts == [awaited : BOOLEAN, candidate : VarFields, before : VarFields]
VarFrames ==
    [document : Documents \cup {"panel"}, environment : Environments, todo : SUBSET Variables,
     for : VarKeys \cup {<<>>}]
VarRuns ==
    [at : {"idle", "resolving", "done"}, print : [Variables -> 0..2],
     mine : [VarKeys -> VarEntries], once : [VarKeys -> VarEntries],
     forced : SUBSET Variables, path : Seq(VarFrames), executed : [VarKeys -> Nat]]

\* A path leads from one request to the next, never to one that is on it, and
\* what a variable on it stands for was not sent yet.
VarPath(x) ==
    /\ \A i \in DOMAIN x.path : i > 1 =>
        /\ x.path[i].document \in Documents /\ x.path[i].for \in VarKeys
        /\ x.path[i].document = graph.source[x.path[i].for[1]]
        /\ x.path[i].environment = x.path[i].for[2]
        /\ x.path[i].for[1] \in x.forced \/ x.executed[x.path[i].for] = 0
    /\ \A i, j \in DOMAIN x.path :
        x.path[i].document = x.path[j].document /\ x.path[i].environment = x.path[j].environment
            => i = j

\* What was sent is a hit.
VarSent(x) ==
    \A k \in VarKeys : k[1] \notin x.forced =>
        /\ x.executed[k] <= 1
        /\ x.at = "resolving" /\ x.executed[k] = 1 =>
               x.once[k].ok /\ x.once[k].print = x.print[k[1]]

VarRun(x) == (x.path = <<>> <=> x.at # "resolving") /\ VarPath(x) /\ VarSent(x)

VarTypes ==
    /\ graph \in Graphs /\ definition \in [Variables -> 0..2] /\ clock \in 1..MaxTime
    /\ variableCache \in [VarKeys -> VarEntries] /\ variableSession \in [VarKeys -> VarEntries]
    /\ run \in [Resolutions -> VarRuns] /\ draft \in VarDrafts

\* What is saved was pruned at the click; the workspace of before is another by
\* now only if something pruned the cache since.
VarClean(entries, prints) == \A k \in VarKeys : entries[k].print \in {0, prints[k[1]]}
VarDraft ==
    draft.awaited =>
        /\ \A k \in VarKeys :
              draft.candidate.cache[k] =
                  IF draft.before.cache[k].print = draft.candidate.definition[k[1]]
                  THEN draft.before.cache[k] ELSE Variable!NoEntry
        /\ definition # draft.before.definition => VarClean(variableCache, definition)

VarInv == VarTypes /\ (\A r \in Resolutions : VarRun(run[r])) /\ VarDraft

\* No entry, and no save.
LEMMA VarNoSave ==
  /\ Variable!NoEntry \in VarEntries /\ Variable!NoEntry.print = 0
  /\ Variable!NoSave \in VarDrafts /\ ~Variable!NoSave.awaited
<1>1. Variable!NoEntry \in VarEntries /\ Variable!NoEntry.print = 0
  BY ClientsAssumption DEF Variable!NoEntry, Variable!Gone, VarEntries
<1>2. /\ Variable!Empty \in [VarKeys -> VarEntries]
      /\ [v \in Variables |-> Variable!Gone] \in [Variables -> 0..2]
  BY <1>1 DEF Variable!Empty, Variable!Keys, Variable!Gone, VarKeys
<1>3. Variable!NoFields \in VarFields
  BY <1>2 DEF Variable!NoFields, Variable!Fields, VarFields
<1>4. Variable!NoSave \in VarDrafts /\ ~Variable!NoSave.awaited
  BY <1>3 DEF Variable!NoSave, VarDrafts
<1> QED
  BY <1>1, <1>4

\* The first state of the variables satisfies the invariant.
LEMMA VarStarts == Variable!Init => VarInv
<1> SUFFICES ASSUME Variable!Init PROVE VarInv
  OBVIOUS
<1>1. /\ graph \in Graphs /\ definition = [v \in Variables |-> 1] /\ clock = 1
      /\ variableCache = Variable!Empty /\ variableSession = Variable!Empty
      /\ run = [r \in Resolutions |-> Variable!NoRun] /\ draft = Variable!NoSave
  BY DEF Variable!Init
<1>2. Variable!Empty \in [VarKeys -> VarEntries] /\ \A k \in VarKeys : Variable!Empty[k].print = 0
  BY ClientsAssumption
     DEF Variable!Empty, Variable!NoEntry, Variable!Keys, Variable!Gone, VarKeys, VarEntries
<1>3. Variable!NoRun \in VarRuns /\ VarRun(Variable!NoRun)
  <2>1. /\ [v \in Variables |-> Variable!Gone] \in [Variables -> 0..2]
        /\ Variable!Zero \in [VarKeys -> Nat] /\ \A k \in VarKeys : Variable!Zero[k] = 0
    BY DEF Variable!Gone, Variable!Zero, Variable!Keys, VarKeys
  <2>2. Variable!NoRun \in VarRuns
    BY <1>2, <2>1 DEF Variable!NoRun, VarRuns
  <2>3. /\ Variable!NoRun.at = "idle" /\ Variable!NoRun.path = <<>>
        /\ Variable!NoRun.executed = Variable!Zero
    BY DEF Variable!NoRun
  <2>4. VarRun(Variable!NoRun)
    BY <2>1, <2>3 DEF VarRun, VarPath, VarSent
  <2> QED
    BY <2>2, <2>4
<1>4. Variable!NoSave \in VarDrafts /\ ~Variable!NoSave.awaited
  BY VarNoSave
<1>5. VarTypes
  BY <1>1, <1>2, <1>3, <1>4, ClientsAssumption DEF VarTypes
<1> QED
  BY <1>1, <1>2, <1>3, <1>4, <1>5 DEF VarInv, VarDraft

\* The types of a run.
LEMMA VarAt ==
  ASSUME VarInv, NEW r \in Resolutions
  PROVE  /\ run[r] \in VarRuns /\ VarRun(run[r])
         /\ run[r].path \in Seq(VarFrames) /\ run[r].at \in {"idle", "resolving", "done"}
         /\ run[r].print \in [Variables -> 0..2] /\ run[r].forced \in SUBSET Variables
         /\ run[r].mine \in [VarKeys -> VarEntries] /\ run[r].once \in [VarKeys -> VarEntries]
         /\ run[r].executed \in [VarKeys -> Nat]
  BY DEF VarInv, VarTypes, VarRuns

\* A step of one run.
LEMMA VarChanges ==
  ASSUME VarInv, NEW r \in Resolutions, NEW new \in VarRuns, VarRun(new),
         run' = [run EXCEPT ![r] = new], UNCHANGED <<graph, definition, draft>>,
         variableCache' \in [VarKeys -> VarEntries], variableSession' \in [VarKeys -> VarEntries],
         clock' \in 1..MaxTime,
         VarClean(variableCache', definition) \/ UNCHANGED variableCache
  PROVE  VarInv'
<1>1. run' \in [Resolutions -> VarRuns] /\ run'[r] = new /\ \A q \in Resolutions : q # r => run'[q] = run[q]
  BY DEF VarInv, VarTypes
<1>2. VarTypes'
  BY <1>1 DEF VarInv, VarTypes
<1>3. \A q \in Resolutions : VarRun(run'[q])
  BY <1>1 DEF VarInv
<1>4. \A q \in Resolutions : VarRun(run[q])'
  BY <1>3 DEF VarRun, VarPath, VarSent
<1>5. VarDraft'
  BY DEF VarInv, VarDraft, VarClean
<1> QED
  BY <1>2, <1>4, <1>5 DEF VarInv

\* A run that starts has a path of one request.
LEMMA VarBegins ==
  ASSUME VarInv, NEW r \in Resolutions, NEW forced \in SUBSET Variables, NEW frame \in VarFrames,
         Variable!Begin(r, forced, frame)
  PROVE  VarInv'
<1>n. PICK new : new = [Variable!NoRun EXCEPT !.at = "resolving", !.print = definition,
                          !.mine = variableCache, !.forced = forced, !.path = <<frame>>]
  OBVIOUS
<1>1. /\ run' = [run EXCEPT ![r] = new]
      /\ UNCHANGED <<graph, definition, variableCache, variableSession, clock, draft>>
  BY <1>n DEF Variable!Begin
<1>2. new = [at |-> "resolving", print |-> definition, mine |-> variableCache,
             once |-> Variable!Empty, forced |-> forced, path |-> <<frame>>,
             executed |-> Variable!Zero]
  BY <1>n DEF Variable!NoRun
<1>3. /\ Variable!Empty \in [VarKeys -> VarEntries]
      /\ Variable!Zero \in [VarKeys -> Nat] /\ \A k \in VarKeys : Variable!Zero[k] = 0
  BY ClientsAssumption DEF Variable!Empty, Variable!NoEntry, Variable!Keys, Variable!Gone, VarKeys,
     VarEntries, Variable!Zero
<1>4. <<frame>> \in Seq(VarFrames) /\ Len(<<frame>>) = 1 /\ DOMAIN <<frame>> = {1}
  OBVIOUS
<1>5. new \in VarRuns
  BY <1>2, <1>3, <1>4 DEF VarInv, VarTypes, VarRuns
<1>6. VarRun(new)
  <2>1. VarPath(new)
    BY <1>2, <1>4 DEF VarPath
  <2>2. VarSent(new)
    BY <1>2, <1>3 DEF VarSent
  <2>3. new.path # <<>> /\ new.at = "resolving"
    BY <1>2, <1>4
  <2> QED
    BY <2>1, <2>2, <2>3 DEF VarRun
<1> QED
  BY <1>1, <1>5, <1>6, VarChanges DEF VarInv, VarTypes

\* A document is sent, or a variable is executed for the panel.
LEMMA VarAsked ==
  ASSUME VarInv, NEW r \in Resolutions, NEW e \in Active,
         \/ \E d \in Requested : Variable!Send(r, d, e)
         \/ \E v \in Variables : Variable!Execute(r, v, e)
  PROVE  VarInv'
<1>1. e \in Environments /\ graph \in Graphs
  BY ClientsAssumption DEF VarInv, VarTypes
<1>2. ASSUME NEW d \in Requested, Variable!Send(r, d, e) PROVE VarInv'
  <2>1. d \in Documents /\ Variable!Needed(d, definition) \in SUBSET Variables
    BY <1>1, ClientsAssumption DEF Variable!Needed
  <2>2. Variable!Frame(d, e, Variable!Needed(d, definition), <<>>) \in VarFrames
    BY <1>1, <2>1 DEF Variable!Frame, VarFrames
  <2> QED
    BY <1>2, <2>2, VarBegins DEF Variable!Send
<1>3. ASSUME NEW v \in Variables, Variable!Execute(r, v, e) PROVE VarInv'
  <2>1. Variable!Frame(Variable!Panel, e, {v}, <<>>) \in VarFrames
    BY <1>1 DEF Variable!Frame, VarFrames, Variable!Panel
  <2> QED
    BY <1>3, <2>1, VarBegins DEF Variable!Execute
<1> QED
  BY <1>2, <1>3

\* What a run leaves in the workspace's cache is of the definitions of now, and
\* not older than what was there.
LEMMA VarMerges ==
  ASSUME VarInv, NEW mine \in [VarKeys -> VarEntries]
  PROVE  /\ Variable!Merged(mine) \in [VarKeys -> VarEntries]
         /\ VarClean(Variable!Merged(mine), definition)
         /\ \A k \in VarKeys :
               Variable!Merged(mine)[k] # Variable!NoEntry =>
                   Variable!Merged(mine)[k].at >= variableCache[k].at
<1>m. PICK both : both = [k \in VarKeys |->
            IF mine[k] # Variable!NoEntry /\ mine[k].at >= variableCache[k].at
            THEN mine[k] ELSE variableCache[k]]
  OBVIOUS
<1>1. /\ both \in [VarKeys -> VarEntries] /\ Variable!NoEntry \in VarEntries
      /\ \A k \in VarKeys : both[k].at >= variableCache[k].at
  <2>1. Variable!NoEntry \in VarEntries
    BY ClientsAssumption DEF Variable!NoEntry, Variable!Gone, VarEntries
  <2>2. variableCache \in [VarKeys -> VarEntries]
    BY DEF VarInv, VarTypes
  <2>3. \A k \in VarKeys : mine[k] \in VarEntries /\ variableCache[k] \in VarEntries
    BY <2>2
  <2>4. \A k \in VarKeys : both[k] \in VarEntries /\ both[k].at >= variableCache[k].at
    BY <1>m, <2>3 DEF VarEntries
  <2> QED
    BY <1>m, <2>1, <2>4
<1>2. Variable!Merged(mine) =
         [k \in VarKeys |-> IF both[k].print = definition[k[1]] THEN both[k] ELSE Variable!NoEntry]
  BY <1>m DEF Variable!Merged, Variable!Pruned, Variable!Keys, VarKeys
<1>3. Variable!NoEntry.print = 0
  BY VarNoSave
<1> QED
  BY <1>1, <1>2, <1>3 DEF VarClean

\* A run that ends has sent no more than it had.
LEMMA VarEnds ==
  ASSUME VarInv, NEW r \in Resolutions, NEW ending, Variable!Ended(r, ending),
         ending.forced = run[r].forced, ending.mine \in [VarKeys -> VarEntries],
         ending.executed \in [VarKeys -> Nat],
         \A k \in VarKeys : k[1] \notin run[r].forced => ending.executed[k] <= 1,
         UNCHANGED <<graph, definition, draft>>, variableSession' \in [VarKeys -> VarEntries],
         clock' \in 1..MaxTime
  PROVE  VarInv'
<1>n. PICK new : new = [Variable!NoRun EXCEPT !.at = "done", !.forced = ending.forced,
                                              !.executed = ending.executed]
  OBVIOUS
<1>1. /\ run' = [run EXCEPT ![r] = new]
      /\ variableCache' = Variable!Merged(ending.mine) \/ UNCHANGED variableCache
  BY <1>n DEF Variable!Ended
<1>2. new = [at |-> "done", print |-> [v \in Variables |-> Variable!Gone],
             mine |-> Variable!Empty, once |-> Variable!Empty, forced |-> ending.forced,
             path |-> <<>>, executed |-> ending.executed]
  BY <1>n DEF Variable!NoRun
<1>3. /\ Variable!Empty \in [VarKeys -> VarEntries]
      /\ [v \in Variables |-> Variable!Gone] \in [Variables -> 0..2]
  BY ClientsAssumption DEF Variable!Empty, Variable!NoEntry, Variable!Keys, Variable!Gone, VarKeys,
     VarEntries
<1>4. new \in VarRuns
  BY <1>2, <1>3, VarAt DEF VarRuns
<1>5. VarRun(new)
  <2>1. VarPath(new)
    BY <1>2 DEF VarPath
  <2>2. VarSent(new)
    BY <1>2 DEF VarSent
  <2>3. new.path = <<>> /\ new.at = "done"
    BY <1>2
  <2> QED
    BY <2>1, <2>2, <2>3 DEF VarRun
<1>6. /\ variableCache' \in [VarKeys -> VarEntries]
      /\ VarClean(variableCache', definition) \/ UNCHANGED variableCache
  <2>1. CASE variableCache' = Variable!Merged(ending.mine)
    BY <2>1, VarMerges
  <2>2. CASE UNCHANGED variableCache
    BY <2>2 DEF VarInv, VarTypes
  <2> QED
    BY <1>1, <2>1, <2>2
<1> QED
  BY <1>1, <1>4, <1>5, <1>6, VarChanges

\* The cache of a run whose variables failed.
LEMMA VarThrows ==
  ASSUME VarInv, NEW r \in Resolutions, NEW keys
  PROVE  Variable!Thrown(r, keys) \in [VarKeys -> VarEntries]
<1>1. \A k \in VarKeys : Variable!Entry(r, k[1], FALSE) \in VarEntries
  <2> TAKE k \in VarKeys
  <2>1. run[r].print[k[1]] \in 0..2
    BY VarAt DEF VarKeys
  <2>2. clock \in 0..MaxTime
    BY ClientsAssumption DEF VarInv, VarTypes
  <2> QED
    BY <2>1, <2>2 DEF Variable!Entry, VarEntries
<1>2. \A k \in VarKeys : run[r].mine[k] \in VarEntries
  BY VarAt
<1>3. Variable!Thrown(r, keys) =
        [k \in VarKeys |-> IF k \in keys THEN Variable!Entry(r, k[1], FALSE) ELSE run[r].mine[k]]
  BY DEF Variable!Thrown, Variable!Keys, VarKeys
<1> QED
  BY <1>1, <1>2, <1>3

\* A failure of every variable on the path.
LEMMA VarFails ==
  ASSUME VarInv, NEW r \in Resolutions, NEW keys, NEW failing, Variable!Fail(r, keys, failing),
         failing \in VarRuns, failing.forced = run[r].forced,
         \A k \in VarKeys : k[1] \notin run[r].forced => failing.executed[k] <= 1,
         UNCHANGED <<graph, definition, draft>>, variableSession' \in [VarKeys -> VarEntries],
         clock' \in 1..MaxTime
  PROVE  VarInv'
<1>t. PICK thrown : thrown = Variable!Thrown(r, keys)
  OBVIOUS
<1>n. PICK ending : ending = [failing EXCEPT !.mine = thrown]
  OBVIOUS
<1>1. Variable!Ended(r, ending)
  BY <1>n, <1>t DEF Variable!Fail
<1>2. thrown \in [VarKeys -> VarEntries]
  BY <1>t, VarThrows
<1>3. /\ ending.forced = run[r].forced /\ ending.mine = thrown
      /\ ending.executed = failing.executed /\ failing.executed \in [VarKeys -> Nat]
  BY <1>n DEF VarRuns
<1>4. /\ ending.mine \in [VarKeys -> VarEntries] /\ ending.executed \in [VarKeys -> Nat]
      /\ \A k \in VarKeys : k[1] \notin run[r].forced => ending.executed[k] <= 1
  BY <1>2, <1>3
<1> QED
  BY <1>1, <1>3, <1>4, VarEnds

\* The frame at the end of the path of a run that resolves.
LEMMA VarTop ==
  ASSUME VarInv, NEW r \in Resolutions, run[r].at = "resolving", NEW n, n = Len(run[r].path)
  PROVE  /\ n \in Nat \ {0} /\ n \in DOMAIN run[r].path /\ DOMAIN run[r].path = 1..n
         /\ Variable!Top(r) = run[r].path[n] /\ Variable!Top(r) \in VarFrames
<1>1. run[r].path \in Seq(VarFrames) /\ run[r].path # <<>>
  BY VarAt DEF VarRun
<1>2. n \in Nat \ {0} /\ DOMAIN run[r].path = 1..n
  BY <1>1
<1>3. n \in DOMAIN run[r].path
  BY <1>2
<1> QED
  BY <1>1, <1>2, <1>3 DEF Variable!Top

\* A variable that is found needs no more.
LEMMA VarFinds ==
  ASSUME VarInv, NEW r \in Resolutions, run[r].at = "resolving", NEW v \in Variable!Top(r).todo,
         Variable!Cached(r, v)
  PROVE  VarInv'
<1>l. PICK n : n = Len(run[r].path)
  OBVIOUS
<1>p. PICK path : path = Variable!Resolved(run[r].path, v)
  OBVIOUS
<1>n. PICK new : new = [run[r] EXCEPT !.path = path]
  OBVIOUS
<1>1. /\ run \in [Resolutions -> VarRuns] /\ run[r] \in VarRuns /\ run[r].path \in Seq(VarFrames)
      /\ n \in Nat \ {0} /\ DOMAIN run[r].path = 1..n
  BY <1>l, VarTop, VarAt DEF VarInv, VarTypes
<1>2. /\ run' = [run EXCEPT ![r] = new]
      /\ UNCHANGED <<graph, definition, variableCache, variableSession, clock, draft>>
  BY <1>1, <1>n, <1>p DEF Variable!Cached
<1>3. /\ path \in Seq(VarFrames) /\ Len(path) = n /\ DOMAIN path = 1..n /\ path # <<>>
      /\ \A i \in 1..n : /\ path[i].document = run[r].path[i].document
                         /\ path[i].environment = run[r].path[i].environment
                         /\ path[i].for = run[r].path[i].for
  <2>f. PICK frame : frame = [run[r].path[n] EXCEPT !.todo = @ \ {v}]
    OBVIOUS
  <2>1. path = [run[r].path EXCEPT ![n] = frame]
    BY <1>1, <1>l, <1>p, <2>f DEF Variable!Resolved
  <2>2. run[r].path[n] \in VarFrames
    BY <1>1
  <2>3. /\ frame \in VarFrames /\ frame.document = run[r].path[n].document
        /\ frame.environment = run[r].path[n].environment /\ frame.for = run[r].path[n].for
    <3>1. frame = [document |-> run[r].path[n].document,
                   environment |-> run[r].path[n].environment,
                   todo |-> run[r].path[n].todo \ {v}, for |-> run[r].path[n].for]
      BY <2>2, <2>f DEF VarFrames
    <3> QED
      BY <2>2, <3>1 DEF VarFrames
  <2>4. path \in Seq(VarFrames) /\ Len(path) = n
    BY <1>1, <1>l, <2>1, <2>3
  <2>5. \A i \in 1..n : path[i] = IF i = n THEN frame ELSE run[r].path[i]
    BY <1>1, <2>1
  <2> QED
    BY <1>1, <2>3, <2>4, <2>5
<1>4. new = [at |-> "resolving", print |-> run[r].print, mine |-> run[r].mine,
             once |-> run[r].once, forced |-> run[r].forced, path |-> path,
             executed |-> run[r].executed]
  BY <1>1, <1>n DEF VarRuns
<1>5. new \in VarRuns
  BY <1>1, <1>3, <1>4 DEF VarRuns
<1>6. VarRun(new)
  <2>1. VarRun(run[r])
    BY VarAt
  <2>2. VarPath(new)
    BY <1>1, <1>3, <1>4, <2>1 DEF VarRun, VarPath
  <2>3. VarSent(new)
    BY <1>4, <2>1 DEF VarRun, VarSent
  <2>4. new.path # <<>> /\ new.at = "resolving"
    BY <1>3, <1>4
  <2> QED
    BY <2>2, <2>3, <2>4 DEF VarRun
<1> QED
  BY <1>2, <1>5, <1>6, VarChanges DEF VarInv, VarTypes

\* What a run has to send was not sent, or is forced.
LEMMA VarMisses ==
  ASSUME VarInv, NEW r \in Resolutions, run[r].at = "resolving", NEW k \in VarKeys,
         \E fresh \in BOOLEAN : ~Variable!Hits(r, k[1], k, fresh), k[1] \notin run[r].forced
  PROVE  run[r].executed[k] = 0
<1> SUFFICES ASSUME run[r].executed[k] # 0 PROVE FALSE
  OBVIOUS
<1>1. run[r].executed[k] = 1
  <2>1. run[r].executed[k] \in Nat /\ run[r].executed[k] <= 1
    BY VarAt DEF VarRun, VarSent
  <2> QED
    BY <2>1
<1>2. run[r].once[k].ok /\ run[r].once[k].print = run[r].print[k[1]]
  BY <1>1, VarAt DEF VarRun, VarSent
<1>3. run[r].once[k] # Variable!NoEntry
  BY <1>2 DEF Variable!NoEntry
<1>4. \A fresh \in BOOLEAN : Variable!Hits(r, k[1], k, fresh)
  BY <1>2, <1>3 DEF Variable!Hits
<1> QED
  BY <1>4

\* A request that is entered is not on the path, and its variable was not sent.
LEMMA VarEnters ==
  ASSUME VarInv, NEW r \in Resolutions, run[r].at = "resolving", NEW v \in Variable!Top(r).todo,
         Variable!Enter(r, v)
  PROVE  VarInv'
<1>l. PICK n : n = Len(run[r].path)
  OBVIOUS
<1>e. PICK e : e = Variable!SourceEnvironment(v, Variable!Top(r).environment)
  OBVIOUS
<1>d. PICK d : d = graph.source[v]
  OBVIOUS
<1>k. PICK k : k = <<v, e>>
  OBVIOUS
<1>f. PICK frame : frame = Variable!Frame(d, e, Variable!Needed(d, run[r].print), k)
  OBVIOUS
<1>p. PICK path : path = Append(run[r].path, frame)
  OBVIOUS
<1>n. PICK new : new = [run[r] EXCEPT !.path = path]
  OBVIOUS
<1>1. /\ run \in [Resolutions -> VarRuns] /\ run[r] \in VarRuns /\ run[r].path \in Seq(VarFrames)
      /\ n \in Nat \ {0} /\ DOMAIN run[r].path = 1..n /\ VarRun(run[r])
      /\ Variable!Top(r) \in VarFrames /\ graph \in Graphs
  BY <1>l, VarTop, VarAt DEF VarInv, VarTypes
<1>2. /\ v \in Variables /\ e \in Environments /\ k \in VarKeys /\ k[1] = v /\ k[2] = e
  <2>1. v \in Variables /\ Variable!Top(r).environment \in Environments
    BY <1>1 DEF VarFrames
  <2>2. graph.environment[v] \in Environments \cup {current}
    BY <1>1, <2>1, ClientsAssumption
  <2>3. e \in Environments
    BY <1>e, <2>1, <2>2 DEF Variable!SourceEnvironment
  <2> QED
    BY <1>k, <2>1, <2>3 DEF VarKeys
<1>3. /\ UNCHANGED <<graph, definition, variableSession, clock, draft>>
      /\ \E fresh \in BOOLEAN : ~Variable!Hits(r, k[1], k, fresh)
      /\ \/ \E keys : Variable!Fail(r, keys, run[r])
         \/ /\ d \in Documents /\ ~Variable!OnThePath(run[r].path, <<d, e>>)
            /\ run' = [run EXCEPT ![r].path = path] /\ UNCHANGED variableCache
  BY <1>2, <1>d, <1>e, <1>k, <1>f, <1>p DEF Variable!Enter
<1>4. ASSUME NEW keys, Variable!Fail(r, keys, run[r]) PROVE VarInv'
  <2>1. \A i \in VarKeys : i[1] \notin run[r].forced => run[r].executed[i] <= 1
    BY <1>1 DEF VarRun, VarSent
  <2>2. variableSession' \in [VarKeys -> VarEntries] /\ clock' \in 1..MaxTime
    BY <1>3 DEF VarInv, VarTypes
  <2> QED
    BY <1>1, <1>3, <1>4, <2>1, <2>2, VarFails
<1>5. CASE /\ d \in Documents /\ ~Variable!OnThePath(run[r].path, <<d, e>>)
           /\ run' = [run EXCEPT ![r].path = path] /\ UNCHANGED variableCache
  <2>1. /\ frame \in VarFrames /\ frame.document = d /\ frame.environment = e /\ frame.for = k
    <3>1. Variable!Needed(d, run[r].print) \in SUBSET Variables
      BY <1>1, <1>5, ClientsAssumption DEF Variable!Needed
    <3>2. frame = [document |-> d, environment |-> e,
                   todo |-> Variable!Needed(d, run[r].print), for |-> k]
      BY <1>f DEF Variable!Frame
    <3> QED
      BY <1>2, <1>5, <3>1, <3>2 DEF VarFrames
  <2>2. /\ path \in Seq(VarFrames) /\ Len(path) = n + 1 /\ DOMAIN path = 1..(n + 1)
        /\ path[n + 1] = frame /\ \A i \in 1..n : path[i] = run[r].path[i]
    BY <1>1, <1>l, <1>p, <2>1
  <2>3. run' = [run EXCEPT ![r] = new]
    BY <1>1, <1>5, <1>n
  <2>4. new = [at |-> "resolving", print |-> run[r].print, mine |-> run[r].mine,
               once |-> run[r].once, forced |-> run[r].forced, path |-> path,
               executed |-> run[r].executed]
    BY <1>1, <1>n DEF VarRuns
  <2>5. new \in VarRuns
    BY <1>1, <2>2, <2>4 DEF VarRuns
  <2>6. \A i \in 1..n : ~(run[r].path[i].document = d /\ run[r].path[i].environment = e)
    BY <1>1, <1>5 DEF Variable!OnThePath, Variable!Place
  <2>7. \A i \in DOMAIN path : i > 1 =>
          /\ path[i].document \in Documents /\ path[i].for \in VarKeys
          /\ path[i].document = graph.source[path[i].for[1]]
          /\ path[i].environment = path[i].for[2]
          /\ path[i].for[1] \in run[r].forced \/ run[r].executed[path[i].for] = 0
    <3> SUFFICES ASSUME NEW i \in DOMAIN path, i > 1
                 PROVE  /\ path[i].document \in Documents /\ path[i].for \in VarKeys
                        /\ path[i].document = graph.source[path[i].for[1]]
                        /\ path[i].environment = path[i].for[2]
                        /\ path[i].for[1] \in run[r].forced \/ run[r].executed[path[i].for] = 0
      OBVIOUS
    <3>1. CASE i = n + 1
      <4>1. k[1] \notin run[r].forced => run[r].executed[k] = 0
        BY <1>2, <1>3, VarMisses
      <4>2. path[i] = frame
        BY <2>2, <3>1
      <4> QED
        BY <1>2, <1>5, <1>d, <2>1, <4>1, <4>2
    <3>2. CASE i # n + 1
      <4>1. i \in 1..n /\ path[i] = run[r].path[i] /\ i \in DOMAIN run[r].path
        BY <1>1, <2>2, <3>2
      <4> QED
        BY <1>1, <4>1 DEF VarRun, VarPath
    <3> QED
      BY <3>1, <3>2
  <2>8. \A i, j \in DOMAIN path :
          path[i].document = path[j].document /\ path[i].environment = path[j].environment
              => i = j
    <3> SUFFICES ASSUME NEW i \in DOMAIN path, NEW j \in DOMAIN path,
                        path[i].document = path[j].document,
                        path[i].environment = path[j].environment
                 PROVE  i = j
      OBVIOUS
    <3>1. (i \in 1..n \/ i = n + 1) /\ (j \in 1..n \/ j = n + 1)
      BY <1>1, <2>2
    <3>2. CASE i \in 1..n /\ j \in 1..n
      BY <1>1, <2>2, <3>2 DEF VarRun, VarPath
    <3>3. CASE i \in 1..n /\ j = n + 1
      BY <2>1, <2>2, <2>6, <3>3
    <3>4. CASE i = n + 1 /\ j \in 1..n
      BY <2>1, <2>2, <2>6, <3>4
    <3> QED
      BY <3>1, <3>2, <3>3, <3>4
  <2>9. VarRun(new)
    <3>1. VarPath(new)
      BY <2>4, <2>7, <2>8 DEF VarPath
    <3>2. VarSent(new)
      BY <1>1, <2>4 DEF VarRun, VarSent
    <3>3. new.path # <<>> /\ new.at = "resolving"
      BY <1>1, <2>2, <2>4
    <3> QED
      BY <3>1, <3>2, <3>3 DEF VarRun
  <2>10. /\ variableCache' \in [VarKeys -> VarEntries] /\ clock' \in 1..MaxTime
         /\ variableSession' \in [VarKeys -> VarEntries]
         /\ UNCHANGED variableCache
    BY <1>3, <1>5 DEF VarInv, VarTypes
  <2> QED
    BY <1>3, <2>3, <2>5, <2>9, <2>10, VarChanges
<1> QED
  BY <1>3, <1>4, <1>5

\* A run whose path is done ends with what it has.
LEMMA VarFinishes ==
  ASSUME VarInv, NEW r \in Resolutions, Variable!Finish(r) PROVE VarInv'
<1>1. /\ Variable!Ended(r, run[r]) /\ UNCHANGED <<graph, definition, variableSession, clock, draft>>
  BY DEF Variable!Finish
<1>2. /\ run[r].mine \in [VarKeys -> VarEntries] /\ run[r].executed \in [VarKeys -> Nat]
      /\ \A i \in VarKeys : i[1] \notin run[r].forced => run[r].executed[i] <= 1
  BY VarAt DEF VarRun, VarSent
<1>3. variableSession' \in [VarKeys -> VarEntries] /\ clock' \in 1..MaxTime
  BY <1>1 DEF VarInv, VarTypes
<1> QED
  BY <1>1, <1>2, <1>3, VarEnds

\* The request at the end of a path of more than one: it goes out for the first
\* time, unless it is forced.
LEMMA VarReady ==
  ASSUME VarInv, NEW r \in Resolutions, Variable!Ready(r)
  PROVE  LET k == Variable!Top(r).for IN
         /\ run[r].at = "resolving" /\ k \in VarKeys
         /\ (k[1] \in run[r].forced \/ run[r].executed[k] = 0)
<1>l. PICK n : n = Len(run[r].path)
  OBVIOUS
<1>1. n > 1 /\ run[r].path \in Seq(VarFrames) /\ VarRun(run[r])
  BY <1>l, VarAt DEF Variable!Ready
<1>2. run[r].at = "resolving"
  BY <1>1, <1>l DEF VarRun
<1>3. n \in DOMAIN run[r].path /\ Variable!Top(r) = run[r].path[n]
  BY <1>l, <1>2, VarTop
<1> QED
  BY <1>1, <1>2, <1>3 DEF VarRun, VarPath

\* A run that put another request on the wire.
VarOneMore(x, k, m) == [x EXCEPT !.executed[k] = @ + m]

\* It sent each request once still.
LEMMA VarDispatched ==
  ASSUME VarInv, NEW r \in Resolutions, NEW k \in VarKeys, NEW m \in {0, 1},
         k[1] \in run[r].forced \/ run[r].executed[k] = 0
  PROVE  LET sent1 == VarOneMore(run[r], k, m) IN
         /\ sent1 = [at |-> run[r].at, print |-> run[r].print, mine |-> run[r].mine,
               once |-> run[r].once, forced |-> run[r].forced, path |-> run[r].path,
               executed |-> sent1.executed]
         /\ sent1 \in VarRuns /\ sent1.forced = run[r].forced
         /\ \A i \in VarKeys :
               sent1.executed[i] = IF i = k THEN run[r].executed[k] + m ELSE run[r].executed[i]
         /\ \A i \in VarKeys : i[1] \notin run[r].forced => sent1.executed[i] <= 1
<1>1. run[r] \in VarRuns /\ run[r].executed \in [VarKeys -> Nat] /\ VarSent(run[r])
  BY VarAt DEF VarRun
<1>c. PICK counts : counts = [run[r].executed EXCEPT ![k] = @ + m]
  OBVIOUS
<1>s. PICK sent1 : sent1 = VarOneMore(run[r], k, m)
  OBVIOUS
<1>2. sent1 = [at |-> run[r].at, print |-> run[r].print, mine |-> run[r].mine,
               once |-> run[r].once, forced |-> run[r].forced, path |-> run[r].path,
               executed |-> counts]
  BY <1>1, <1>c, <1>s DEF VarRuns, VarOneMore
<1>3. /\ counts \in [VarKeys -> Nat]
      /\ \A i \in VarKeys : counts[i] = IF i = k THEN run[r].executed[k] + m ELSE run[r].executed[i]
  BY <1>1, <1>c
<1>4. \A i \in VarKeys : i[1] \notin run[r].forced => counts[i] <= 1
  BY <1>1, <1>3 DEF VarSent
<1>5. sent1 \in VarRuns /\ sent1.executed = counts /\ sent1.forced = run[r].forced
  BY <1>1, <1>2, <1>3 DEF VarRuns
<1>6. /\ sent1 = [at |-> run[r].at, print |-> run[r].print, mine |-> run[r].mine,
               once |-> run[r].once, forced |-> run[r].forced, path |-> run[r].path,
               executed |-> sent1.executed]
      /\ \A i \in VarKeys :
            sent1.executed[i] = IF i = k THEN run[r].executed[k] + m ELSE run[r].executed[i]
      /\ \A i \in VarKeys : i[1] \notin run[r].forced => sent1.executed[i] <= 1
  BY <1>2, <1>3, <1>4, <1>5
<1> QED
  BY <1>s, <1>5, <1>6

\* A request that is refused fails every variable on the path.
LEMMA VarRejects ==
  ASSUME VarInv, NEW r \in Resolutions, Variable!Rejected(r) PROVE VarInv'
<1>k. PICK k : k = Variable!Top(r).for
  OBVIOUS
<1>1. /\ k \in VarKeys /\ (k[1] \in run[r].forced \/ run[r].executed[k] = 0)
  BY <1>k, VarReady DEF Variable!Rejected
<1>2. PICK m \in {0, 1} : Variable!Fail(r, Variable!OnPath(r), [run[r] EXCEPT !.executed[k] = @ + m])
  BY <1>k DEF Variable!Rejected
<1>s. PICK sent1 : sent1 = VarOneMore(run[r], k, m)
  OBVIOUS
<1>3. /\ sent1 \in VarRuns /\ sent1.forced = run[r].forced
      /\ \A i \in VarKeys : i[1] \notin run[r].forced => sent1.executed[i] <= 1
  BY <1>1, <1>2, <1>s, VarDispatched
<1>4. Variable!Fail(r, Variable!OnPath(r), sent1)
  BY <1>2, <1>s DEF VarOneMore
<1>5. /\ UNCHANGED <<graph, definition, draft>> /\ variableSession' \in [VarKeys -> VarEntries]
      /\ clock' \in 1..MaxTime
  BY DEF Variable!Rejected, VarInv, VarTypes
<1> QED
  BY <1>3, <1>4, <1>5, VarFails

\* What a request returned is there for the rest of the run.
LEMMA VarExtracts ==
  ASSUME VarInv, NEW r \in Resolutions, Variable!Extracted(r) PROVE VarInv'
<1>l. PICK n : n = Len(run[r].path)
  OBVIOUS
<1>k. PICK k : k = Variable!Top(r).for
  OBVIOUS
<1>c. PICK entry : entry = Variable!Entry(r, k[1], TRUE)
  OBVIOUS
<1>s. PICK sent1 : sent1 = VarOneMore(run[r], k, 1)
  OBVIOUS
<1>p. PICK path : path = Variable!Resolved(SubSeq(run[r].path, 1, n - 1), k[1])
  OBVIOUS
<1>n. PICK new : new = [sent1 EXCEPT !.mine[k] = entry, !.once[k] = entry, !.path = path]
  OBVIOUS
<1>1. /\ k \in VarKeys /\ run[r].at = "resolving" /\ n > 1
      /\ (k[1] \in run[r].forced \/ run[r].executed[k] = 0)
  BY <1>k, <1>l, VarReady DEF Variable!Extracted, Variable!Ready
<1>2. /\ sent1 \in VarRuns /\ sent1.forced = run[r].forced
      /\ sent1 = [at |-> run[r].at, print |-> run[r].print, mine |-> run[r].mine,
                  once |-> run[r].once, forced |-> run[r].forced, path |-> run[r].path,
                  executed |-> sent1.executed]
      /\ \A i \in VarKeys :
            sent1.executed[i] = IF i = k THEN run[r].executed[k] + 1 ELSE run[r].executed[i]
      /\ \A i \in VarKeys : i[1] \notin run[r].forced => sent1.executed[i] <= 1
  BY <1>1, <1>s, VarDispatched
<1>3. /\ clock' \in 1..MaxTime /\ UNCHANGED <<graph, definition, draft>>
      /\ \/ Variable!Fail(r, Variable!OnPath(r), sent1) /\ UNCHANGED variableSession
         \/ /\ run' = [run EXCEPT ![r] = new] /\ UNCHANGED variableCache
            /\ \/ variableSession' = [variableSession EXCEPT ![k] = entry]
               \/ UNCHANGED variableSession
  <2>1. clock \in 1..MaxTime /\ MaxTime \in Nat
    BY ClientsAssumption DEF VarInv, VarTypes
  <2>2. PICK ok \in BOOLEAN, tick \in {0, 1} :
           /\ clock + tick <= MaxTime /\ clock' = clock + tick
           /\ IF ~ok THEN Variable!Fail(r, Variable!OnPath(r), sent1) /\ UNCHANGED variableSession
              ELSE /\ run' = [run EXCEPT ![r] = new]
                   /\ variableSession' = IF graph.refresh[k[1]] = "session"
                              THEN [variableSession EXCEPT ![k] = entry] ELSE variableSession
                   /\ UNCHANGED variableCache
    BY <1>k, <1>c, <1>l, <1>s, <1>p, <1>n DEF Variable!Extracted, VarOneMore
  <2>3. clock' \in 1..MaxTime
    BY <2>1, <2>2
  <2>4. UNCHANGED <<graph, definition, draft>>
    BY DEF Variable!Extracted
  <2> QED
    BY <2>2, <2>3, <2>4
<1>4. ASSUME Variable!Fail(r, Variable!OnPath(r), sent1), UNCHANGED variableSession PROVE VarInv'
  <2>1. variableSession' \in [VarKeys -> VarEntries]
    BY <1>4 DEF VarInv, VarTypes
  <2> QED
    BY <1>2, <1>3, <1>4, <2>1, VarFails
<1>5. CASE /\ run' = [run EXCEPT ![r] = new] /\ UNCHANGED variableCache
           /\ \/ variableSession' = [variableSession EXCEPT ![k] = entry]
              \/ UNCHANGED variableSession
  <2>1. /\ run[r].path \in Seq(VarFrames) /\ n \in Nat /\ DOMAIN run[r].path = 1..n
        /\ Variable!Top(r) = run[r].path[n] /\ n \in DOMAIN run[r].path
        /\ VarRun(run[r]) /\ run[r] \in VarRuns
    BY <1>1, <1>l, VarTop, VarAt
  <2>2. entry \in VarEntries /\ entry.ok /\ entry.print = run[r].print[k[1]]
    <3>1. run[r].print[k[1]] \in 0..2
      BY <1>1, VarAt DEF VarKeys
    <3>2. clock \in 0..MaxTime
      BY ClientsAssumption DEF VarInv, VarTypes
    <3> QED
      BY <1>c, <3>1, <3>2 DEF Variable!Entry, VarEntries
  <2>h. PICK head : head = SubSeq(run[r].path, 1, n - 1)
    OBVIOUS
  <2>3. /\ head \in Seq(VarFrames) /\ Len(head) = n - 1
        /\ \A i \in 1..(n - 1) : head[i] = run[r].path[i]
    <3>1. \A i \in 1..(n - 1) : run[r].path[i] \in VarFrames
      BY <2>1
    <3>2. n - 1 \in Int /\ 1 <= n - 1 /\ 1 \in Int
      BY <1>1, <2>1
    <3>3. /\ SubSeq(run[r].path, 1, n - 1) \in Seq(VarFrames)
          /\ Len(SubSeq(run[r].path, 1, n - 1)) = IF 1 <= n - 1 THEN (n - 1) - 1 + 1 ELSE 0
          /\ \A i \in 1..((n - 1) - 1 + 1) :
                 SubSeq(run[r].path, 1, n - 1)[i] = run[r].path[1 + i - 1]
      BY <3>1, <3>2, SubSeqProperties
    <3> QED
      BY <2>1, <2>h, <3>2, <3>3
  <2>4. /\ path \in Seq(VarFrames) /\ Len(path) = n - 1 /\ DOMAIN path = 1..(n - 1)
        /\ path # <<>>
        /\ \A i \in 1..(n - 1) : /\ path[i].document = run[r].path[i].document
                                 /\ path[i].environment = run[r].path[i].environment
                                 /\ path[i].for = run[r].path[i].for
    <3>m. PICK m : m = n - 1
      OBVIOUS
    <3>f. PICK frame : frame = [head[m] EXCEPT !.todo = @ \ {k[1]}]
      OBVIOUS
    <3>0. head \in Seq(VarFrames) /\ Len(head) = m /\ DOMAIN head = 1..m /\ m \in Nat \ {0}
      BY <1>1, <2>1, <2>3, <3>m
    <3>1. path = [head EXCEPT ![m] = frame]
      <4>1. path = Variable!Resolved(head, k[1])
        BY <1>p, <2>h
      <4>2. m \in DOMAIN head
        BY <3>0
      <4> QED
        BY <3>0, <3>f, <4>1, <4>2 DEF Variable!Resolved
    <3>2. head[m] \in VarFrames
      BY <3>0
    <3>3. /\ frame \in VarFrames /\ frame.document = head[m].document
          /\ frame.environment = head[m].environment /\ frame.for = head[m].for
      <4>1. frame = [document |-> head[m].document, environment |-> head[m].environment,
                     todo |-> head[m].todo \ {k[1]}, for |-> head[m].for]
        BY <3>2, <3>f DEF VarFrames
      <4> QED
        BY <3>2, <4>1 DEF VarFrames
    <3>4. path \in Seq(VarFrames) /\ Len(path) = m
      BY <3>0, <3>1, <3>3
    <3>5. \A i \in 1..m : path[i] = IF i = m THEN frame ELSE head[i]
      BY <3>0, <3>1
    <3>6. \A i \in 1..m : head[i] = run[r].path[i]
      BY <2>3, <3>m
    <3>7. DOMAIN path = 1..m /\ path # <<>>
      BY <3>0, <3>4
    <3>8. \A i \in 1..m : /\ path[i].document = run[r].path[i].document
                         /\ path[i].environment = run[r].path[i].environment
                         /\ path[i].for = run[r].path[i].for
      BY <3>3, <3>5, <3>6
    <3> QED
      BY <3>4, <3>7, <3>8, <3>m
  <2>5. /\ new = [at |-> "resolving", print |-> run[r].print,
                  mine |-> [run[r].mine EXCEPT ![k] = entry],
                  once |-> [run[r].once EXCEPT ![k] = entry],
                  forced |-> run[r].forced, path |-> path, executed |-> sent1.executed]
    <3>1. /\ sent1.at = "resolving" /\ sent1.print = run[r].print /\ sent1.mine = run[r].mine
          /\ sent1.once = run[r].once
      BY <1>1, <1>2
    <3>2. new = [at |-> sent1.at, print |-> sent1.print,
                 mine |-> [sent1.mine EXCEPT ![k] = entry],
                 once |-> [sent1.once EXCEPT ![k] = entry],
                 forced |-> sent1.forced, path |-> path, executed |-> sent1.executed]
      BY <1>2, <1>n DEF VarRuns
    <3> QED
      BY <1>2, <3>1, <3>2
  <2>6. /\ [run[r].mine EXCEPT ![k] = entry] \in [VarKeys -> VarEntries]
        /\ [run[r].once EXCEPT ![k] = entry] \in [VarKeys -> VarEntries]
        /\ \A i \in VarKeys :
              [run[r].once EXCEPT ![k] = entry][i] = IF i = k THEN entry ELSE run[r].once[i]
    BY <1>1, <2>2, VarAt
  <2>7. new \in VarRuns
    BY <1>2, <2>1, <2>4, <2>5, <2>6 DEF VarRuns
  <2>8. VarPath(new)
    <3>1. \A i \in 1..(n - 1) : i \in DOMAIN run[r].path /\ i # n
      BY <2>1
    <3>2. \A i \in 1..(n - 1) : i > 1 =>
            /\ path[i].document \in Documents /\ path[i].for \in VarKeys
            /\ path[i].document = graph.source[path[i].for[1]]
            /\ path[i].environment = path[i].for[2]
            /\ path[i].for # k
            /\ path[i].for[1] \in run[r].forced \/ run[r].executed[path[i].for] = 0
      <4> SUFFICES ASSUME NEW i \in 1..(n - 1), i > 1
                   PROVE  /\ path[i].document \in Documents /\ path[i].for \in VarKeys
                          /\ path[i].document = graph.source[path[i].for[1]]
                          /\ path[i].environment = path[i].for[2]
                          /\ path[i].for # k
                          /\ path[i].for[1] \in run[r].forced
                                \/ run[r].executed[path[i].for] = 0
        OBVIOUS
      <4>1. /\ run[r].path[i].document \in Documents /\ run[r].path[i].for \in VarKeys
            /\ run[r].path[i].document = graph.source[run[r].path[i].for[1]]
            /\ run[r].path[i].environment = run[r].path[i].for[2]
            /\ run[r].path[i].for[1] \in run[r].forced
                  \/ run[r].executed[run[r].path[i].for] = 0
        BY <2>1, <3>1 DEF VarRun, VarPath
      <4>2. run[r].path[i].for # k
        <5>1. /\ run[r].path[n].document = graph.source[k[1]]
              /\ run[r].path[n].environment = k[2]
          BY <1>1, <1>k, <2>1 DEF VarRun, VarPath
        <5>2. ~(/\ run[r].path[i].document = run[r].path[n].document
                /\ run[r].path[i].environment = run[r].path[n].environment)
          BY <2>1, <3>1 DEF VarRun, VarPath
        <5> QED
          BY <4>1, <5>1, <5>2
      <4> QED
        BY <2>4, <4>1, <4>2
    <3>3. \A i, j \in 1..(n - 1) :
            path[i].document = path[j].document /\ path[i].environment = path[j].environment
                => i = j
      <4> SUFFICES ASSUME NEW i \in 1..(n - 1), NEW j \in 1..(n - 1),
                          path[i].document = path[j].document,
                          path[i].environment = path[j].environment
                   PROVE  i = j
        OBVIOUS
      <4>1. /\ run[r].path[i].document = run[r].path[j].document
            /\ run[r].path[i].environment = run[r].path[j].environment
        BY <2>4
      <4> QED
        BY <2>1, <3>1, <4>1 DEF VarRun, VarPath
    <3>4. new.path = path /\ new.forced = run[r].forced /\ new.executed = sent1.executed
      BY <2>5
    <3>5. \A i \in DOMAIN path : i > 1 =>
            /\ path[i].document \in Documents /\ path[i].for \in VarKeys
            /\ path[i].document = graph.source[path[i].for[1]]
            /\ path[i].environment = path[i].for[2]
            /\ path[i].for[1] \in run[r].forced \/ sent1.executed[path[i].for] = 0
      BY <1>2, <2>4, <3>2
    <3> QED
      BY <2>4, <3>3, <3>4, <3>5 DEF VarPath
  <2>9. VarSent(new)
    <3> SUFFICES ASSUME NEW i \in VarKeys, i[1] \notin new.forced
                 PROVE  /\ new.executed[i] <= 1
                        /\ new.executed[i] = 1 =>
                               new.once[i].ok /\ new.once[i].print = new.print[i[1]]
      BY DEF VarSent
    <3>1. /\ new.forced = run[r].forced /\ new.executed = sent1.executed
          /\ new.once = [run[r].once EXCEPT ![k] = entry] /\ new.print = run[r].print
      BY <2>5
    <3>2. CASE i = k
      BY <1>2, <2>2, <2>6, <3>1, <3>2
    <3>3. CASE i # k
      <4>1. new.executed[i] = run[r].executed[i] /\ new.once[i] = run[r].once[i]
        BY <1>2, <2>6, <3>1, <3>3
      <4> QED
        BY <1>1, <2>1, <3>1, <4>1 DEF VarRun, VarSent
    <3> QED
      BY <3>2, <3>3
  <2>10. VarRun(new)
    <3>1. new.path # <<>> /\ new.at = "resolving"
      BY <2>4, <2>5
    <3> QED
      BY <2>8, <2>9, <3>1 DEF VarRun
  <2>11. /\ variableCache' \in [VarKeys -> VarEntries]
         /\ UNCHANGED variableCache
    BY <1>5 DEF VarInv, VarTypes
  <2>12. variableSession' \in [VarKeys -> VarEntries]
    <3>1. variableSession \in [VarKeys -> VarEntries]
      BY DEF VarInv, VarTypes
    <3> QED
      BY <1>5, <2>2, <3>1
  <2> QED
    BY <1>3, <1>5, <2>7, <2>10, <2>11, <2>12, VarChanges
<1> QED
  BY <1>3, <1>4, <1>5

\* What pruning leaves.
LEMMA VarPrunes ==
  ASSUME NEW entries \in [VarKeys -> VarEntries], NEW prints \in [Variables -> 0..2]
  PROVE  /\ Variable!Pruned(entries, prints) \in [VarKeys -> VarEntries]
         /\ VarClean(Variable!Pruned(entries, prints), prints)
         /\ \A k \in VarKeys : Variable!Pruned(entries, prints)[k] =
               IF entries[k].print = prints[k[1]] THEN entries[k] ELSE Variable!NoEntry
<1>1. Variable!Pruned(entries, prints) =
        [k \in VarKeys |-> IF entries[k].print = prints[k[1]] THEN entries[k] ELSE Variable!NoEntry]
  BY DEF Variable!Pruned, Variable!Keys, VarKeys
<1> QED
  BY <1>1, VarNoSave DEF VarClean

\* What was cached of a definition goes with it, at once.
LEMMA VarReplaces ==
  ASSUME VarInv, NEW v \in Variables, Variable!Replace(v) PROVE VarInv'
<1>1. /\ UNCHANGED <<graph, variableSession, run, clock, draft>>
      /\ \E print \in {0, 2} : definition' = [definition EXCEPT ![v] = print]
      /\ variableCache' = Variable!Pruned(variableCache, definition')
  BY DEF Variable!Replace, Variable!Gone
<1>2. definition' \in [Variables -> 0..2] /\ variableCache \in [VarKeys -> VarEntries]
  BY <1>1 DEF VarInv, VarTypes
<1>3. variableCache' \in [VarKeys -> VarEntries] /\ VarClean(variableCache', definition')
  BY <1>1, <1>2, VarPrunes
<1>4. VarTypes'
  BY <1>1, <1>2, <1>3 DEF VarInv, VarTypes
<1>5. \A q \in Resolutions : VarRun(run[q])'
  BY <1>1 DEF VarInv, VarRun, VarPath, VarSent
<1>6. VarDraft'
  BY <1>1, <1>3 DEF VarInv, VarDraft
<1> QED
  BY <1>4, <1>5, <1>6 DEF VarInv

\* A draft is sent off.
LEMMA VarDraftsOff ==
  ASSUME VarInv, NEW v \in Variables, Variable!SaveDraft(v) PROVE VarInv'
<1>e. PICK prints : prints = [definition EXCEPT ![v] = 2]
  OBVIOUS
<1>1. /\ UNCHANGED <<graph, definition, variableCache, variableSession, run, clock>>
      /\ draft' = [awaited |-> TRUE,
                   candidate |-> [definition |-> prints,
                                  cache |-> Variable!Pruned(variableCache, prints)],
                   before |-> [definition |-> definition, cache |-> variableCache]]
  BY <1>e DEF Variable!SaveDraft, Variable!Fields
<1>2. /\ definition \in [Variables -> 0..2] /\ variableCache \in [VarKeys -> VarEntries]
      /\ prints \in [Variables -> 0..2]
  BY <1>e DEF VarInv, VarTypes
<1>3. /\ Variable!Pruned(variableCache, prints) \in [VarKeys -> VarEntries]
      /\ \A k \in VarKeys : Variable!Pruned(variableCache, prints)[k] =
            IF variableCache[k].print = prints[k[1]] THEN variableCache[k] ELSE Variable!NoEntry
  BY <1>2, VarPrunes
<1>4. draft' \in VarDrafts
  BY <1>1, <1>2, <1>3 DEF VarDrafts, VarFields
<1>5. VarTypes'
  BY <1>1, <1>4 DEF VarInv, VarTypes
<1>6. \A q \in Resolutions : VarRun(run[q])'
  BY <1>1 DEF VarInv, VarRun, VarPath, VarSent
<1>7. VarDraft'
  BY <1>1, <1>3 DEF VarDraft
<1> QED
  BY <1>5, <1>6, <1>7 DEF VarInv

\* It comes back: the cache is the one of the click, or what the runs that ended
\* meanwhile made of it.
LEMMA VarComesBack ==
  ASSUME VarInv, Variable!Saved
  PROVE  /\ draft.awaited /\ draft' = Variable!NoSave
         /\ UNCHANGED <<graph, variableSession, run, clock>>
         /\ draft.candidate \in VarFields /\ draft.before \in VarFields
         /\ \/ UNCHANGED <<definition, variableCache>>
            \/ /\ definition' = IF definition # draft.before.definition THEN definition
                                ELSE draft.candidate.definition
               /\ variableCache' = IF variableCache # draft.before.cache THEN variableCache
                                   ELSE draft.candidate.cache
  BY DEF Variable!Saved, Variable!Concurrent, VarInv, VarTypes, VarDrafts

\* Nothing is saved any more.
LEMMA VarSaves == ASSUME VarInv, Variable!Saved PROVE VarInv'
<1>1. /\ UNCHANGED <<graph, variableSession, run, clock>>
      /\ definition' \in [Variables -> 0..2] /\ variableCache' \in [VarKeys -> VarEntries]
  BY VarComesBack DEF VarInv, VarTypes, VarFields
<1>2. draft' \in VarDrafts /\ ~draft'.awaited
  BY VarComesBack, VarNoSave
<1>3. VarTypes'
  BY <1>1, <1>2 DEF VarInv, VarTypes
<1>4. \A q \in Resolutions : VarRun(run[q])'
  BY <1>1 DEF VarInv, VarRun, VarPath, VarSent
<1>5. VarDraft'
  BY <1>2 DEF VarDraft
<1> QED
  BY <1>3, <1>4, <1>5 DEF VarInv

\* The invariant of the variables.
LEMMA VarStep == VarInv /\ [Variable!Next]_(Variable!vars) => VarInv'
<1> SUFFICES ASSUME VarInv, [Variable!Next]_(Variable!vars) PROVE VarInv'
  OBVIOUS
<1>1. CASE UNCHANGED Variable!vars
  <2>1. UNCHANGED <<graph, definition, variableCache, variableSession, run, clock, draft>>
    BY <1>1 DEF Variable!vars
  <2> QED
    BY <2>1 DEF VarInv, VarTypes, VarRun, VarPath, VarSent, VarDraft, VarClean
<1>2. ASSUME NEW r \in Resolutions, NEW e \in Active,
             \/ \E d \in Requested : Variable!Send(r, d, e)
             \/ \E v \in Variables : Variable!Execute(r, v, e)
      PROVE  VarInv'
  BY <1>2, VarAsked
<1>3. ASSUME NEW r \in Resolutions, Variable!Progress(r) PROVE VarInv'
  <2>1. CASE Variable!Lookup(r)
    <3>1. run[r].at = "resolving"
      BY <2>1 DEF Variable!Lookup
    <3>2. PICK v \in Variable!Top(r).todo : Variable!Cached(r, v) \/ Variable!Enter(r, v)
      BY <2>1 DEF Variable!Lookup
    <3>3. CASE Variable!Cached(r, v)
      BY <3>1, <3>2, <3>3, VarFinds
    <3>4. CASE Variable!Enter(r, v)
      BY <3>1, <3>2, <3>4, VarEnters
    <3> QED
      BY <3>2, <3>3, <3>4
  <2>2. CASE Variable!Finish(r)
    BY <2>2, VarFinishes
  <2>3. CASE Variable!Rejected(r)
    BY <2>3, VarRejects
  <2>4. CASE Variable!Extracted(r)
    BY <2>4, VarExtracts
  <2> QED
    BY <1>3, <2>1, <2>2, <2>3, <2>4 DEF Variable!Progress
<1>4. ASSUME NEW v \in Variables, Variable!Replace(v) \/ Variable!SaveDraft(v) PROVE VarInv'
  BY <1>4, VarReplaces, VarDraftsOff
<1>5. CASE Variable!Saved
  BY <1>5, VarSaves
<1> QED
  BY <1>1, <1>2, <1>3, <1>4, <1>5 DEF Variable!Next

\* It holds in every run of the front end.
LEMMA VarKeeps == Clients => []VarInv
<1>1. ClientsInit => VarInv
  BY VarStarts DEF ClientsInit
<1> QED
  BY <1>1, VarMoves, VarStep, PTL DEF Clients

\* A run that goes on leaves the cache of the workspace or merges what it has.
LEMMA VarRunsMerge ==
  ASSUME VarInv, NEW r \in Resolutions, Variable!Progress(r)
  PROVE  /\ UNCHANGED <<definition, draft>>
         /\ \/ UNCHANGED variableCache
            \/ \E mine \in [VarKeys -> VarEntries] : variableCache' = Variable!Merged(mine)
<1>r. run[r] \in VarRuns /\ run[r].mine \in [VarKeys -> VarEntries]
  BY VarAt
<1>1. ASSUME NEW keys, NEW failing \in VarRuns, Variable!Fail(r, keys, failing)
      PROVE  \/ UNCHANGED variableCache
             \/ \E mine \in [VarKeys -> VarEntries] : variableCache' = Variable!Merged(mine)
  <2>1. [failing EXCEPT !.mine = Variable!Thrown(r, keys)].mine = Variable!Thrown(r, keys)
    BY DEF VarRuns
  <2>2. Variable!Thrown(r, keys) \in [VarKeys -> VarEntries]
    BY VarThrows
  <2> QED
    BY <1>1, <2>1, <2>2 DEF Variable!Fail, Variable!Ended
<1>2. ASSUME NEW v \in Variable!Top(r).todo, Variable!Cached(r, v)
      PROVE  UNCHANGED <<definition, draft, variableCache>>
  BY <1>2 DEF Variable!Cached
<1>3. ASSUME NEW v \in Variable!Top(r).todo, Variable!Enter(r, v)
      PROVE  /\ UNCHANGED <<definition, draft>>
             /\ UNCHANGED variableCache \/ \E keys : Variable!Fail(r, keys, run[r])
  BY <1>3 DEF Variable!Enter
<1>4. CASE Variable!Finish(r)
  BY <1>4, <1>r DEF Variable!Finish, Variable!Ended
<1>5. ASSUME Variable!Rejected(r) \/ Variable!Extracted(r)
      PROVE  /\ UNCHANGED <<definition, draft>>
             /\ \/ UNCHANGED variableCache
                \/ \E keys : \E failing \in VarRuns : Variable!Fail(r, keys, failing)
  <2>k. PICK key : key = Variable!Top(r).for
    OBVIOUS
  <2>1. key \in VarKeys /\ (key[1] \in run[r].forced \/ run[r].executed[key] = 0)
    BY <1>5, <2>k, VarReady DEF Variable!Rejected, Variable!Extracted
  <2>2. \A m \in {0, 1} : VarOneMore(run[r], key, m) \in VarRuns
    BY <2>1, VarDispatched
  <2>3. /\ UNCHANGED <<definition, draft>>
        /\ \/ UNCHANGED variableCache
           \/ \E m \in {0, 1} : \E keys : Variable!Fail(r, keys, VarOneMore(run[r], key, m))
    BY <1>5, <2>k DEF Variable!Rejected, Variable!Extracted, VarOneMore
  <2> QED
    BY <2>2, <2>3
<1>6. CASE Variable!Lookup(r)
  BY <1>1, <1>2, <1>3, <1>6, <1>r DEF Variable!Lookup
<1>7. CASE Variable!Rejected(r) \/ Variable!Extracted(r)
  BY <1>1, <1>5, <1>7
<1> QED
  BY <1>4, <1>6, <1>7 DEF Variable!Progress

\* How the cache of the workspace changes, by what happens.
LEMMA VarCaches ==
  ASSUME VarInv, [Variable!Next]_(Variable!vars), NEW k \in Variable!Keys
  PROVE  /\ Variable!Outdated(k, variableCache', definition') =>
                /\ variableCache' = variableCache
                /\ Variable!Outdated(k, variableCache, definition) \/ Variable!Overtaken
         /\ variableCache[k] # Variable!NoEntry /\ variableCache'[k] # Variable!NoEntry =>
                variableCache'[k].at >= variableCache[k].at
<1>1. /\ k \in VarKeys /\ k[1] \in Variables /\ variableCache \in [VarKeys -> VarEntries]
      /\ definition \in [Variables -> 0..2] /\ variableCache[k].at \in Nat
  <2>1. k \in VarKeys /\ k[1] \in Variables
    BY DEF Variable!Keys, VarKeys
  <2>2. variableCache \in [VarKeys -> VarEntries] /\ definition \in [Variables -> 0..2]
    BY DEF VarInv, VarTypes
  <2>3. variableCache[k] \in VarEntries
    BY <2>1, <2>2
  <2> QED
    BY <2>1, <2>2, <2>3, ClientsAssumption DEF VarEntries
<1>2. CASE UNCHANGED <<definition, variableCache>>
  BY <1>1, <1>2 DEF Variable!Outdated
<1>3. ASSUME NEW mine \in [VarKeys -> VarEntries], variableCache' = Variable!Merged(mine),
             UNCHANGED definition
      PROVE  /\ ~Variable!Outdated(k, variableCache', definition')
             /\ variableCache'[k] # Variable!NoEntry => variableCache'[k].at >= variableCache[k].at
  BY <1>1, <1>3, VarMerges DEF VarClean, Variable!Outdated, Variable!Gone
<1>4. ASSUME NEW v \in Variables, Variable!Replace(v)
      PROVE  /\ ~Variable!Outdated(k, variableCache', definition')
             /\ variableCache'[k] # Variable!NoEntry => variableCache'[k] = variableCache[k]
  <2>1. /\ variableCache' = Variable!Pruned(variableCache, definition')
        /\ definition' \in [Variables -> 0..2]
    BY <1>1, <1>4 DEF Variable!Replace, Variable!Gone
  <2>2. /\ VarClean(variableCache', definition')
        /\ variableCache'[k] = IF variableCache[k].print = definition'[k[1]]
                               THEN variableCache[k] ELSE Variable!NoEntry
    BY <1>1, <2>1, VarPrunes
  <2> QED
    BY <1>1, <2>2 DEF VarClean, Variable!Outdated, Variable!Gone
<1>5. CASE Variable!Saved
  <2>1. CASE UNCHANGED <<definition, variableCache>>
    BY <1>2, <2>1
  <2>2. CASE variableCache # draft.before.cache /\ variableCache' = variableCache
    <3>1. Variable!Overtaken
      BY <1>5, <2>2, VarComesBack, VarNoSave DEF Variable!Overtaken
    <3> QED
      BY <1>1, <2>2, <3>1
  <2>3. CASE /\ variableCache = draft.before.cache /\ variableCache' = draft.candidate.cache
             /\ definition' = IF definition # draft.before.definition THEN definition
                              ELSE draft.candidate.definition
    <3>1. /\ variableCache'[k] = IF variableCache[k].print = draft.candidate.definition[k[1]]
                                 THEN variableCache[k] ELSE Variable!NoEntry
          /\ definition # draft.before.definition => VarClean(variableCache, definition)
      BY <1>1, <1>5, <2>3, VarComesBack DEF VarInv, VarDraft
    <3>2. variableCache'[k].print \in {0, definition'[k[1]]}
      BY <1>1, <2>3, <3>1, VarNoSave DEF VarClean
    <3> QED
      BY <1>1, <3>1, <3>2 DEF Variable!Outdated, Variable!Gone
  <2> QED
    BY <1>5, <2>1, <2>2, <2>3, VarComesBack
<1>6. ASSUME NEW r \in Resolutions, Variable!Progress(r)
      PROVE  /\ UNCHANGED definition
             /\ \/ UNCHANGED variableCache
                \/ \E mine \in [VarKeys -> VarEntries] : variableCache' = Variable!Merged(mine)
  BY <1>6, VarRunsMerge
<1>7. ASSUME NEW r \in Resolutions, NEW forced, NEW frame, Variable!Begin(r, forced, frame)
      PROVE  UNCHANGED <<definition, variableCache>>
  BY <1>7 DEF Variable!Begin
<1>8. ASSUME NEW v \in Variables, Variable!SaveDraft(v)
      PROVE  UNCHANGED <<definition, variableCache>>
  BY <1>8 DEF Variable!SaveDraft
<1>9. UNCHANGED Variable!vars => UNCHANGED <<definition, variableCache>>
  BY DEF Variable!vars
<1>10. \/ UNCHANGED <<definition, variableCache>>
       \/ \E mine \in [VarKeys -> VarEntries] :
             variableCache' = Variable!Merged(mine) /\ UNCHANGED definition
       \/ \E v \in Variables : Variable!Replace(v)
       \/ Variable!Saved
  BY <1>6, <1>7, <1>8, <1>9 DEF Variable!Next, Variable!Send, Variable!Execute
<1> QED
  BY <1>1, <1>2, <1>3, <1>4, <1>5, <1>10

\* However many documents of a chain need a variable, a run sends its request
\* once; and whatever changes the cache leaves no value of an old definition in
\* it and none that is older, save what a run put there while a draft was being
\* saved (dynamic-variable-resolver.ts; workspace-workbench.tsx,
\* mergeVariableCache; use-workspaces.ts, saveExplicitWorkspace), for every graph
\* of requests and any number of runs.
THEOREM RunsSendOnce == Clients => RunsShareValues
<1>1. VarInv => (part = "variables" => Variable!ExecutedOnce)
  <2> SUFFICES ASSUME VarInv PROVE Variable!ExecutedOnce
    OBVIOUS
  <2> QED
    BY DEF Variable!ExecutedOnce, VarInv, VarRun, VarSent, Variable!Keys, VarKeys
<1>2. VarInv /\ [Variable!Next]_(Variable!vars) => [Variable!KeepsCurrent]_(Variable!vars)
  BY VarCaches DEF Variable!KeepsCurrent
<1> QED
  BY <1>1, <1>2, VarMoves, VarKeeps, PTL DEF RunsShareValues, Clients, Variable!CacheStaysCurrent

\* The requests on a path differ, and so it is no longer than there are requests
\* and environments to execute them in.
LEMMA VarBounded ==
  ASSUME VarInv, NEW r \in Resolutions
  PROVE  Len(run[r].path) <= Cardinality(Documents) * Cardinality(Environments) + 1
<1>l. PICK n : n = Len(run[r].path)
  OBVIOUS
<1>s. PICK places : places = Documents \X Environments
  OBVIOUS
<1>1. run[r].path \in Seq(VarFrames) /\ n \in Nat /\ DOMAIN run[r].path = 1..n /\ VarPath(run[r])
  BY <1>l, VarAt DEF VarRun
<1>2. /\ IsFiniteSet(places) /\ Cardinality(places) = Cardinality(Documents) * Cardinality(Environments)
      /\ Cardinality(places) \in Nat
  <2>1. IsFiniteSet(Documents) /\ IsFiniteSet(Environments)
    BY ClientsAssumption
  <2>2. /\ IsFiniteSet(places)
        /\ Cardinality(places) = Cardinality(Documents) * Cardinality(Environments)
    BY <1>s, <2>1, FS_Product
  <2> QED
    BY <2>2, FS_CardinalityType
<1>f. PICK f : f = [i \in 2..n |-> <<run[r].path[i].document, run[r].path[i].environment>>]
  OBVIOUS
<1>3. f \in [2..n -> places]
  <2>1. \A i \in 2..n : run[r].path[i].document \in Documents
    BY <1>1 DEF VarPath
  <2>2. \A i \in 2..n : run[r].path[i].environment \in Environments
    <3> TAKE i \in 2..n
    <3>1. run[r].path[i] \in VarFrames
      BY <1>1
    <3> QED
      BY <3>1 DEF VarFrames
  <2> QED
    BY <1>f, <1>s, <2>1, <2>2
<1>4. \A i, j \in 2..n : f[i] = f[j] => i = j
  <2> SUFFICES ASSUME NEW i \in 2..n, NEW j \in 2..n, f[i] = f[j] PROVE i = j
    OBVIOUS
  <2>1. i \in DOMAIN run[r].path /\ j \in DOMAIN run[r].path
    BY <1>1
  <2>2. /\ run[r].path[i].document = run[r].path[j].document
        /\ run[r].path[i].environment = run[r].path[j].environment
    BY <1>f
  <2> QED
    BY <1>1, <2>1, <2>2 DEF VarPath
<1>5. IsFiniteSet(2..n) /\ Cardinality(2..n) = IF 2 > n THEN 0 ELSE n - 2 + 1
  <2>1. n \in Int /\ 2 \in Int
    BY <1>1
  <2> QED
    BY <2>1, FS_Interval, Zenon
<1>6. ~(Cardinality(places) < Cardinality(2..n))
  <2> SUFFICES ASSUME Cardinality(places) < Cardinality(2..n) PROVE FALSE
    OBVIOUS
  <2>1. \E i, j \in 2..n : i # j /\ f[i] = f[j]
    BY <1>2, <1>3, <1>5, FS_PigeonHole, Zenon
  <2> QED
    BY <1>4, <2>1
<1>7. n <= Cardinality(places) + 1
  BY <1>1, <1>2, <1>5, <1>6
<1> QED
  BY <1>2, <1>7, <1>l

\* The state of the variables stays of its types.
LEMMA VarTyped == VarInv => Variable!TypeOK
<1> SUFFICES ASSUME VarInv PROVE Variable!TypeOK
  OBVIOUS
<1>1. VarKeys = Variable!Keys /\ VarEntries = Variable!Entries /\ VarFields = Variable!Workspaces
  BY DEF VarKeys, Variable!Keys, VarEntries, Variable!Entries, VarFields, Variable!Workspaces
<1>2. /\ definition \in [Variables -> 0..2] /\ clock \in 1..MaxTime
      /\ variableCache \in [Variable!Keys -> Variable!Entries]
      /\ variableSession \in [Variable!Keys -> Variable!Entries]
      /\ draft \in [awaited : BOOLEAN, candidate : Variable!Workspaces, before : Variable!Workspaces]
  BY <1>1 DEF VarInv, VarTypes, VarDrafts
<1>c. /\ Variable!Cardinality(Documents) = Cardinality(Documents)
      /\ Variable!Cardinality(Environments) = Cardinality(Environments)
  BY Zenon DEF Variable!Cardinality, Cardinality
<1>3. \A r \in Resolutions :
        /\ run[r].at \in {"idle", "resolving", "done"}
        /\ run[r].mine \in [Variable!Keys -> Variable!Entries]
        /\ run[r].once \in [Variable!Keys -> Variable!Entries]
        /\ run[r].path = <<>> <=> run[r].at \in {"idle", "done"}
        /\ Len(run[r].path) <= Cardinality(Documents) * Cardinality(Environments) + 1
  <2> TAKE r \in Resolutions
  <2>1. /\ run[r].at \in {"idle", "resolving", "done"}
        /\ run[r].mine \in [VarKeys -> VarEntries] /\ run[r].once \in [VarKeys -> VarEntries]
        /\ run[r].path = <<>> <=> run[r].at # "resolving"
    BY VarAt DEF VarRun
  <2> QED
    BY <1>1, <2>1, VarBounded
<1> QED
  BY <1>2, <1>3, <1>c DEF Variable!TypeOK
-----------------------------------------------------------------------------
(* Packages of secrets.  Every command that is under way is the open         *)
(* dialog's or was told to stop, and what the native side was asked for is   *)
(* named by the dialog, by the answer or by a cancel command.                *)

\* A step of a transfer is taken by the transfers, and the others leave them
\* alone.
LEMMA TransferMoves == [ClientsNext]_allVars => [Transfer!Next]_(Transfer!vars)
  BY DEF ClientsNext, OfSession, OfExecution, OfChain, OfSecret, OfVariables, OfExit,
         OfSchema, OfGrant, OfTransfer, Only, valueVars, transferVars, allVars, Transfer!vars

TransferDialog ==
    [n : 0..MaxDialogs, mode : {"import", "export"}, staged : Nat, preview : Nat,
     selected : SUBSET Refs, pending : BOOLEAN, expired : BOOLEAN]
TransferCall ==
    [kind : {"none", "inspect", "select", "prepare", "commit", "status", "export"},
     at : {"flushing", "asked", "answered"}, id : Nat, refs : SUBSET Refs,
     result : {"nothing", "given", "failed", "expired", "recovery"}, aborted : BOOLEAN]
TransferReveal == [n : Nat, ref : Refs, late : BOOLEAN]
TransferValues == {None, "own", "incoming"}
TransferSecret == [value : TransferValues, revision : Nat]
TransferPreview ==
    [held : BOOLEAN, read : [Refs -> Nat], seen : [Refs -> TransferValues], files : Nat,
     used : BOOLEAN]
TransferTold == {"nothing", "open", "imported", "not imported", "recovery"}

TransferTypes ==
    /\ dialog \in TransferDialog /\ dialog.staged <= made /\ dialog.preview <= made
    /\ shownSecret \in Refs \cup {None} /\ asked \in Refs \cup {None}
    /\ reveals \in SUBSET TransferReveal
    /\ call \in [1..MaxDialogs -> TransferCall]
    /\ made \in 0..MaxHeld /\ changes \in 0..MaxChanges /\ files \in Nat
    /\ cancels \in SUBSET (1..made) /\ packages \in SUBSET (1..made) /\ over \in SUBSET (1..made)
    /\ previews \in [1..MaxHeld -> TransferPreview]
    /\ device \in [Refs -> TransferSecret]
    /\ journal \in [1..MaxDialogs -> {"missing", "committed", "recovery"}]
    /\ told \in [1..MaxDialogs -> TransferTold]

\* The preview of a name can be imported.
Importable(id) == previews[id].held /\ ~previews[id].used

\* What a command is for, as it is asked and answered.
TransferCallOf(d, c) ==
    /\ c.kind = "none" => c = Transfer!NoCall
    /\ told[d] = "nothing" => c.kind = "none" /\ journal[d] = "missing"
    /\ c.at = "answered" /\ c.kind \in {"select", "prepare"} =>
           IF c.result = "given" THEN c.id \in 1..made ELSE c.id = 0
    /\ c.kind = "commit" \/ (c.at = "answered" /\ c.kind = "prepare") => c.id \notin packages
    /\ c.kind \in {"inspect", "export", "status"} => c.id = 0
    /\ c.kind = "commit" => c.at # "flushing"
    /\ c.kind = "commit" /\ c.at = "asked" => c.id \in 1..made
    /\ c.kind = "commit" /\ c.at = "answered" /\ c.id # 0 => c.id \in 1..made /\ ~Importable(c.id)
    /\ c.at = "answered" /\ c.kind = "select" /\ c.result = "given" => ~previews[c.id].held
    /\ c.at = "answered" /\ c.kind \in {"commit", "status"} =>
           /\ c.result = "given" => journal[d] = "committed"
           /\ c.result = "nothing" => journal[d] = "missing"
    /\ told[d] \in {"imported", "not imported", "recovery"} => c.kind \notin {"commit", "status"}

\* The dialog that is open and its command.
TransferOpen(d, c) ==
    /\ c.kind \in {"select", "prepare"} /\ ~c.aborted => dialog.n = d
    /\ dialog.n = d =>
        /\ told[d] # "nothing" /\ dialog.preview \notin packages
        /\ c.kind = "select" => dialog.staged = 0 /\ dialog.preview = 0
        /\ c.kind = "prepare" =>
            /\ dialog.preview = 0
            /\ c.at # "answered" => dialog.staged = c.id
            /\ c.at = "answered" /\ c.result \in {"given", "expired"} =>
                   dialog.staged \notin packages
        /\ c.kind \in {"commit", "status"} => dialog.pending
        /\ c.kind = "commit" /\ c.at = "asked" => dialog.preview = c.id
        /\ journal[d] # "missing" => dialog.preview # 0 /\ ~Importable(dialog.preview)
        /\ told[d] \in {"imported", "not imported", "recovery"} => dialog.expired /\ ~dialog.pending

TransferDialogInv ==
    /\ dialog.n = 0 => dialog.staged = 0 /\ dialog.preview = 0 /\ shownSecret = None /\ reveals = {}
    /\ dialog.staged = 0 \/ dialog.preview = 0
    /\ dialog.staged # 0 => ~previews[dialog.staged].held
    /\ \A q \in reveals :
        /\ q.n = dialog.n
        /\ ~q.late => /\ q.ref = asked /\ ~dialog.expired /\ ~dialog.pending
                      /\ ~Transfer!Busy(dialog.n)

\* A secret that is at the revision of the preview has the value that was seen.
TransferSeen ==
    /\ \A id \in 1..MaxHeld :
        /\ previews[id].held => id <= made
        /\ previews[id].held => \A r \in Refs :
            /\ previews[id].read[r] <= device[r].revision
            /\ previews[id].read[r] = device[r].revision => previews[id].seen[r] = device[r].value

TransferInv ==
    /\ TransferTypes
    /\ \A d \in 1..MaxDialogs : TransferCallOf(d, call[d]) /\ TransferOpen(d, call[d])
    /\ TransferDialogInv
    /\ TransferSeen
    /\ Transfer!HeldIsKnown /\ Transfer!ToldAsItIs /\ Transfer!ShownIsAsked

\* What the native side holds under a name.
IsHeld(id) == id \in packages \/ Importable(id)

\* A step may use, give up or outdate what is held, and begin new names.
NativeLoses ==
    /\ made <= made'
    /\ \A id \in 1..made :
        /\ id \in packages' => id \in packages
        /\ previews'[id].held => previews[id].held
        /\ previews'[id].held /\ ~previews'[id].used => Importable(id)

\* No package has no name.
LEMMA TransferNone == ASSUME TransferInv PROVE 0 \notin packages
  BY DEF TransferInv, TransferTypes

\* The types of a command, and of the dialog.
LEMMA TransferAt ==
  ASSUME TransferInv, NEW d \in 1..MaxDialogs
  PROVE  /\ call[d] \in TransferCall /\ TransferCallOf(d, call[d]) /\ TransferOpen(d, call[d])
         /\ d # 0 /\ made \in Nat /\ made <= MaxHeld /\ MaxHeld \in Nat /\ MaxDialogs \in Nat
         /\ dialog \in TransferDialog /\ dialog.staged \in 0..made /\ dialog.preview \in 0..made
<1>1. MaxHeld \in Nat /\ MaxDialogs \in Nat
  BY ClientsAssumption
<1>2. dialog \in TransferDialog /\ dialog.staged <= made /\ dialog.preview <= made /\ made \in 0..MaxHeld
  BY DEF TransferInv, TransferTypes
<1>3. dialog.staged \in Nat /\ dialog.preview \in Nat
  BY <1>2 DEF TransferDialog
<1>4. call[d] \in TransferCall
  BY DEF TransferInv, TransferTypes
<1>5. TransferCallOf(d, call[d]) /\ TransferOpen(d, call[d])
  BY DEF TransferInv
<1> QED
  BY <1>1, <1>2, <1>3, <1>4, <1>5

\* A name that was given stays one.
LEMMA TransferNames ==
  ASSUME TransferInv, NativeLoses, TransferTypes', NEW id \in 0..made
  PROVE  /\ id \in 0..made' /\ (id # 0 => id \in 1..made' /\ id \in 1..made)
         /\ id # 0 => /\ id \in packages' => id \in packages
                      /\ previews'[id].held => previews[id].held
                      /\ Importable(id)' => Importable(id)
<1>1. made \in Nat /\ made' \in Nat /\ made <= made'
  BY ClientsAssumption DEF TransferInv, TransferTypes, NativeLoses
<1>2. id \in 0..made' /\ (id # 0 => id \in 1..made' /\ id \in 1..made)
  BY <1>1
<1> QED
  BY <1>2 DEF NativeLoses, Importable

\* The commands of other dialogs do not notice.
LEMMA TransferOthers ==
  ASSUME TransferInv, NEW e \in 1..MaxDialogs,
         call'[e] = call[e], told'[e] = told[e], journal'[e] = journal[e], NativeLoses,
         TransferTypes', dialog.n = e \/ dialog'.n = e => dialog' = dialog
  PROVE  TransferCallOf(e, call[e])' /\ TransferOpen(e, call[e])'
<1>1. /\ call[e] \in TransferCall /\ TransferCallOf(e, call[e]) /\ TransferOpen(e, call[e])
      /\ dialog.staged \in 0..made /\ dialog.preview \in 0..made
  BY TransferAt
<1>2. \A id \in 0..made :
         /\ id \in 0..made' /\ (id # 0 => id \in 1..made' /\ id \in 1..made)
         /\ id # 0 => /\ id \in packages' => id \in packages
                      /\ previews'[id].held => previews[id].held
                      /\ Importable(id)' => Importable(id)
  BY TransferNames
<1>3. TransferCallOf(e, call[e])'
  <2>c. PICK c : c = call[e]
    OBVIOUS
  <2>1. TransferCallOf(e, c) /\ call'[e] = c
    BY <1>1, <2>c
  <2>2. c.id \in 1..made => /\ c.id # 0 /\ c.id \in 1..made'
                            /\ (c.id \in packages' => c.id \in packages)
                            /\ (previews'[c.id].held => previews[c.id].held)
                            /\ (Importable(c.id)' => Importable(c.id))
    BY <1>2
  <2>4. c.kind = "commit" \/ (c.at = "answered" /\ c.kind = "prepare") => c.id \notin packages'
    <3>1. 0 \notin packages'
      BY DEF TransferTypes
    <3>2. c.kind = "commit" \/ (c.at = "answered" /\ c.kind = "prepare") =>
              c.id \notin packages /\ (c.id = 0 \/ c.id \in 1..made)
      BY <1>1, <2>1, <2>c DEF TransferCallOf, TransferCall
    <3> QED
      BY <2>2, <3>1, <3>2
  <2>3. TransferCallOf(e, c)'
    BY <2>1, <2>2, <2>4 DEF TransferCallOf, Transfer!NoCall
  <2> QED
    BY <2>1, <2>3
<1>4. TransferOpen(e, call[e])'
  <2>1. 0 \notin packages'
    BY DEF TransferTypes
  <2>2. CASE dialog' = dialog
    BY <1>1, <1>2, <2>1, <2>2 DEF TransferOpen
  <2>3. CASE dialog.n # e /\ dialog'.n # e
    BY <1>1, <2>3 DEF TransferOpen
  <2> QED
    BY <2>2, <2>3
<1> QED
  BY <1>3, <1>4

\* A step of one command, with what it does to the dialog and to what is held.
LEMMA TransferChanges ==
  ASSUME TransferInv, TransferTypes', NEW d \in 1..MaxDialogs, NEW c \in TransferCall,
         call' = [call EXCEPT ![d] = c], NativeLoses,
         \A e \in 1..MaxDialogs : e # d =>
             /\ told'[e] = told[e] /\ journal'[e] = journal[e]
             /\ dialog.n = e \/ dialog'.n = e => dialog' = dialog,
         TransferCallOf(d, c)', TransferOpen(d, c)', TransferDialogInv', TransferSeen',
         Transfer!ShownIsAsked',
         told'[d] = "imported" => journal'[d] = "committed",
         told'[d] = "not imported" => journal'[d] = "missing",
         \A id \in 1..MaxHeld : IsHeld(id)' =>
             /\ IsHeld(id) \/ (c.at = "answered" /\ c.id = id)
             /\ id \in {dialog.staged, dialog.preview} \cup cancels =>
                    id \in {dialog'.staged, dialog'.preview} \cup cancels'
             /\ call[d].at = "answered" /\ call[d].id = id =>
                    \/ c.at = "answered" /\ c.id = id
                    \/ id \in {dialog'.staged, dialog'.preview} \cup cancels'
  PROVE  TransferInv'
<1>1. /\ call \in [1..MaxDialogs -> TransferCall] /\ call'[d] = c
      /\ \A e \in 1..MaxDialogs : e # d => call'[e] = call[e]
  BY DEF TransferInv, TransferTypes
<1>2. \A e \in 1..MaxDialogs : TransferCallOf(e, call[e])' /\ TransferOpen(e, call[e])'
  <2> TAKE e \in 1..MaxDialogs
  <2>1. CASE e = d
    <3>1. TransferCallOf(d, call[d])' /\ TransferOpen(d, call[d])'
      BY <1>1
    <3> QED
      BY <2>1, <3>1
  <2>2. CASE e # d
    BY <1>1, <2>2, TransferOthers
  <2> QED
    BY <2>1, <2>2
<1>3. Transfer!HeldIsKnown'
  <2> SUFFICES ASSUME NEW id \in 1..MaxHeld, IsHeld(id)'
               PROVE  \/ id \in {dialog'.staged, dialog'.preview} \cup cancels'
                      \/ \E e \in 1..MaxDialogs : call'[e].at = "answered" /\ call'[e].id = id
    BY DEF Transfer!HeldIsKnown, IsHeld, Importable, Transfer!Held, Transfer!Dialogs
  <2>1. CASE c.at = "answered" /\ c.id = id
    BY <1>1, <2>1
  <2>2. CASE IsHeld(id)
    <3>1. \/ id \in {dialog.staged, dialog.preview} \cup cancels
          \/ \E e \in 1..MaxDialogs : call[e].at = "answered" /\ call[e].id = id
      BY <2>2 DEF TransferInv, Transfer!HeldIsKnown, IsHeld, Importable, Transfer!Held,
         Transfer!Dialogs
    <3>2. CASE id \in {dialog.staged, dialog.preview} \cup cancels
      BY <3>2
    <3>3. ASSUME NEW e \in 1..MaxDialogs, call[e].at = "answered", call[e].id = id
          PROVE  \/ id \in {dialog'.staged, dialog'.preview} \cup cancels'
                 \/ \E x \in 1..MaxDialogs : call'[x].at = "answered" /\ call'[x].id = id
      <4>1. CASE e = d
        <5>1. \/ call'[d].at = "answered" /\ call'[d].id = id
              \/ id \in {dialog'.staged, dialog'.preview} \cup cancels'
          BY <1>1, <2>2, <3>3, <4>1
        <5> QED
          BY <5>1
      <4>2. CASE e # d
        BY <1>1, <3>3, <4>2
      <4> QED
        BY <4>1, <4>2
    <3> QED
      BY <3>1, <3>2, <3>3
  <2> QED
    BY <2>1, <2>2
<1>4. Transfer!ToldAsItIs'
  <2>1. \A e \in 1..MaxDialogs :
          /\ told'[e] = "imported" => journal'[e] = "committed"
          /\ told'[e] = "not imported" => journal'[e] = "missing"
    BY DEF TransferInv, Transfer!ToldAsItIs, Transfer!Dialogs
  <2> QED
    BY <2>1 DEF Transfer!ToldAsItIs, Transfer!Dialogs
<1> QED
  BY <1>2, <1>3, <1>4 DEF TransferInv

TransferNative == <<packages, previews, made, over, device, files, changes, journal>>

\* The native side stands still.
LEMMA TransferStill ==
  ASSUME TransferInv, UNCHANGED TransferNative
  PROVE  /\ NativeLoses /\ TransferSeen' /\ \A id : IsHeld(id)' => IsHeld(id)
         /\ UNCHANGED journal
<1>1. NativeLoses
  BY DEF NativeLoses, TransferNative, Importable, TransferInv, TransferTypes
<1>2. TransferSeen'
  BY DEF TransferInv, TransferSeen, TransferNative
<1> QED
  BY <1>1, <1>2 DEF TransferNative, IsHeld, Importable

\* The user acts, or an answer arrives, while the native side stands still.
LEMMA TransferTurns ==
  ASSUME TransferInv, UNCHANGED TransferNative, NEW d \in 1..MaxDialogs, NEW c \in TransferCall,
         call' = [call EXCEPT ![d] = c],
         dialog' \in TransferDialog, dialog'.staged <= made, dialog'.preview <= made,
         shownSecret' \in Refs \cup {None}, asked' \in Refs \cup {None},
         reveals' \in SUBSET TransferReveal, cancels' \in SUBSET (1..made),
         told' \in [1..MaxDialogs -> TransferTold],
         \A e \in 1..MaxDialogs : e # d =>
             /\ told'[e] = told[e]
             /\ dialog.n = e \/ dialog'.n = e => dialog' = dialog,
         TransferCallOf(d, c)', TransferOpen(d, c)', TransferDialogInv',
         Transfer!ShownIsAsked',
         told'[d] = "imported" => journal[d] = "committed",
         told'[d] = "not imported" => journal[d] = "missing",
         \A id \in 1..MaxHeld : IsHeld(id) =>
             /\ id \in {dialog.staged, dialog.preview} \cup cancels =>
                    id \in {dialog'.staged, dialog'.preview} \cup cancels'
             /\ call[d].at = "answered" /\ call[d].id = id =>
                    \/ c.at = "answered" /\ c.id = id
                    \/ id \in {dialog'.staged, dialog'.preview} \cup cancels'
  PROVE  TransferInv'
<1>1. NativeLoses /\ TransferSeen' /\ (\A id : IsHeld(id)' => IsHeld(id)) /\ UNCHANGED journal
  BY TransferStill
<1>2. call' \in [1..MaxDialogs -> TransferCall]
  BY DEF TransferInv, TransferTypes
<1>3. TransferTypes'
  BY <1>2 DEF TransferInv, TransferTypes, TransferNative
<1> QED
  BY <1>1, <1>3, TransferChanges

\* The dialog stays as it is, and is not busier than it was.
LEMMA TransferStays ==
  ASSUME TransferInv, TransferTypes', UNCHANGED <<dialog, shownSecret, asked, reveals>>, NativeLoses,
         dialog.n # 0 /\ Transfer!Busy(dialog.n)' => Transfer!Busy(dialog.n)
  PROVE  TransferDialogInv' /\ Transfer!ShownIsAsked'
<1>1. TransferDialogInv /\ Transfer!ShownIsAsked /\ dialog.staged \in 0..made
  BY ClientsAssumption DEF TransferInv, TransferTypes, TransferDialog
<1>2. dialog.staged # 0 => (previews'[dialog.staged].held => previews[dialog.staged].held)
  BY <1>1, TransferNames
<1>3. (\E q \in reveals : TRUE) \/ shownSecret # None => dialog.n # 0
  BY <1>1 DEF TransferDialogInv
<1>4. TransferDialogInv'
  BY <1>1, <1>2, <1>3 DEF TransferDialogInv
<1>5. Transfer!ShownIsAsked'
  BY <1>1, <1>3 DEF Transfer!ShownIsAsked, Transfer!Nothing
<1> QED
  BY <1>4, <1>5

\* The dialog closes.
LEMMA TransferGivesUp ==
  ASSUME TransferInv, NEW names, Transfer!GivenUp(names)
  PROVE  /\ dialog' \in TransferDialog /\ dialog'.n = 0 /\ dialog'.staged = 0 /\ dialog'.preview = 0
         /\ shownSecret' \in Refs \cup {None} /\ asked' \in Refs \cup {None}
         /\ reveals' \in SUBSET TransferReveal
         /\ dialog'.staged <= made /\ dialog'.preview <= made
         /\ cancels' = cancels \cup (names \ {0})
         /\ TransferDialogInv' /\ Transfer!ShownIsAsked'
<1>1. /\ dialog' = Transfer!Closed /\ shownSecret' = None /\ asked' = None /\ reveals' = {}
      /\ cancels' = cancels \cup (names \ {0})
  BY DEF Transfer!GivenUp, Transfer!Hidden, Transfer!Nothing
<1>2. /\ dialog' \in TransferDialog /\ dialog'.n = 0 /\ dialog'.staged = 0 /\ dialog'.preview = 0
  BY <1>1, ClientsAssumption DEF Transfer!Closed, Transfer!Nothing, TransferDialog
<1>3. made \in Nat
  BY DEF TransferInv, TransferTypes
<1>4. TransferDialogInv'
  BY <1>1, <1>2 DEF TransferDialogInv
<1>5. Transfer!ShownIsAsked'
  BY <1>1 DEF Transfer!ShownIsAsked
<1> QED
  BY <1>1, <1>2, <1>3, <1>4, <1>5

\* What is overtaken is still of the dialog.
LEMMA TransferLate ==
  ASSUME TransferInv
  PROVE  /\ Transfer!Superseded \in SUBSET TransferReveal
         /\ \A q \in Transfer!Superseded : q.late /\ q.n = dialog.n
<1>1. Transfer!Superseded = {[q EXCEPT !.late = TRUE] : q \in reveals}
  BY DEF Transfer!Superseded
<1>2. \A q \in reveals : /\ [q EXCEPT !.late = TRUE] \in TransferReveal
                         /\ [q EXCEPT !.late = TRUE].late /\ [q EXCEPT !.late = TRUE].n = dialog.n
  <2> TAKE q \in reveals
  <2>1. q \in TransferReveal /\ q.n = dialog.n
    BY DEF TransferInv, TransferTypes, TransferDialogInv
  <2>s. PICK s : s = [q EXCEPT !.late = TRUE]
    OBVIOUS
  <2>2. s = [n |-> q.n, ref |-> q.ref, late |-> TRUE]
    BY <2>1, <2>s DEF TransferReveal
  <2>3. s \in TransferReveal /\ s.late /\ s.n = dialog.n
    BY <2>1, <2>2 DEF TransferReveal
  <2> QED
    BY <2>3, <2>s
<1> QED
  BY <1>1, <1>2

\* Whatever was asked for is not waited for any more.
LEMMA TransferHides ==
  ASSUME TransferInv, Transfer!Unasked, dialog'.n = dialog.n, dialog.n # 0,
         dialog'.staged = dialog.staged, dialog'.preview = dialog.preview, UNCHANGED previews
  PROVE  /\ shownSecret' \in Refs \cup {None} /\ asked' \in Refs \cup {None}
         /\ reveals' \in SUBSET TransferReveal
         /\ TransferDialogInv' /\ Transfer!ShownIsAsked'
<1>1. shownSecret' = None /\ asked' = None /\ reveals' = Transfer!Superseded
  BY DEF Transfer!Unasked, Transfer!Hidden
<1>2. reveals' \in SUBSET TransferReveal /\ \A q \in reveals' : q.late /\ q.n = dialog.n
  BY <1>1, TransferLate
<1>3. TransferDialogInv'
  BY <1>2 DEF TransferInv, TransferDialogInv
<1>4. Transfer!ShownIsAsked'
  BY <1>1 DEF Transfer!ShownIsAsked
<1> QED
  BY <1>1, <1>2, <1>3, <1>4

\* The dialog asks for something.
LEMMA TransferSubmits ==
  ASSUME TransferInv, dialog.n # 0, NEW kind \in {"select", "prepare", "commit", "export"},
         NEW place \in {"flushing", "asked"}, NEW id \in Nat, NEW wanted \in SUBSET Refs,
         Transfer!Submitted(kind, place, id, wanted), NEW p \in BOOLEAN,
         dialog' = [dialog EXCEPT !.pending = p], p <=> dialog.pending \/ kind = "commit",
         kind = "select" => dialog.staged = 0 /\ dialog.preview = 0,
         kind = "prepare" => dialog.staged = id /\ dialog.preview = 0,
         kind = "commit" => /\ place = "asked" /\ id = dialog.preview /\ id # 0
                            /\ ~dialog.expired,
         kind = "export" => id = 0
  PROVE  TransferInv'
<1>d. PICK d : d = dialog.n
  OBVIOUS
<1>n. PICK c : c = [Transfer!NoCall EXCEPT !.kind = kind, !.at = place, !.id = id, !.refs = wanted]
  OBVIOUS
<1>1. /\ dialog \in TransferDialog /\ d \in 1..MaxDialogs /\ made \in Nat
      /\ dialog.staged \in 0..made /\ dialog.preview \in 0..made
  <2>1. dialog \in TransferDialog /\ MaxDialogs \in Nat
    BY ClientsAssumption DEF TransferInv, TransferTypes
  <2>2. d \in 1..MaxDialogs
    BY <1>d, <2>1 DEF TransferDialog
  <2> QED
    BY <2>1, <2>2, TransferAt
<1>2. TransferCallOf(d, call[d]) /\ TransferOpen(d, call[d])
  BY <1>1, TransferAt
<1>3. /\ call[d].kind = "none" /\ call' = [call EXCEPT ![d] = c] /\ Transfer!Unasked
      /\ UNCHANGED cancels /\ UNCHANGED told /\ UNCHANGED TransferNative
  BY <1>d, <1>n DEF Transfer!Submitted, Transfer!Busy, Transfer!native, TransferNative
<1>4. c = [kind |-> kind, at |-> place, id |-> id, refs |-> wanted, result |-> "nothing",
           aborted |-> FALSE]
  BY <1>n DEF Transfer!NoCall
<1>5. c \in TransferCall
  BY <1>4 DEF TransferCall
<1>6. /\ dialog' = [n |-> d, mode |-> dialog.mode, staged |-> dialog.staged,
                    preview |-> dialog.preview, selected |-> dialog.selected, pending |-> p,
                    expired |-> dialog.expired]
  BY <1>1, <1>d DEF TransferDialog
<1>7. dialog' \in TransferDialog
  BY <1>1, <1>d, <1>6 DEF TransferDialog
<1>8. /\ shownSecret' \in Refs \cup {None} /\ asked' \in Refs \cup {None}
      /\ reveals' \in SUBSET TransferReveal
      /\ TransferDialogInv' /\ Transfer!ShownIsAsked'
  <2>1. UNCHANGED previews
    BY <1>3 DEF TransferNative
  <2>2. dialog'.n = dialog.n /\ dialog'.staged = dialog.staged /\ dialog'.preview = dialog.preview
    BY <1>6, <1>d
  <2> QED
    BY <1>3, <2>1, <2>2, TransferHides
<1>9. told[d] # "nothing"
  BY <1>2, <1>d DEF TransferOpen
<1>10. TransferCallOf(d, c)'
  <2>1. UNCHANGED <<told, made, previews, journal>>
    BY <1>3 DEF TransferNative
  <2>2. told[d] \in {"imported", "not imported", "recovery"} => dialog.expired
    BY <1>2, <1>d DEF TransferOpen
  <2>3. kind = "commit" => id \in 1..made
    BY <1>1
  <2>4. kind = "commit" => id \notin packages'
    <3>1. UNCHANGED packages
      BY <1>3 DEF TransferNative
    <3> QED
      BY <1>2, <1>d, <3>1 DEF TransferOpen
  <2> QED
    BY <1>4, <1>9, <2>1, <2>2, <2>3, <2>4 DEF TransferCallOf
<1>11. TransferOpen(d, c)'
  <2>1. UNCHANGED <<told, packages, previews, journal>>
    BY <1>3 DEF TransferNative
  <2>2. told[d] \in {"imported", "not imported", "recovery"} =>
            dialog.expired /\ ~dialog.pending /\ kind # "commit"
    BY <1>2, <1>d DEF TransferOpen
  <2>3. journal[d] # "missing" => dialog.preview # 0 /\ ~Importable(dialog.preview)
    BY <1>2, <1>d DEF TransferOpen
  <2>4. Importable(dialog.preview)' <=> Importable(dialog.preview)
    BY <1>6, <2>1 DEF Importable
  <2>5. /\ dialog'.n = d /\ dialog'.staged = dialog.staged /\ dialog'.preview = dialog.preview
        /\ dialog'.pending = p /\ dialog'.expired = dialog.expired
    BY <1>6
  <2>6. c.kind = kind /\ c.at = place /\ c.id = id /\ c.at # "answered"
    BY <1>4
  <2>7. dialog'.preview \notin packages'
    <3>1. dialog.preview \notin packages
      BY <1>2, <1>d DEF TransferOpen
    <3> QED
      BY <2>1, <2>5, <3>1
  <2> QED
    BY <1>9, <2>1, <2>2, <2>3, <2>4, <2>5, <2>6, <2>7 DEF TransferOpen
<1>12. \A e \in 1..MaxDialogs : e # d =>
          /\ told'[e] = told[e]
          /\ dialog.n = e \/ dialog'.n = e => dialog' = dialog
  BY <1>3, <1>6, <1>d
<1>13. \A i \in 1..MaxHeld :
          /\ i \in {dialog.staged, dialog.preview} \cup cancels =>
                i \in {dialog'.staged, dialog'.preview} \cup cancels'
          /\ call[d].at # "answered"
  <2>1. call[d].at = "asked"
    BY <1>2, <1>3 DEF TransferCallOf, Transfer!NoCall
  <2> QED
    BY <1>3, <1>6, <2>1
<1>14. /\ cancels' \in SUBSET (1..made) /\ told' \in [1..MaxDialogs -> TransferTold]
       /\ dialog'.staged <= made /\ dialog'.preview <= made
  BY <1>1, <1>3, <1>6 DEF TransferInv, TransferTypes
<1>15. /\ told'[d] = "imported" => journal[d] = "committed"
       /\ told'[d] = "not imported" => journal[d] = "missing"
  BY <1>1, <1>3 DEF TransferInv, Transfer!ToldAsItIs, Transfer!Dialogs
<1> QED
  BY <1>1, <1>3, <1>5, <1>7, <1>8, <1>10, <1>11, <1>12, <1>13, <1>14, <1>15, TransferTurns

\* Submit, in each of its meanings.
LEMMA TransferAsks ==
  ASSUME TransferInv,
         Transfer!Choose \/ Transfer!Unlock \/ Transfer!Import \/ Transfer!Export
  PROVE  TransferInv'
<1>1. /\ dialog \in TransferDialog /\ dialog.staged \in Nat /\ dialog.preview \in Nat
      /\ dialog.selected \in SUBSET Refs /\ dialog.pending \in BOOLEAN
      /\ dialog = [dialog EXCEPT !.pending = dialog.pending]
  BY DEF TransferInv, TransferTypes, TransferDialog
<1>2. /\ dialog.n = 0 => dialog.staged = 0 /\ dialog.preview = 0
      /\ dialog.staged = 0 \/ dialog.preview = 0
  BY DEF TransferInv, TransferDialogInv
<1>3. CASE Transfer!Choose
  <2>1. /\ dialog.n # 0 /\ dialog.staged = 0 /\ dialog.preview = 0
        /\ Transfer!Submitted("select", "flushing", 0, {}) /\ UNCHANGED dialog
    BY <1>3 DEF Transfer!Choose, Transfer!Nothing
  <2>2. 0 \in Nat /\ {} \in SUBSET Refs /\ dialog' = [dialog EXCEPT !.pending = dialog.pending]
    BY <1>1, <2>1
  <2> QED
    BY <1>1, <2>1, <2>2, TransferSubmits
<1>4. CASE Transfer!Unlock
  <2>1. /\ dialog.staged # 0 /\ UNCHANGED dialog
        /\ Transfer!Submitted("prepare", "flushing", dialog.staged, {})
    BY <1>4 DEF Transfer!Unlock, Transfer!Nothing
  <2>2. /\ {} \in SUBSET Refs /\ dialog' = [dialog EXCEPT !.pending = dialog.pending]
        /\ dialog.n # 0 /\ dialog.preview = 0
    BY <1>1, <1>2, <2>1
  <2> QED
    BY <1>1, <2>1, <2>2, TransferSubmits
<1>5. CASE Transfer!Import
  <2>1. /\ dialog.preview # 0 /\ ~dialog.expired /\ dialog' = [dialog EXCEPT !.pending = TRUE]
        /\ Transfer!Submitted("commit", "asked", dialog.preview, dialog.selected)
    BY <1>5 DEF Transfer!Import, Transfer!Nothing
  <2>2. dialog.n # 0
    BY <1>2, <2>1
  <2> QED
    BY <1>1, <2>1, <2>2, TransferSubmits
<1>6. CASE Transfer!Export
  <2>1. /\ dialog.n # 0 /\ UNCHANGED dialog
        /\ Transfer!Submitted("export", "flushing", 0, dialog.selected)
    BY <1>6 DEF Transfer!Export, Transfer!Nothing
  <2>2. 0 \in Nat /\ dialog' = [dialog EXCEPT !.pending = dialog.pending]
    BY <1>1, <2>1
  <2> QED
    BY <1>1, <2>1, <2>2, TransferSubmits
<1> QED
  BY <1>3, <1>4, <1>5, <1>6

\* The dialog that is open and its command.
LEMMA TransferMounted ==
  ASSUME TransferInv, dialog.n # 0
  PROVE  /\ dialog \in TransferDialog /\ dialog.n \in 1..MaxDialogs /\ made \in Nat
         /\ dialog.staged \in 0..made /\ dialog.preview \in 0..made
         /\ TransferCallOf(dialog.n, call[dialog.n]) /\ TransferOpen(dialog.n, call[dialog.n])
         /\ call[dialog.n] \in TransferCall /\ told[dialog.n] # "nothing"
         /\ call \in [1..MaxDialogs -> TransferCall]
<1>1. dialog \in TransferDialog /\ MaxDialogs \in Nat /\ call \in [1..MaxDialogs -> TransferCall]
  BY ClientsAssumption DEF TransferInv, TransferTypes
<1>2. dialog.n \in 1..MaxDialogs
  BY <1>1 DEF TransferDialog
<1>d. PICK d : d = dialog.n
  OBVIOUS
<1>3. /\ call[d] \in TransferCall /\ TransferCallOf(d, call[d]) /\ TransferOpen(d, call[d])
      /\ made \in Nat /\ dialog.staged \in 0..made /\ dialog.preview \in 0..made
  BY <1>2, <1>d, TransferAt
<1>4. told[d] # "nothing"
  BY <1>3, <1>d DEF TransferOpen
<1> QED
  BY <1>1, <1>2, <1>3, <1>4, <1>d

\* What stays true of a command while nothing happens to it but that it is told
\* to stop.
LEMMA TransferAborts ==
  ASSUME TransferInv, UNCHANGED TransferNative, UNCHANGED told, NEW d \in 1..MaxDialogs,
         NEW b \in BOOLEAN, call[d].kind # "none" \/ b = call[d].aborted,
         NEW c, c = [call[d] EXCEPT !.aborted = b]
  PROVE  /\ c = [kind |-> call[d].kind, at |-> call[d].at, id |-> call[d].id,
                 refs |-> call[d].refs, result |-> call[d].result, aborted |-> b]
         /\ c \in TransferCall /\ TransferCallOf(d, c)'
<1>1. call[d] \in TransferCall /\ TransferCallOf(d, call[d])
  BY TransferAt
<1>2. c = [kind |-> call[d].kind, at |-> call[d].at, id |-> call[d].id,
           refs |-> call[d].refs, result |-> call[d].result, aborted |-> b]
  BY <1>1 DEF TransferCall
<1>3. c \in TransferCall
  BY <1>1, <1>2 DEF TransferCall
<1>4. c.kind = "none" => c = call[d]
  BY <1>1, <1>2 DEF TransferCall
<1>5. UNCHANGED <<told, made, packages, previews, journal>>
  BY DEF TransferNative
<1>6. TransferCallOf(d, c)
  BY <1>1, <1>2, <1>4 DEF TransferCallOf
<1>7. TransferCallOf(d, c)'
  BY <1>5, <1>6 DEF TransferCallOf, Transfer!NoCall, Importable
<1> QED
  BY <1>2, <1>3, <1>7

\* The user turns the pages of the dialog.
LEMMA TransferTouches ==
  ASSUME TransferInv, UNCHANGED TransferNative, UNCHANGED <<call, told>>, dialog.n # 0,
         NEW chosen \in SUBSET Refs, NEW g \in {dialog.staged, 0}, NEW x \in BOOLEAN,
         dialog' = [dialog EXCEPT !.selected = chosen, !.staged = g, !.expired = x],
         dialog.expired => x,
         g # dialog.staged => call[dialog.n].kind = "none" /\ dialog.staged \in cancels',
         cancels \subseteq cancels', cancels' \in SUBSET (1..made),
         shownSecret' \in Refs \cup {None}, asked' \in Refs \cup {None},
         reveals' \in SUBSET TransferReveal, TransferDialogInv', Transfer!ShownIsAsked'
  PROVE  TransferInv'
<1>d. PICK d : d = dialog.n
  OBVIOUS
<1>n. PICK c : c = call[d]
  OBVIOUS
<1>1. /\ dialog \in TransferDialog /\ d \in 1..MaxDialogs /\ made \in Nat
      /\ dialog.staged \in 0..made /\ dialog.preview \in 0..made
      /\ TransferCallOf(d, c) /\ TransferOpen(d, c) /\ c \in TransferCall
      /\ call \in [1..MaxDialogs -> TransferCall]
  BY <1>d, <1>n, TransferMounted
<1>2. dialog' = [n |-> d, mode |-> dialog.mode, staged |-> g, preview |-> dialog.preview,
                 selected |-> chosen, pending |-> dialog.pending, expired |-> x]
  BY <1>1, <1>d DEF TransferDialog
<1>3. dialog' \in TransferDialog /\ dialog'.staged <= made /\ dialog'.preview <= made
  BY <1>1, <1>d, <1>2 DEF TransferDialog
<1>4. call' = [call EXCEPT ![d] = c]
  BY <1>1, <1>n
<1>5. UNCHANGED <<told, made, previews, journal, packages>>
  BY DEF TransferNative
<1>6. TransferCallOf(d, c)'
  BY <1>1, <1>5 DEF TransferCallOf, Transfer!NoCall, Importable
<1>7. TransferOpen(d, c)'
  <2>1. /\ dialog'.n = d /\ dialog'.staged = g /\ dialog'.preview = dialog.preview
        /\ dialog'.pending = dialog.pending /\ dialog'.expired = x
    BY <1>2, <1>d
  <2>2. g # dialog.staged => c.kind = "none" /\ g = 0
    BY <1>d, <1>n
  <2>3. Importable(dialog.preview)' <=> Importable(dialog.preview)
    BY <2>1, <1>5 DEF Importable
  <2>4. /\ c.kind \in {"select", "prepare"} /\ ~c.aborted => dialog'.n = d
    BY <2>1
  <2>5. /\ told[d] # "nothing"
        /\ c.kind = "select" => g = 0 /\ dialog.preview = 0
        /\ c.kind = "prepare" =>
            /\ dialog.preview = 0
            /\ c.at # "answered" => g = c.id
            /\ c.at = "answered" /\ c.result \in {"given", "expired"} => g \notin packages
        /\ c.kind \in {"commit", "status"} => dialog.pending
        /\ c.kind = "commit" /\ c.at = "asked" => dialog.preview = c.id
        /\ journal[d] # "missing" => dialog.preview # 0 /\ ~Importable(dialog.preview)
        /\ told[d] \in {"imported", "not imported", "recovery"} => x /\ ~dialog.pending
    BY <1>1, <1>d, <2>2 DEF TransferOpen
  <2>6. told'[d] \in {"imported", "not imported", "recovery"} => dialog'.expired /\ ~dialog'.pending
    BY <1>5, <2>1, <2>5
  <2>7. c.kind \in {"commit", "status"} => dialog'.pending
    BY <2>1, <2>5
  <2>8. /\ told'[d] # "nothing"
        /\ c.kind = "select" => dialog'.staged = 0 /\ dialog'.preview = 0
        /\ c.kind = "prepare" =>
            /\ dialog'.preview = 0
            /\ c.at # "answered" => dialog'.staged = c.id
        /\ c.kind = "commit" /\ c.at = "asked" => dialog'.preview = c.id
    BY <1>5, <2>1, <2>5
  <2>10. c.kind = "prepare" /\ c.at = "answered" /\ c.result \in {"given", "expired"} =>
             dialog'.staged \notin packages'
    <3>1. packages' = packages /\ dialog'.staged = g
      BY <1>5, <2>1
    <3>2. c.kind = "prepare" /\ c.at = "answered" /\ c.result \in {"given", "expired"} =>
              g \notin packages
      BY <2>5
    <3> QED
      BY <3>1, <3>2
  <2>9. journal'[d] # "missing" => dialog'.preview # 0 /\ ~Importable(dialog.preview)'
    BY <1>5, <2>1, <2>3, <2>5
  <2>11. dialog'.preview \notin packages'
    <3>1. dialog.preview \notin packages
      BY <1>1, <1>d DEF TransferOpen
    <3> QED
      BY <1>5, <2>1, <3>1
  <2> QED
    BY <2>4, <2>6, <2>7, <2>8, <2>9, <2>10, <2>11 DEF TransferOpen
<1>8. \A e \in 1..MaxDialogs : e # d =>
          /\ told'[e] = told[e]
          /\ dialog.n = e \/ dialog'.n = e => dialog' = dialog
  BY <1>2, <1>d
<1>9. \A i \in 1..MaxHeld : IsHeld(i) =>
          /\ i \in {dialog.staged, dialog.preview} \cup cancels =>
                i \in {dialog'.staged, dialog'.preview} \cup cancels'
          /\ call[d].at = "answered" /\ call[d].id = i =>
                \/ c.at = "answered" /\ c.id = i
                \/ i \in {dialog'.staged, dialog'.preview} \cup cancels'
  <2>1. dialog'.staged = g /\ dialog'.preview = dialog.preview
    BY <1>2
  <2> QED
    BY <1>n, <2>1
<1>10. /\ told' \in [1..MaxDialogs -> TransferTold]
       /\ told'[d] = "imported" => journal[d] = "committed"
       /\ told'[d] = "not imported" => journal[d] = "missing"
  BY <1>1, <1>5 DEF TransferInv, TransferTypes, Transfer!ToldAsItIs, Transfer!Dialogs
<1> QED
  BY <1>1, <1>3, <1>4, <1>6, <1>7, <1>8, <1>9, <1>10, TransferTurns

\* A name that is none is not among those given.
LEMMA TransferGiven == ASSUME NEW n \in Nat PROVE (0..n) \ {0} \subseteq 1..n
  OBVIOUS

\* The dialog stays as it is while a command of one goes on or ends.
LEMMA TransferGoesOn ==
  ASSUME TransferInv, UNCHANGED TransferNative, NEW d \in 1..MaxDialogs, NEW c \in TransferCall,
         call' = [call EXCEPT ![d] = c], UNCHANGED <<dialog, shownSecret, asked, reveals>>,
         cancels \subseteq cancels', cancels' \in SUBSET (1..made),
         told' \in [1..MaxDialogs -> TransferTold],
         \A e \in 1..MaxDialogs : e # d => told'[e] = told[e],
         TransferCallOf(d, c)', TransferOpen(d, c)',
         d = dialog.n => call[d].kind # "none" \/ c.kind = "none",
         told'[d] = "imported" => journal[d] = "committed",
         told'[d] = "not imported" => journal[d] = "missing",
         \A id \in 1..MaxHeld : IsHeld(id) /\ call[d].at = "answered" /\ call[d].id = id =>
             \/ c.at = "answered" /\ c.id = id
             \/ id \in {dialog.staged, dialog.preview} \cup cancels'
  PROVE  TransferInv'
<1>1. /\ dialog \in TransferDialog /\ dialog.staged <= made /\ dialog.preview <= made
      /\ shownSecret \in Refs \cup {None} /\ asked \in Refs \cup {None}
      /\ reveals \in SUBSET TransferReveal /\ call \in [1..MaxDialogs -> TransferCall]
  BY DEF TransferInv, TransferTypes
<1>2. /\ call' \in [1..MaxDialogs -> TransferCall] /\ call'[d] = c
      /\ \A e \in 1..MaxDialogs : e # d => call'[e] = call[e]
  BY <1>1
<1>3. TransferTypes' /\ NativeLoses
  <2>1. TransferTypes'
    BY <1>1, <1>2 DEF TransferInv, TransferTypes, TransferNative
  <2> QED
    BY <2>1, TransferStill
<1>4. dialog.n # 0 => dialog.n \in 1..MaxDialogs
  BY TransferMounted
<1>5. dialog.n # 0 /\ Transfer!Busy(dialog.n)' => Transfer!Busy(dialog.n)
  <2>1. CASE dialog.n = d
    BY <1>2, <2>1 DEF Transfer!Busy
  <2>2. CASE dialog.n # d
    BY <1>2, <1>4, <2>2 DEF Transfer!Busy
  <2> QED
    BY <2>1, <2>2
<1>6. TransferDialogInv' /\ Transfer!ShownIsAsked'
  BY <1>3, <1>5, TransferStays
<1> QED
  BY <1>1, <1>6, TransferTurns

\* The dialog closes, with the command it waits for going on or ended.
LEMMA TransferShuts ==
  ASSUME TransferInv, UNCHANGED TransferNative, NEW d \in 1..MaxDialogs, d = dialog.n, NEW c \in TransferCall,
         call' = [call EXCEPT ![d] = c], NEW names, Transfer!GivenUp(names),
         names \subseteq 0..made, told' \in [1..MaxDialogs -> TransferTold],
         \A e \in 1..MaxDialogs : e # d => told'[e] = told[e],
         TransferCallOf(d, c)', c.kind \in {"select", "prepare"} => c.aborted,
         told'[d] = "imported" => journal[d] = "committed",
         told'[d] = "not imported" => journal[d] = "missing",
         \A id \in 1..MaxHeld : IsHeld(id) =>
             /\ id \in {dialog.staged, dialog.preview} => id \in names
             /\ call[d].at = "answered" /\ call[d].id = id =>
                 \/ c.at = "answered" /\ c.id = id
                 \/ id \in names
  PROVE  TransferInv'
<1>1. made \in Nat /\ MaxDialogs \in Nat /\ cancels \in SUBSET (1..made)
  BY TransferAt DEF TransferInv, TransferTypes
<1>2. /\ dialog' \in TransferDialog /\ dialog'.n = 0 /\ dialog'.staged = 0 /\ dialog'.preview = 0
      /\ shownSecret' \in Refs \cup {None} /\ asked' \in Refs \cup {None}
      /\ reveals' \in SUBSET TransferReveal
      /\ dialog'.staged <= made /\ dialog'.preview <= made
      /\ cancels' = cancels \cup (names \ {0})
      /\ TransferDialogInv' /\ Transfer!ShownIsAsked'
  BY TransferGivesUp
<1>3. cancels' \in SUBSET (1..made)
  <2>1. (0..made) \ {0} \subseteq 1..made
    BY <1>1, TransferGiven
  <2> QED
    BY <1>1, <1>2, <2>1
<1>4. \A e \in 1..MaxDialogs : e # d =>
          /\ told'[e] = told[e]
          /\ dialog.n = e \/ dialog'.n = e => dialog' = dialog
  <2>1. \A e \in 1..MaxDialogs : e # 0
    BY TransferAt
  <2> QED
    BY <1>2, <2>1
<1>5. TransferOpen(d, c)'
  <2>1. dialog'.n # d
    BY <1>1, <1>2, TransferAt
  <2> QED
    BY <1>2, <2>1 DEF TransferOpen
<1>6. \A i \in 1..MaxHeld : IsHeld(i) =>
          /\ i \in {dialog.staged, dialog.preview} \cup cancels =>
                i \in {dialog'.staged, dialog'.preview} \cup cancels'
          /\ call[d].at = "answered" /\ call[d].id = i =>
                \/ c.at = "answered" /\ c.id = i
                \/ i \in {dialog'.staged, dialog'.preview} \cup cancels'
  BY <1>2
<1> QED
  BY <1>1, <1>2, <1>3, <1>4, <1>5, <1>6, TransferTurns

\* The user turns pages, asks for a value or changes the package; the timer of
\* the preview runs down; a value arrives.
LEMMA TransferShown ==
  ASSUME TransferInv,
         \/ \E r \in Refs : Transfer!Toggle(r) \/ Transfer!Reveal(r)
         \/ Transfer!ChangeFiles \/ Transfer!Expire
         \/ \E q \in reveals : Transfer!Revealed(q)
  PROVE  TransferInv'
<1>1. /\ dialog \in TransferDialog /\ dialog.selected \in SUBSET Refs /\ dialog.expired \in BOOLEAN
      /\ dialog.staged \in Nat /\ dialog.preview \in Nat
      /\ cancels \in SUBSET (1..made) /\ shownSecret \in Refs \cup {None}
      /\ asked \in Refs \cup {None} /\ reveals \in SUBSET TransferReveal
      /\ dialog = [dialog EXCEPT !.selected = dialog.selected, !.staged = dialog.staged,
                                 !.expired = dialog.expired]
  BY DEF TransferInv, TransferTypes, TransferDialog
<1>2. TransferDialogInv /\ Transfer!ShownIsAsked
  BY DEF TransferInv
<1>3. dialog.n = 0 => dialog.staged = 0 /\ dialog.preview = 0 /\ reveals = {}
  BY <1>2 DEF TransferDialogInv
<1>4. ASSUME NEW r \in Refs, Transfer!Toggle(r) PROVE TransferInv'
  <2>n. PICK chosen : chosen = IF r \in dialog.selected THEN dialog.selected \ {r}
                               ELSE dialog.selected \cup {r}
    OBVIOUS
  <2>1. /\ dialog.n # 0 /\ ~Transfer!Busy(dialog.n)
        /\ dialog' = [dialog EXCEPT !.selected = chosen]
        /\ UNCHANGED <<shownSecret, asked, reveals, call, cancels, told>>
        /\ UNCHANGED TransferNative
    BY <1>4, <2>n DEF Transfer!Toggle, Transfer!Nothing, Transfer!native, TransferNative
  <2>2. chosen \in SUBSET Refs
    BY <1>1, <2>n
  <2>3. /\ dialog' = [dialog EXCEPT !.selected = chosen, !.staged = dialog.staged,
                                    !.expired = dialog.expired]
        /\ dialog'.n = dialog.n /\ dialog'.staged = dialog.staged
        /\ dialog'.preview = dialog.preview /\ dialog'.expired = dialog.expired
        /\ dialog'.pending = dialog.pending
    <3>1. dialog' = [n |-> dialog.n, mode |-> dialog.mode, staged |-> dialog.staged,
                     preview |-> dialog.preview, selected |-> chosen,
                     pending |-> dialog.pending, expired |-> dialog.expired]
      BY <1>1, <2>1 DEF TransferDialog
    <3>y. PICK y : y = [dialog EXCEPT !.selected = chosen, !.staged = dialog.staged,
                         !.expired = dialog.expired]
      OBVIOUS
    <3>2. y = [n |-> dialog.n, mode |-> dialog.mode, staged |-> dialog.staged,
                     preview |-> dialog.preview, selected |-> chosen,
                     pending |-> dialog.pending, expired |-> dialog.expired]
      BY <1>1, <3>y DEF TransferDialog
    <3> QED
      BY <3>1, <3>2, <3>y
  <2>4. TransferDialogInv' /\ Transfer!ShownIsAsked'
    BY <1>2, <2>1, <2>3
       DEF TransferDialogInv, Transfer!ShownIsAsked, Transfer!Busy, TransferNative
  <2> QED
    BY <1>1, <2>1, <2>2, <2>3, <2>4, TransferTouches
<1>5. ASSUME NEW r \in Refs, Transfer!Reveal(r) PROVE TransferInv'
  <2>1. /\ dialog.n # 0 /\ ~Transfer!Busy(dialog.n) /\ ~dialog.pending /\ ~dialog.expired
        /\ \/ Transfer!Unasked
           \/ /\ shownSecret' = None /\ asked' = r
              /\ reveals' = Transfer!Superseded
                                \cup {[n |-> dialog.n, ref |-> r, late |-> FALSE]}
        /\ UNCHANGED <<dialog, call, cancels, told>> /\ UNCHANGED TransferNative
    BY <1>5 DEF Transfer!Reveal, Transfer!Nothing, Transfer!native, TransferNative
  <2>2. /\ shownSecret' \in Refs \cup {None} /\ asked' \in Refs \cup {None}
        /\ reveals' \in SUBSET TransferReveal /\ TransferDialogInv' /\ Transfer!ShownIsAsked'
    <3>1. UNCHANGED previews
      BY <2>1 DEF TransferNative
    <3>2. CASE Transfer!Unasked
      BY <2>1, <3>1, <3>2, TransferHides
    <3>3. CASE /\ shownSecret' = None /\ asked' = r
               /\ reveals' = Transfer!Superseded
                                \cup {[n |-> dialog.n, ref |-> r, late |-> FALSE]}
      <4>1. /\ Transfer!Superseded \in SUBSET TransferReveal
            /\ \A q \in Transfer!Superseded : q.late /\ q.n = dialog.n
        BY <2>1, TransferLate
      <4>2. [n |-> dialog.n, ref |-> r, late |-> FALSE] \in TransferReveal
        BY <1>1 DEF TransferReveal, TransferDialog
      <4>3. \A q \in reveals' : q.n = dialog.n /\ (~q.late => q.ref = r)
        BY <3>3, <4>1
      <4>4. UNCHANGED call
        BY <2>1
      <4>5. TransferDialogInv'
        BY <1>2, <2>1, <3>1, <3>3, <4>3, <4>4 DEF TransferDialogInv, Transfer!Busy
      <4>6. Transfer!ShownIsAsked'
        BY <3>3 DEF Transfer!ShownIsAsked
      <4> QED
        BY <3>3, <4>1, <4>2, <4>5, <4>6
    <3> QED
      BY <2>1, <3>2, <3>3
  <2> QED
    BY <1>1, <2>1, <2>2, TransferTouches
<1>6. CASE Transfer!ChangeFiles
  <2>1. /\ dialog.staged # 0 /\ ~Transfer!Busy(dialog.n) /\ cancels' = cancels \cup {dialog.staged}
        /\ dialog' = [dialog EXCEPT !.staged = 0]
        /\ UNCHANGED <<shownSecret, asked, reveals, call, told>> /\ UNCHANGED TransferNative
    BY <1>6 DEF Transfer!ChangeFiles, Transfer!Nothing, Transfer!native, TransferNative
  <2>2. /\ dialog' = [dialog EXCEPT !.selected = dialog.selected, !.staged = 0,
                                    !.expired = dialog.expired]
        /\ dialog'.n = dialog.n /\ dialog'.staged = 0
        /\ dialog'.preview = dialog.preview /\ dialog'.expired = dialog.expired
        /\ dialog'.pending = dialog.pending
    <3>1. dialog' = [n |-> dialog.n, mode |-> dialog.mode, staged |-> 0,
                     preview |-> dialog.preview, selected |-> dialog.selected,
                     pending |-> dialog.pending, expired |-> dialog.expired]
      BY <1>1, <2>1 DEF TransferDialog
    <3>y. PICK y : y = [dialog EXCEPT !.selected = dialog.selected, !.staged = 0,
                         !.expired = dialog.expired]
      OBVIOUS
    <3>2. y = [n |-> dialog.n, mode |-> dialog.mode, staged |-> 0,
                     preview |-> dialog.preview, selected |-> dialog.selected,
                     pending |-> dialog.pending, expired |-> dialog.expired]
      BY <1>1, <3>y DEF TransferDialog
    <3> QED
      BY <3>1, <3>2, <3>y
  <2>3. dialog.n # 0 /\ call[dialog.n].kind = "none"
    BY <1>3, <2>1 DEF Transfer!Busy
  <2>4. TransferDialogInv' /\ Transfer!ShownIsAsked'
    BY <1>2, <2>1, <2>2, <2>3
       DEF TransferDialogInv, Transfer!ShownIsAsked, Transfer!Busy, TransferNative
  <2>5. cancels' \in SUBSET (1..made)
    <3>1. dialog.staged \in 1..made
      BY <2>1, <2>3, TransferMounted
    <3> QED
      BY <1>1, <2>1, <3>1
  <2>6. cancels \subseteq cancels' /\ dialog.staged \in cancels'
    BY <2>1
  <2> QED
    BY <1>1, <2>1, <2>2, <2>3, <2>4, <2>5, <2>6, TransferTouches
<1>7. CASE Transfer!Expire
  <2>1. /\ dialog.preview \in over /\ dialog' = [dialog EXCEPT !.expired = TRUE]
        /\ Transfer!Unasked /\ UNCHANGED <<call, cancels, told>> /\ UNCHANGED TransferNative
    BY <1>7 DEF Transfer!Expire, Transfer!native, TransferNative
  <2>2. /\ dialog' = [dialog EXCEPT !.selected = dialog.selected, !.staged = dialog.staged,
                                    !.expired = TRUE]
        /\ dialog'.n = dialog.n /\ dialog'.staged = dialog.staged
        /\ dialog'.preview = dialog.preview
    BY <1>1, <2>1 DEF TransferDialog
  <2>3. dialog.n # 0
    <3>1. dialog.preview # 0
      BY <2>1 DEF TransferInv, TransferTypes
    <3> QED
      BY <1>3, <3>1
  <2>4. /\ shownSecret' \in Refs \cup {None} /\ asked' \in Refs \cup {None}
        /\ reveals' \in SUBSET TransferReveal /\ TransferDialogInv' /\ Transfer!ShownIsAsked'
    <3>1. UNCHANGED previews
      BY <2>1 DEF TransferNative
    <3> QED
      BY <2>1, <2>2, <2>3, <3>1, TransferHides
  <2> QED
    BY <1>1, <2>1, <2>2, <2>3, <2>4, TransferTouches
<1>8. ASSUME NEW q \in reveals, Transfer!Revealed(q) PROVE TransferInv'
  <2>1. /\ reveals' = reveals \ {q}
        /\ \/ shownSecret' = shownSecret
           \/ shownSecret' = q.ref /\ ~q.late
        /\ UNCHANGED <<dialog, asked, call, cancels, told>> /\ UNCHANGED TransferNative
    BY <1>8 DEF Transfer!Revealed, Transfer!AskedLast, Transfer!native, TransferNative
  <2>2. dialog.n # 0
    BY <1>3
  <2>3. /\ q.ref \in Refs
        /\ ~q.late => q.ref = asked /\ ~dialog.expired /\ ~dialog.pending /\ ~Transfer!Busy(dialog.n)
    BY <1>1, <1>2 DEF TransferDialogInv, TransferReveal
  <2>4. TransferDialogInv'
    BY <1>2, <2>1, <2>2 DEF TransferDialogInv, Transfer!Busy, TransferNative
  <2>5. Transfer!ShownIsAsked'
    BY <1>2, <2>1, <2>2, <2>3 DEF Transfer!ShownIsAsked, Transfer!Busy, Transfer!Nothing
  <2>6. shownSecret' \in Refs \cup {None}
    BY <1>1, <2>1, <2>3
  <2> QED
    BY <1>1, <2>1, <2>2, <2>4, <2>5, <2>6, TransferTouches
<1> QED
  BY <1>4, <1>5, <1>6, <1>7, <1>8

\* A command that has ended leaves nothing to say.
LEMMA TransferEnded ==
  ASSUME TransferInv, UNCHANGED TransferNative, NEW d \in 1..MaxDialogs,
         told'[d] = "nothing" => told[d] = "nothing"
  PROVE  Transfer!NoCall \in TransferCall /\ TransferCallOf(d, Transfer!NoCall)'
<1>1. Transfer!NoCall \in TransferCall
  BY DEF Transfer!NoCall, Transfer!Nothing, TransferCall
<1>2. told[d] = "nothing" => journal[d] = "missing"
  BY TransferAt DEF TransferCallOf
<1>3. TransferCallOf(d, Transfer!NoCall)'
  BY <1>2 DEF TransferCallOf, Transfer!NoCall, Transfer!Nothing, TransferNative
<1> QED
  BY <1>1, <1>3

\* Nothing changes what was told and done of an import.
LEMMA TransferToldStays ==
  ASSUME TransferInv, UNCHANGED told, NEW d \in 1..MaxDialogs
  PROVE  /\ told' \in [1..MaxDialogs -> TransferTold]
         /\ \A e \in 1..MaxDialogs : e # d => told'[e] = told[e]
         /\ told'[d] = "imported" => journal[d] = "committed"
         /\ told'[d] = "not imported" => journal[d] = "missing"
  BY DEF TransferInv, TransferTypes, Transfer!ToldAsItIs, Transfer!Dialogs

\* The outcome of an import is asked for.
LEMMA TransferChecks == ASSUME TransferInv, Transfer!CheckOutcome PROVE TransferInv'
<1>d. PICK d : d = dialog.n
  OBVIOUS
<1>n. PICK c : c = [Transfer!NoCall EXCEPT !.kind = "status"]
  OBVIOUS
<1>1. /\ dialog.n # 0 /\ dialog.pending /\ call[d].kind = "none"
      /\ call' = [call EXCEPT ![d] = c] /\ UNCHANGED TransferNative
      /\ UNCHANGED <<dialog, shownSecret, asked, reveals, cancels, told>>
  BY <1>d, <1>n DEF Transfer!CheckOutcome, Transfer!Busy, Transfer!Nothing, Transfer!native,
     TransferNative
<1>2. /\ dialog \in TransferDialog /\ d \in 1..MaxDialogs /\ made \in Nat
      /\ dialog.staged \in 0..made /\ dialog.preview \in 0..made
      /\ TransferCallOf(d, call[d]) /\ TransferOpen(d, call[d]) /\ told[d] # "nothing"
  BY <1>1, <1>d, TransferMounted
<1>3. c = [kind |-> "status", at |-> "asked", id |-> 0, refs |-> {}, result |-> "nothing",
           aborted |-> FALSE]
  BY <1>n DEF Transfer!NoCall, Transfer!Nothing
<1>4. c \in TransferCall
  BY <1>3 DEF TransferCall
<1>5. /\ told[d] \notin {"imported", "not imported", "recovery"}
      /\ journal[d] # "missing" => dialog.preview # 0 /\ ~Importable(dialog.preview)
  BY <1>1, <1>2, <1>d DEF TransferOpen
<1>6. UNCHANGED <<told, journal, previews, packages, dialog>>
  BY <1>1 DEF TransferNative
<1>7. TransferCallOf(d, c)'
  BY <1>2, <1>3, <1>5, <1>6 DEF TransferCallOf
<1>8. TransferOpen(d, c)'
  BY <1>1, <1>2, <1>3, <1>5, <1>6 DEF TransferOpen, Importable
<1>9. TransferDialogInv'
  <2>1. TransferDialogInv
    BY DEF TransferInv
  <2> QED
    BY <1>1, <1>6, <2>1 DEF TransferDialogInv
<1>10. Transfer!ShownIsAsked'
  <2>1. Transfer!ShownIsAsked
    BY DEF TransferInv
  <2> QED
    BY <1>1, <2>1 DEF Transfer!ShownIsAsked
<1>11. call[d].at = "asked"
  BY <1>1, <1>2 DEF TransferCallOf, Transfer!NoCall
<1>12. /\ shownSecret' \in Refs \cup {None} /\ asked' \in Refs \cup {None}
       /\ reveals' \in SUBSET TransferReveal /\ cancels' \in SUBSET (1..made)
       /\ dialog'.staged <= made /\ dialog'.preview <= made
  BY <1>1 DEF TransferInv, TransferTypes
<1>13. /\ told' \in [1..MaxDialogs -> TransferTold]
       /\ \A e \in 1..MaxDialogs : e # d => told'[e] = told[e]
       /\ told'[d] = "imported" => journal[d] = "committed"
       /\ told'[d] = "not imported" => journal[d] = "missing"
  BY <1>1, <1>2, TransferToldStays
<1> QED
  BY <1>1, <1>2, <1>4, <1>7, <1>8, <1>9, <1>10, <1>11, <1>12, <1>13, TransferTurns

\* The dialog opens.
LEMMA TransferOpens ==
  ASSUME TransferInv, NEW mode \in {"import", "export"}, Transfer!Open(mode)
  PROVE  TransferInv'
<1>1. PICK d \in 1..MaxDialogs :
        /\ dialog.n = 0 /\ told[d] = "nothing" /\ told' = [told EXCEPT ![d] = "open"]
        /\ dialog' = [Transfer!Closed EXCEPT !.n = d, !.mode = mode]
        /\ call' = IF mode = "import" THEN call
                   ELSE [call EXCEPT ![d] = [Transfer!NoCall EXCEPT !.kind = "inspect",
                                                                    !.at = "flushing"]]
        /\ UNCHANGED <<shownSecret, asked, reveals, cancels>> /\ UNCHANGED TransferNative
  <2>1. PICK d \in 1..MaxDialogs :
          /\ \A e \in 1..MaxDialogs : told[e] = "nothing" <=> e >= d
          /\ told' = [told EXCEPT ![d] = "open"]
          /\ dialog' = [Transfer!Closed EXCEPT !.n = d, !.mode = mode]
          /\ call' = IF mode = "import" THEN call
                     ELSE [call EXCEPT ![d] = [Transfer!NoCall EXCEPT !.kind = "inspect",
                                                                      !.at = "flushing"]]
    BY DEF Transfer!Open, Transfer!Dialogs
  <2>2. told[d] = "nothing"
    BY <2>1, TransferAt
  <2> QED
    BY <2>1, <2>2 DEF Transfer!Open, Transfer!Nothing, Transfer!native, TransferNative
<1>2. /\ call[d] \in TransferCall /\ TransferCallOf(d, call[d]) /\ d # 0 /\ made \in Nat
      /\ MaxDialogs \in Nat
  BY TransferAt
<1>3. call[d] = Transfer!NoCall /\ journal[d] = "missing"
  BY <1>1, <1>2 DEF TransferCallOf
<1>n. PICK c : c = IF mode = "import" THEN Transfer!NoCall
                   ELSE [Transfer!NoCall EXCEPT !.kind = "inspect", !.at = "flushing"]
  OBVIOUS
<1>4. c = [kind |-> IF mode = "import" THEN "none" ELSE "inspect",
           at |-> IF mode = "import" THEN "asked" ELSE "flushing",
           id |-> 0, refs |-> {}, result |-> "nothing", aborted |-> FALSE]
  BY <1>n DEF Transfer!NoCall, Transfer!Nothing
<1>5. c \in TransferCall /\ (c.kind = "none" => c = Transfer!NoCall)
  BY <1>4, <1>n DEF TransferCall
<1>6. call' = [call EXCEPT ![d] = c]
  <2>1. call \in [1..MaxDialogs -> TransferCall]
    BY DEF TransferInv, TransferTypes
  <2> QED
    BY <1>1, <1>3, <1>n, <2>1
<1>7. dialog' = [n |-> d, mode |-> mode, staged |-> 0, preview |-> 0, selected |-> {},
                 pending |-> FALSE, expired |-> FALSE]
  BY <1>1 DEF Transfer!Closed, Transfer!Nothing
<1>8. dialog' \in TransferDialog /\ dialog'.staged <= made /\ dialog'.preview <= made
  BY <1>2, <1>7 DEF TransferDialog
<1>9. /\ told' \in [1..MaxDialogs -> TransferTold] /\ told'[d] = "open"
      /\ \A e \in 1..MaxDialogs : e # d => told'[e] = told[e]
  BY <1>1 DEF TransferInv, TransferTypes, TransferTold
<1>10. UNCHANGED <<journal, previews, packages>>
  BY <1>1 DEF TransferNative
<1>11. TransferCallOf(d, c)'
  BY <1>4, <1>5, <1>9 DEF TransferCallOf, Transfer!NoCall
<1>12. TransferOpen(d, c)'
  <2>1. dialog'.preview = 0 /\ 0 \notin packages'
    BY <1>7, <1>10, TransferNone
  <2> QED
    BY <1>3, <1>4, <1>7, <1>9, <1>10, <2>1 DEF TransferOpen
<1>13. /\ dialog.staged = 0 /\ dialog.preview = 0 /\ shownSecret' = None /\ reveals' = {}
  BY <1>1 DEF TransferInv, TransferDialogInv
<1>14. TransferDialogInv'
  BY <1>2, <1>7, <1>13 DEF TransferDialogInv
<1>15. Transfer!ShownIsAsked'
  BY <1>13 DEF Transfer!ShownIsAsked
<1>16. /\ shownSecret' \in Refs \cup {None} /\ asked' \in Refs \cup {None}
       /\ reveals' \in SUBSET TransferReveal /\ cancels' \in SUBSET (1..made)
  BY <1>1 DEF TransferInv, TransferTypes
<1>17. \A e \in 1..MaxDialogs : e # d => ~(dialog.n = e \/ dialog'.n = e)
  BY <1>1, <1>2, <1>7
<1>18. \A i \in 1..MaxHeld : i # 0
  BY <1>2, TransferAt
<1>19. call[d].at = "asked"
  BY <1>3 DEF Transfer!NoCall
<1> QED
  BY <1>1, <1>5, <1>6, <1>8, <1>9, <1>11, <1>12, <1>13, <1>14, <1>15, <1>16, <1>17, <1>18,
     <1>19, TransferTurns

\* Everything the dialog holds is given up when it closes.
LEMMA TransferCloses ==
  ASSUME TransferInv, UNCHANGED TransferNative, UNCHANGED told, NEW d \in 1..MaxDialogs,
         d = dialog.n, NEW c \in TransferCall, call' = [call EXCEPT ![d] = c],
         Transfer!Closes, TransferCallOf(d, c)', c.kind \in {"select", "prepare"} => c.aborted,
         call[d].at = "answered" => c.at = "answered" /\ c.id = call[d].id
  PROVE  TransferInv'
<1>n. PICK names : names = {dialog.staged, dialog.preview}
  OBVIOUS
<1>1. Transfer!GivenUp(names)
  BY <1>n DEF Transfer!Closes
<1>2. names \subseteq 0..made
  BY <1>n, TransferAt
<1>3. /\ told' \in [1..MaxDialogs -> TransferTold]
      /\ \A e \in 1..MaxDialogs : e # d => told'[e] = told[e]
      /\ told'[d] = "imported" => journal[d] = "committed"
      /\ told'[d] = "not imported" => journal[d] = "missing"
  BY TransferToldStays
<1>4. \A i \in 1..MaxHeld :
        /\ i \in {dialog.staged, dialog.preview} => i \in names
        /\ call[d].at = "answered" /\ call[d].id = i => c.at = "answered" /\ c.id = i
  BY <1>n
<1> QED
  BY <1>1, <1>2, <1>3, <1>4, TransferShuts

\* The dialog is closed, or what it waits for told to stop.
LEMMA TransferClose == ASSUME TransferInv, Transfer!Close PROVE TransferInv'
<1>d. PICK d : d = dialog.n
  OBVIOUS
<1>1. /\ dialog.n # 0 /\ UNCHANGED TransferNative /\ UNCHANGED told
      /\ \/ /\ call[d].kind # "none" /\ call' = [call EXCEPT ![d].aborted = TRUE]
            /\ UNCHANGED <<dialog, shownSecret, asked, reveals, cancels>>
         \/ call[d].kind \in {"none", "inspect"} /\ Transfer!Closes /\ UNCHANGED call
  BY <1>d DEF Transfer!Close, Transfer!Busy, Transfer!Nothing, Transfer!native, TransferNative
<1>2. /\ d \in 1..MaxDialogs /\ call[d] \in TransferCall
      /\ TransferCallOf(d, call[d]) /\ TransferOpen(d, call[d])
      /\ call \in [1..MaxDialogs -> TransferCall]
  BY <1>1, <1>d, TransferMounted
<1>3. /\ told' \in [1..MaxDialogs -> TransferTold]
      /\ \A e \in 1..MaxDialogs : e # d => told'[e] = told[e]
      /\ told'[d] = "imported" => journal[d] = "committed"
      /\ told'[d] = "not imported" => journal[d] = "missing"
  BY <1>1, <1>2, TransferToldStays
<1>4. CASE /\ call[d].kind # "none" /\ call' = [call EXCEPT ![d].aborted = TRUE]
           /\ UNCHANGED <<dialog, shownSecret, asked, reveals, cancels>>
  <2>n. PICK c : c = [call[d] EXCEPT !.aborted = TRUE]
    OBVIOUS
  <2>1. /\ c = [kind |-> call[d].kind, at |-> call[d].at, id |-> call[d].id,
                refs |-> call[d].refs, result |-> call[d].result, aborted |-> TRUE]
        /\ c \in TransferCall /\ TransferCallOf(d, c)'
    BY <1>1, <1>2, <1>4, <2>n, TransferAborts
  <2>2. call' = [call EXCEPT ![d] = c]
    BY <1>2, <1>4, <2>n
  <2>3. UNCHANGED <<told, journal, previews, packages, dialog>>
    BY <1>1, <1>4 DEF TransferNative
  <2>4. TransferOpen(d, c)'
    BY <1>2, <2>1, <2>3 DEF TransferOpen, Importable
  <2>5. cancels \subseteq cancels' /\ cancels' \in SUBSET (1..made)
    BY <1>4 DEF TransferInv, TransferTypes
  <2> QED
    BY <1>1, <1>2, <1>3, <1>4, <2>1, <2>2, <2>4, <2>5, TransferGoesOn
<1>5. CASE call[d].kind \in {"none", "inspect"} /\ Transfer!Closes /\ UNCHANGED call
  <2>n. PICK c : c = call[d]
    OBVIOUS
  <2>1. c \in TransferCall /\ call' = [call EXCEPT ![d] = c]
    BY <1>2, <1>5, <2>n
  <2>2. TransferCallOf(d, c)'
    BY <1>1, <1>2, <2>n DEF TransferCallOf, TransferNative, Importable, Transfer!NoCall
  <2> QED
    BY <1>1, <1>2, <1>5, <1>d, <2>n, <2>1, <2>2, TransferCloses
<1> QED
  BY <1>1, <1>4, <1>5

\* The settings are left.
LEMMA TransferLeaves == ASSUME TransferInv, Transfer!Leave PROVE TransferInv'
<1>d. PICK d : d = dialog.n
  OBVIOUS
<1>1. /\ dialog.n # 0 /\ UNCHANGED TransferNative /\ UNCHANGED told /\ Transfer!Closes
      /\ call' = [call EXCEPT ![d].aborted = (call[d].kind # "none")]
  BY <1>d DEF Transfer!Leave, Transfer!Busy, Transfer!Nothing, Transfer!native, TransferNative
<1>2. /\ d \in 1..MaxDialogs /\ call[d] \in TransferCall /\ TransferCallOf(d, call[d])
      /\ call \in [1..MaxDialogs -> TransferCall]
  BY <1>1, <1>d, TransferMounted
<1>b. PICK b : b = (call[d].kind # "none")
  OBVIOUS
<1>n. PICK c : c = [call[d] EXCEPT !.aborted = b]
  OBVIOUS
<1>3. b \in BOOLEAN /\ (call[d].kind # "none" \/ b = call[d].aborted)
  <2>1. b \in BOOLEAN
    BY <1>b
  <2>2. ASSUME call[d].kind = "none" PROVE b = call[d].aborted
    <3>1. call[d].aborted = FALSE
      BY <1>2, <2>2 DEF TransferCallOf, Transfer!NoCall
    <3>2. b = FALSE
      BY <1>b, <2>2
    <3> QED
      BY <3>1, <3>2
  <2> QED
    BY <2>1, <2>2
<1>4. /\ c = [kind |-> call[d].kind, at |-> call[d].at, id |-> call[d].id,
              refs |-> call[d].refs, result |-> call[d].result, aborted |-> b]
      /\ c \in TransferCall /\ TransferCallOf(d, c)'
  BY <1>1, <1>2, <1>3, <1>n, TransferAborts
<1>5. call' = [call EXCEPT ![d] = c]
  BY <1>1, <1>2, <1>b, <1>n
<1>6. /\ c.kind \in {"select", "prepare"} => c.aborted
      /\ call[d].at = "answered" => c.at = "answered" /\ c.id = call[d].id
  BY <1>4, <1>b
<1> QED
  BY <1>1, <1>2, <1>4, <1>5, <1>6, <1>d, TransferCloses

\* What was typed is saved, or was not.
LEMMA TransferFlushes ==
  ASSUME TransferInv, NEW d \in 1..MaxDialogs, Transfer!Flush(d) PROVE TransferInv'
<1>1. /\ call[d].kind # "none" /\ call[d].at = "flushing"
      /\ UNCHANGED TransferNative /\ UNCHANGED told
      /\ \/ /\ call' = [call EXCEPT ![d].at = "asked"]
            /\ Transfer!Stays
         \/ call' = [call EXCEPT ![d] = Transfer!NoCall] /\ Transfer!Stays
         \/ /\ call' = [call EXCEPT ![d] = Transfer!NoCall]
            /\ d = dialog.n /\ Transfer!Closes
  BY DEF Transfer!Flush, Transfer!Busy, Transfer!Mounted, Transfer!native, TransferNative
<1>2. /\ call[d] \in TransferCall /\ TransferCallOf(d, call[d]) /\ TransferOpen(d, call[d])
  BY TransferAt
<1>3. call \in [1..MaxDialogs -> TransferCall] /\ cancels \in SUBSET (1..made)
  BY DEF TransferInv, TransferTypes
<1>4. /\ told' \in [1..MaxDialogs -> TransferTold]
      /\ \A e \in 1..MaxDialogs : e # d => told'[e] = told[e]
      /\ told'[d] = "imported" => journal[d] = "committed"
      /\ told'[d] = "not imported" => journal[d] = "missing"
  BY <1>1, TransferToldStays
<1>5. UNCHANGED <<told, journal, previews, packages>>
  BY <1>1 DEF TransferNative
<1>n. PICK idle : idle = Transfer!NoCall
  OBVIOUS
<1>6. idle \in TransferCall /\ TransferCallOf(d, idle)'
  <2>1. Transfer!NoCall \in TransferCall /\ TransferCallOf(d, Transfer!NoCall)'
    BY <1>1, TransferEnded
  <2> QED
    BY <1>n, <2>1 DEF TransferCallOf, Transfer!NoCall
<1>7. CASE call' = [call EXCEPT ![d].at = "asked"] /\ Transfer!Stays
  <2>n. PICK c : c = [call[d] EXCEPT !.at = "asked"]
    OBVIOUS
  <2>1. c = [kind |-> call[d].kind, at |-> "asked", id |-> call[d].id,
             refs |-> call[d].refs, result |-> call[d].result, aborted |-> call[d].aborted]
    BY <1>2, <2>n DEF TransferCall
  <2>2. c \in TransferCall /\ call' = [call EXCEPT ![d] = c]
    BY <1>2, <1>3, <1>7, <2>1, <2>n DEF TransferCall
  <2>3. UNCHANGED <<dialog, shownSecret, asked, reveals, cancels>>
    BY <1>7 DEF Transfer!Stays
  <2>4. TransferCallOf(d, c)'
    BY <1>1, <1>2, <1>5, <2>1 DEF TransferCallOf
  <2>5. TransferOpen(d, c)'
    BY <1>1, <1>2, <1>5, <2>1, <2>3 DEF TransferOpen, TransferCallOf, Importable
  <2>6. cancels \subseteq cancels' /\ cancels' \in SUBSET (1..made)
    BY <1>3, <2>3
  <2> QED
    BY <1>1, <1>4, <2>2, <2>3, <2>4, <2>5, <2>6, TransferGoesOn
<1>8. CASE call' = [call EXCEPT ![d] = Transfer!NoCall] /\ Transfer!Stays
  <2>1. UNCHANGED <<dialog, shownSecret, asked, reveals, cancels>>
    BY <1>8 DEF Transfer!Stays
  <2>2. TransferOpen(d, idle)'
    BY <1>2, <1>5, <1>n, <2>1 DEF TransferOpen, Importable, Transfer!NoCall
  <2>3. cancels \subseteq cancels' /\ cancels' \in SUBSET (1..made)
    BY <1>3, <2>1
  <2>4. call' = [call EXCEPT ![d] = idle] /\ idle.kind = "none"
    BY <1>8, <1>n DEF Transfer!NoCall
  <2> QED
    BY <1>1, <1>4, <1>6, <2>1, <2>2, <2>3, <2>4, TransferGoesOn
<1>9. CASE call' = [call EXCEPT ![d] = Transfer!NoCall] /\ d = dialog.n /\ Transfer!Closes
  <2>1. call' = [call EXCEPT ![d] = idle] /\ idle.kind = "none"
    BY <1>9, <1>n DEF Transfer!NoCall
  <2> QED
    BY <1>1, <1>6, <1>9, <2>1, TransferCloses
<1> QED
  BY <1>1, <1>7, <1>8, <1>9

\* What the native side holds, in its types.
TransferHeld ==
    /\ made \in 0..MaxHeld /\ changes \in 0..MaxChanges /\ files \in Nat
    /\ packages \in SUBSET (1..made) /\ over \in SUBSET (1..made)
    /\ previews \in [1..MaxHeld -> TransferPreview]
    /\ device \in [Refs -> TransferSecret]
    /\ journal \in [1..MaxDialogs -> {"missing", "committed", "recovery"}]

TransferResults == {"nothing", "given", "failed", "expired", "recovery"}

\* A command as it is answered.
TransferAnswer(d, result, id) ==
    [kind |-> call[d].kind, at |-> "answered", id |-> id, refs |-> call[d].refs,
     result |-> result, aborted |-> call[d].aborted]

\* What the user was told of an import is what became of it.
ToldRight(d) ==
    /\ told[d] = "imported" => journal[d] = "committed"
    /\ told[d] = "not imported" => journal[d] = "missing"

\* What the open dialog knows of its command, once that is answered.
LEMMA TransferOpenToAnswer ==
  ASSUME NEW d, NEW c, TransferOpen(d, call[d]), UNCHANGED <<dialog, told>>,
         c.kind = call[d].kind, c.at = "answered", c.aborted = call[d].aborted,
         dialog.n = d => dialog.preview \notin packages',
         dialog.n = d /\ c.kind = "prepare" /\ c.result \in {"given", "expired"} =>
             dialog.staged \notin packages',
         dialog.n = d /\ journal'[d] # "missing" =>
             dialog.preview # 0 /\ ~Importable(dialog.preview)'
  PROVE  TransferOpen(d, c)'
  BY DEF TransferOpen

\* The native side answers a command, and may hold something new for it.
LEMMA TransferReplies ==
  ASSUME TransferInv, NEW d \in 1..MaxDialogs, NEW id \in Nat,
         NEW result \in TransferResults,
         Transfer!Answers(d, result, id), call[d].kind # "none",
         NEW c, c = TransferAnswer(d, result, id),
         TransferHeld', NativeLoses, TransferSeen', TransferCallOf(d, c)',
         \A e \in 1..MaxDialogs : e # d => journal'[e] = journal[e],
         ToldRight(d)',
         dialog.n = d /\ c.kind = "prepare" /\ result \in {"given", "expired"} =>
             dialog.staged \notin packages',
         dialog.n = d /\ journal'[d] # "missing" =>
             dialog.preview # 0 /\ ~Importable(dialog.preview)',
         \A i \in 1..MaxHeld : IsHeld(i)' => IsHeld(i) \/ i = id
  PROVE  TransferInv'
<1>1. /\ call[d].at = "asked" /\ UNCHANGED <<dialog, shownSecret, asked, reveals, cancels, told>>
      /\ call' = [call EXCEPT ![d].at = "answered", ![d].result = result, ![d].id = id]
  BY DEF Transfer!Answers
<1>2. /\ call[d] \in TransferCall /\ TransferOpen(d, call[d]) /\ made \in Nat
      /\ dialog.staged \in 0..made /\ dialog.preview \in 0..made
      /\ call \in [1..MaxDialogs -> TransferCall]
  BY TransferAt DEF TransferInv, TransferTypes
<1>3. c = [kind |-> call[d].kind, at |-> "answered", id |-> id, refs |-> call[d].refs,
           result |-> result, aborted |-> call[d].aborted]
  BY DEF TransferAnswer
<1>4. c \in TransferCall
  BY <1>2, <1>3 DEF TransferCall, TransferResults
<1>5. call' = [call EXCEPT ![d] = c]
  <2>y. PICK y : y = [call[d] EXCEPT !.at = "answered", !.result = result, !.id = id]
    OBVIOUS
  <2>1. y = c
    <3>1. y = [kind |-> call[d].kind, at |-> "answered", id |-> id, refs |-> call[d].refs,
               result |-> result, aborted |-> call[d].aborted]
      BY <1>2, <2>y DEF TransferCall
    <3> QED
      BY <1>3, <3>1
  <2> QED
    BY <1>1, <1>2, <2>1, <2>y
<1>6. call' \in [1..MaxDialogs -> TransferCall] /\ call'[d] = c
  BY <1>2, <1>4, <1>5
<1>7. TransferTypes'
  <2>1. made' \in Nat /\ made <= made'
    BY TransferAt DEF TransferHeld, NativeLoses
  <2>2. 1..made \subseteq 1..made' /\ dialog.staged <= made' /\ dialog.preview <= made'
    BY <1>2, <2>1
  <2>3. cancels' \in SUBSET (1..made')
    BY <1>1, <2>2 DEF TransferInv, TransferTypes
  <2>4. /\ dialog' \in TransferDialog /\ dialog'.staged <= made' /\ dialog'.preview <= made'
        /\ shownSecret' \in Refs \cup {None} /\ asked' \in Refs \cup {None}
        /\ reveals' \in SUBSET TransferReveal
        /\ told' \in [1..MaxDialogs -> TransferTold]
    BY <1>1, <2>2 DEF TransferInv, TransferTypes
  <2> QED
    BY <1>6, <2>3, <2>4 DEF TransferTypes, TransferHeld
<1>8. dialog.n # 0 /\ Transfer!Busy(dialog.n)' => Transfer!Busy(dialog.n)
  <2>1. CASE dialog.n = d
    BY <2>1 DEF Transfer!Busy
  <2>2. CASE dialog.n # d
    BY <1>1, <1>2, <1>5, <2>2, TransferMounted DEF Transfer!Busy
  <2> QED
    BY <2>1, <2>2
<1>9. TransferDialogInv' /\ Transfer!ShownIsAsked'
  BY <1>1, <1>7, <1>8, TransferStays
<1>10. TransferOpen(d, c)'
  <2>1. UNCHANGED <<dialog, told>>
    BY <1>1
  <2>2. /\ c.kind = call[d].kind /\ c.at = "answered" /\ c.aborted = call[d].aborted
        /\ c.result = result
    BY <1>3
  <2>3. dialog.n = d => dialog.preview \notin packages'
    <3>1. 0 \notin packages'
      BY DEF TransferHeld
    <3>2. dialog.preview # 0 => (dialog.preview \in packages' => dialog.preview \in packages)
      BY <1>2, <1>7, TransferNames
    <3>3. dialog.n = d => dialog.preview \notin packages
      BY <1>2 DEF TransferOpen
    <3> QED
      BY <3>1, <3>2, <3>3
  <2> QED
    BY <1>2, <2>1, <2>2, <2>3, TransferOpenToAnswer
<1>11. \A e \in 1..MaxDialogs : e # d =>
          /\ told'[e] = told[e] /\ journal'[e] = journal[e]
          /\ dialog.n = e \/ dialog'.n = e => dialog' = dialog
  BY <1>1
<1>12. \A i \in 1..MaxHeld : IsHeld(i)' =>
          /\ IsHeld(i) \/ (c.at = "answered" /\ c.id = i)
          /\ i \in {dialog.staged, dialog.preview} \cup cancels =>
                 i \in {dialog'.staged, dialog'.preview} \cup cancels'
          /\ call[d].at # "answered"
  BY <1>1, <1>3
<1>13. /\ told'[d] = "imported" => journal'[d] = "committed"
       /\ told'[d] = "not imported" => journal'[d] = "missing"
  BY DEF ToldRight
<1> QED
  BY <1>4, <1>5, <1>7, <1>9, <1>10, <1>11, <1>12, <1>13, TransferChanges

\* A command is answered while the native side stands still.
LEMMA TransferAnswersStill ==
  ASSUME TransferInv, NEW d \in 1..MaxDialogs, UNCHANGED TransferNative,
         NEW result \in TransferResults,
         Transfer!Answers(d, result, 0), call[d].kind # "none",
         call[d].kind \in {"select", "prepare"} => result # "given",
         call[d].kind = "commit" => result \notin {"given", "nothing"},
         call[d].kind = "status" /\ result = "given" => journal[d] = "committed",
         call[d].kind = "status" /\ result = "nothing" => journal[d] = "missing",
         call[d].kind = "prepare" /\ result = "expired" => call[d].id \notin packages
  PROVE  TransferInv'
<1>n. PICK c : c = TransferAnswer(d, result, 0)
  OBVIOUS
<1>1. /\ call[d] \in TransferCall /\ TransferCallOf(d, call[d]) /\ TransferOpen(d, call[d])
  BY TransferAt
<1>2. c = [kind |-> call[d].kind, at |-> "answered", id |-> 0, refs |-> call[d].refs,
           result |-> result, aborted |-> call[d].aborted]
  BY <1>n DEF TransferAnswer
<1>3. /\ call[d].at = "asked" /\ UNCHANGED <<told, dialog>>
  BY DEF Transfer!Answers
<1>4. UNCHANGED <<journal, previews, packages, made>>
  BY DEF TransferNative
<1>5. NativeLoses /\ TransferSeen' /\ (\A i : IsHeld(i)' => IsHeld(i))
  BY TransferStill
<1>6. TransferHeld'
  BY DEF TransferNative, TransferHeld, TransferInv, TransferTypes
<1>7. TransferCallOf(d, c)'
  <2>1. 0 \notin packages'
    BY <1>4, TransferNone
  <2> QED
    BY <1>1, <1>2, <1>3, <1>4, <2>1 DEF TransferCallOf
<1>8. ToldRight(d)'
  BY <1>3, <1>4 DEF ToldRight, TransferInv, Transfer!ToldAsItIs, Transfer!Dialogs
<1>9. dialog.n = d /\ c.kind = "prepare" /\ result \in {"given", "expired"} =>
          dialog.staged \notin packages'
  BY <1>1, <1>2, <1>3, <1>4 DEF TransferOpen
<1>10. dialog.n = d /\ journal'[d] # "missing" =>
           dialog.preview # 0 /\ ~Importable(dialog.preview)'
  BY <1>1, <1>3, <1>4 DEF TransferOpen, Importable
<1>11. 0 \in Nat /\ \A e \in 1..MaxDialogs : e # d => journal'[e] = journal[e]
  BY <1>4
<1> QED
  BY <1>5, <1>6, <1>7, <1>8, <1>9, <1>10, <1>11, <1>n, TransferReplies

\* A command fails or sees that it was told to stop, the outcome is read, the
\* inventory read or the package written.
LEMMA TransferReads ==
  ASSUME TransferInv, NEW d \in 1..MaxDialogs,
         \/ Transfer!Status(d) \/ Transfer!Read(d)
         \/ Transfer!NoAnswer(d, {"inspect", "prepare", "commit", "status", "export"})
         \/ Transfer!NoAnswer(d, {"select"})
  PROVE  TransferInv'
<1>1. UNCHANGED TransferNative
  BY DEF Transfer!Status, Transfer!Read, Transfer!NoAnswer, Transfer!native, TransferNative
<1>2. CASE Transfer!Status(d)
  <2>n. PICK result : result = CASE journal[d] = "committed" -> "given"
                                 [] journal[d] = "recovery" -> "recovery"
                                 [] OTHER -> "nothing"
    OBVIOUS
  <2>1. call[d].kind = "status" /\ Transfer!Answers(d, result, 0)
    BY <1>2, <2>n DEF Transfer!Status, Transfer!Nothing
  <2>2. journal[d] \in {"missing", "committed", "recovery"}
    BY DEF TransferInv, TransferTypes
  <2>3. /\ result \in TransferResults /\ (result = "given" => journal[d] = "committed")
        /\ result = "nothing" => journal[d] = "missing"
    BY <2>2, <2>n DEF TransferResults
  <2> QED
    BY <1>1, <2>1, <2>3, TransferAnswersStill
<1>3. CASE Transfer!Read(d)
  <2>1. call[d].kind \in {"inspect", "export"} /\ Transfer!Answers(d, "given", 0)
    BY <1>3 DEF Transfer!Read, Transfer!Nothing
  <2> QED
    BY <1>1, <2>1, TransferAnswersStill DEF TransferResults
<1>4. ASSUME NEW kinds, Transfer!NoAnswer(d, kinds),
             kinds \subseteq {"inspect", "select", "prepare", "commit", "status", "export"}
      PROVE  TransferInv'
  <2>1. /\ call[d].kind \in {"inspect", "select", "prepare", "commit", "status", "export"}
        /\ \/ Transfer!Answers(d, "failed", 0)
           \/ Transfer!Answers(d, "nothing", 0) /\ call[d].kind \in {"select", "prepare", "export"}
    BY <1>4 DEF Transfer!NoAnswer, Transfer!Nothing
  <2>2. CASE Transfer!Answers(d, "failed", 0)
    BY <1>1, <2>1, <2>2, TransferAnswersStill DEF TransferResults
  <2>3. CASE Transfer!Answers(d, "nothing", 0) /\ call[d].kind \in {"select", "prepare", "export"}
    BY <1>1, <2>1, <2>3, TransferAnswersStill DEF TransferResults
  <2> QED
    BY <2>1, <2>2, <2>3
<1> QED
  BY <1>2, <1>3, <1>4

\* What holds of the native side before a step of it.
LEMMA TransferHolds ==
  ASSUME TransferInv
  PROVE  /\ TransferHeld /\ TransferSeen /\ made \in Nat /\ MaxHeld \in Nat
         /\ \A id \in 1..MaxHeld : previews[id].held => id <= made
<1>1. MaxHeld \in Nat
  BY ClientsAssumption
<1>2. TransferHeld /\ TransferSeen
  BY DEF TransferInv, TransferTypes, TransferHeld
<1> QED
  BY <1>1, <1>2 DEF TransferHeld, TransferSeen

\* The user picks a file, or none.
LEMMA TransferPicks ==
  ASSUME TransferInv, NEW d \in 1..MaxDialogs, Transfer!Pick(d) PROVE TransferInv'
<1>1. /\ call[d].kind = "select" /\ made < MaxHeld
      /\ \/ /\ Transfer!Answers(d, "given", made + 1)
            /\ made' = made + 1 /\ packages' = packages \cup {made + 1}
         \/ Transfer!Answers(d, "nothing", 0) /\ UNCHANGED <<packages, made>>
      /\ UNCHANGED <<previews, over, device, files, changes, journal>>
  BY DEF Transfer!Pick, Transfer!Nothing
<1>2. CASE Transfer!Answers(d, "nothing", 0) /\ UNCHANGED <<packages, made>>
  <2>1. UNCHANGED TransferNative
    BY <1>1, <1>2 DEF TransferNative
  <2> QED
    BY <1>1, <1>2, <2>1, TransferAnswersStill DEF TransferResults
<1>3. CASE /\ Transfer!Answers(d, "given", made + 1)
           /\ made' = made + 1 /\ packages' = packages \cup {made + 1}
  <2>h. /\ TransferHeld /\ TransferSeen /\ made \in Nat /\ MaxHeld \in Nat
        /\ \A id \in 1..MaxHeld : previews[id].held => id <= made
    BY TransferHolds
  <2>m. PICK id : id = made + 1
    OBVIOUS
  <2>n. PICK c : c = TransferAnswer(d, "given", id)
    OBVIOUS
  <2>1. /\ id \in Nat /\ id \in 1..MaxHeld /\ ~(id <= made) /\ id \notin 1..made
        /\ 1..made \subseteq 1..id /\ id \in 1..id /\ id \in 0..MaxHeld /\ made <= id
    BY <1>1, <2>h, <2>m
  <2>2. /\ call[d] \in TransferCall /\ TransferCallOf(d, call[d]) /\ TransferOpen(d, call[d])
    BY TransferAt
  <2>3. /\ Transfer!Answers(d, "given", id) /\ made' = id /\ packages' = packages \cup {id}
        /\ UNCHANGED <<dialog, told>>
    BY <1>3, <2>m DEF Transfer!Answers
  <2>4. TransferHeld'
    BY <1>1, <2>1, <2>3, <2>h DEF TransferHeld
  <2>5. NativeLoses
    BY <1>1, <2>1, <2>3 DEF NativeLoses, Importable
  <2>6. TransferSeen'
    BY <1>1, <2>1, <2>3, <2>h DEF TransferSeen
  <2>7. c = [kind |-> "select", at |-> "answered", id |-> id, refs |-> call[d].refs,
             result |-> "given", aborted |-> call[d].aborted]
    BY <1>1, <2>n DEF TransferAnswer
  <2>8. TransferCallOf(d, c)'
    <3>1. ~previews'[id].held /\ id \in 1..made'
      BY <1>1, <2>1, <2>3, <2>h
    <3>2. told'[d] # "nothing" /\ told'[d] = told[d]
      BY <1>1, <2>2, <2>3 DEF TransferCallOf
    <3> QED
      BY <2>7, <3>1, <3>2 DEF TransferCallOf
  <2>9. ToldRight(d)'
    BY <1>1, <2>3 DEF ToldRight, TransferInv, Transfer!ToldAsItIs, Transfer!Dialogs
  <2>10. dialog.n = d /\ journal'[d] # "missing" => dialog.preview # 0 /\ ~Importable(dialog.preview)'
    BY <1>1, <2>2, <2>3 DEF TransferOpen, Importable
  <2>11. \A i \in 1..MaxHeld : IsHeld(i)' => IsHeld(i) \/ i = id
    BY <1>1, <2>3 DEF IsHeld, Importable
  <2>12. c.kind # "prepare" /\ UNCHANGED journal
    BY <1>1, <2>7
  <2> QED
    BY <1>1, <2>1, <2>3, <2>4, <2>5, <2>6, <2>8, <2>9, <2>10, <2>11, <2>12, <2>n,
       TransferReplies DEF TransferResults
<1> QED
  BY <1>1, <1>2, <1>3

\* What a preview of the secrets as they are holds.
LEMMA TransferFresh ==
  ASSUME TransferInv, NEW p,
         p = [held |-> TRUE, read |-> [r \in Refs |-> device[r].revision],
              seen |-> [r \in Refs |-> device[r].value], files |-> files, used |-> FALSE]
  PROVE  /\ p \in TransferPreview /\ p.held
         /\ \A r \in Refs : p.read[r] <= device[r].revision /\ p.seen[r] = device[r].value
<1>1. device \in [Refs -> TransferSecret] /\ files \in Nat
  BY DEF TransferInv, TransferTypes
<1>2. \A r \in Refs : /\ device[r].revision \in Nat /\ device[r].value \in TransferValues
                      /\ device[r].revision <= device[r].revision
  BY <1>1 DEF TransferSecret
<1>3. p \in TransferPreview
  BY <1>1, <1>2 DEF TransferPreview
<1>4. \A r \in Refs : p.read[r] = device[r].revision /\ p.seen[r] = device[r].value
  OBVIOUS
<1> QED
  BY <1>2, <1>3, <1>4

\* A package is opened.
LEMMA TransferPrepares ==
  ASSUME TransferInv, NEW d \in 1..MaxDialogs, Transfer!Prepare(d) PROVE TransferInv'
<1>g. PICK given : given = call[d].id
  OBVIOUS
<1>m. PICK id : id = made + 1
  OBVIOUS
<1>p. PICK p : p = [held |-> TRUE, read |-> [r \in Refs |-> device[r].revision],
                    seen |-> [r \in Refs |-> device[r].value], files |-> files, used |-> FALSE]
  OBVIOUS
<1>1. /\ call[d].kind = "prepare" /\ made < MaxHeld
      /\ \/ /\ given \notin packages /\ Transfer!Answers(d, "expired", 0)
            /\ UNCHANGED <<packages, made, previews>>
         \/ /\ Transfer!Answers(d, "given", id)
            /\ made' = id /\ packages' = packages \ {given}
            /\ previews' = [previews EXCEPT ![id] = p]
      /\ UNCHANGED <<over, device, files, changes, journal>>
  BY <1>g, <1>m, <1>p DEF Transfer!Prepare, Transfer!Nothing
<1>2. CASE given \notin packages /\ Transfer!Answers(d, "expired", 0)
           /\ UNCHANGED <<packages, made, previews>>
  <2>1. UNCHANGED TransferNative
    BY <1>1, <1>2 DEF TransferNative
  <2> QED
    BY <1>1, <1>2, <1>g, <2>1, TransferAnswersStill DEF TransferResults
<1>3. CASE /\ Transfer!Answers(d, "given", id)
           /\ made' = id /\ packages' = packages \ {given}
           /\ previews' = [previews EXCEPT ![id] = p]
  <2>h. /\ TransferHeld /\ TransferSeen /\ made \in Nat /\ MaxHeld \in Nat
        /\ \A i \in 1..MaxHeld : previews[i].held => i <= made
    BY TransferHolds
  <2>n. PICK c : c = TransferAnswer(d, "given", id)
    OBVIOUS
  <2>1. /\ id \in Nat /\ id \in 1..MaxHeld /\ ~(id <= made) /\ id \notin 1..made
        /\ 1..made \subseteq 1..id /\ id \in 1..id /\ id \in 0..MaxHeld /\ made <= id
        /\ \A i \in 1..MaxHeld : i <= made => i <= id
    BY <1>1, <1>m, <2>h
  <2>2. /\ call[d] \in TransferCall /\ TransferCallOf(d, call[d]) /\ TransferOpen(d, call[d])
    BY TransferAt
  <2>3. /\ call[d].at = "asked" /\ UNCHANGED <<dialog, told>>
    BY <1>3 DEF Transfer!Answers
  <2>p. /\ p \in TransferPreview /\ p.held
        /\ \A r \in Refs : p.read[r] <= device[r].revision /\ p.seen[r] = device[r].value
    BY <1>p, TransferFresh
  <2>4. /\ previews' \in [1..MaxHeld -> TransferPreview] /\ previews'[id] = p
        /\ \A i \in 1..MaxHeld : i # id => previews'[i] = previews[i]
    BY <1>3, <2>1, <2>h, <2>p DEF TransferHeld
  <2>5. TransferHeld'
    BY <1>1, <1>3, <2>1, <2>4, <2>h DEF TransferHeld
  <2>6. NativeLoses
    <3>1. \A i \in 1..made : i \in 1..MaxHeld /\ i # id
      BY <2>1, <2>h
    <3> QED
      BY <1>3, <2>1, <2>4, <3>1 DEF NativeLoses, Importable
  <2>7. TransferSeen'
    <3> SUFFICES ASSUME NEW i \in 1..MaxHeld, previews'[i].held
                 PROVE  /\ i <= made'
                        /\ \A r \in Refs :
                            /\ previews'[i].read[r] <= device[r].revision
                            /\ previews'[i].read[r] = device[r].revision =>
                                   previews'[i].seen[r] = device[r].value
      BY <1>1 DEF TransferSeen
    <3>1. CASE i = id
      BY <1>3, <2>1, <2>4, <2>p, <3>1
    <3>2. CASE i # id
      <4>1. previews'[i] = previews[i]
        BY <2>4, <3>2
      <4>2. i <= made'
        BY <1>3, <2>1, <2>h, <4>1
      <4> QED
        BY <2>h, <4>1, <4>2 DEF TransferSeen
    <3> QED
      BY <3>1, <3>2
  <2>8. c = [kind |-> "prepare", at |-> "answered", id |-> id, refs |-> call[d].refs,
             result |-> "given", aborted |-> call[d].aborted]
    BY <1>1, <2>n DEF TransferAnswer
  <2>9. TransferCallOf(d, c)'
    <3>1. id \in 1..made'
      BY <1>3, <2>1
    <3>3. id \notin packages'
      BY <1>3, <2>1, <2>h DEF TransferHeld
    <3>2. told'[d] # "nothing" /\ told'[d] = told[d]
      BY <1>1, <2>2, <2>3 DEF TransferCallOf
    <3> QED
      BY <2>8, <3>1, <3>2, <3>3 DEF TransferCallOf
  <2>10. ToldRight(d)'
    BY <1>1, <2>3 DEF ToldRight, TransferInv, Transfer!ToldAsItIs, Transfer!Dialogs
  <2>11. dialog.n = d => dialog.staged = given /\ dialog.staged \notin packages'
    BY <1>1, <1>3, <1>g, <2>2, <2>3 DEF TransferOpen
  <2>12. dialog.n = d => journal'[d] = "missing"
    BY <1>1, <2>2 DEF TransferOpen
  <2>13. \A i \in 1..MaxHeld : IsHeld(i)' => IsHeld(i) \/ i = id
    BY <1>3, <2>4 DEF IsHeld, Importable
  <2>14. \A e \in 1..MaxDialogs : e # d => journal'[e] = journal[e]
    BY <1>1
  <2> QED
    BY <1>1, <1>3, <2>1, <2>5, <2>6, <2>7, <2>9, <2>10, <2>11, <2>12, <2>13, <2>14, <2>n,
       TransferReplies DEF TransferResults
<1> QED
  BY <1>1, <1>2, <1>3

\* The secrets an import replaces, or those it would have replaced.
TransferImported(d) ==
    [r \in Refs |-> IF r \in call[d].refs
                    THEN [value |-> "incoming", revision |-> device[r].revision + 1]
                    ELSE device[r]]

\* An import leaves every preview what it saw, or behind.
LEMMA TransferReplaces ==
  ASSUME TransferInv, NEW d \in 1..MaxDialogs, NEW id \in 1..MaxHeld,
         device' \in {device, TransferImported(d)},
         previews' = [previews EXCEPT ![id].used = TRUE], UNCHANGED made
  PROVE  /\ device' \in [Refs -> TransferSecret]
         /\ previews' \in [1..MaxHeld -> TransferPreview]
         /\ \A i \in 1..MaxHeld :
             /\ previews'[i].held = previews[i].held /\ previews'[i].read = previews[i].read
             /\ previews'[i].seen = previews[i].seen
             /\ i # id => previews'[i] = previews[i]
         /\ previews'[id].used
         /\ TransferSeen'
<1>1. device \in [Refs -> TransferSecret] /\ previews \in [1..MaxHeld -> TransferPreview]
  BY DEF TransferInv, TransferTypes
<1>2. /\ \A r \in Refs : /\ device[r].revision \in Nat /\ device[r].value \in TransferValues
                         /\ [value |-> "incoming", revision |-> device[r].revision + 1]
                              \in TransferSecret
  BY <1>1 DEF TransferSecret, TransferValues
<1>3. device' \in [Refs -> TransferSecret]
  BY <1>1, <1>2 DEF TransferImported
<1>4. \A r \in Refs : \/ device'[r] = device[r]
                      \/ device'[r].revision = device[r].revision + 1
  BY <1>1 DEF TransferImported
<1>5. PICK p : p = [previews[id] EXCEPT !.used = TRUE]
  OBVIOUS
<1>6. /\ p = [held |-> previews[id].held, read |-> previews[id].read, seen |-> previews[id].seen,
              files |-> previews[id].files, used |-> TRUE]
      /\ previews[id] \in TransferPreview
  BY <1>1, <1>5 DEF TransferPreview
<1>7. p \in TransferPreview
  BY <1>6 DEF TransferPreview
<1>8. previews' = [previews EXCEPT ![id] = p]
  BY <1>1, <1>5
<1>9. /\ previews' \in [1..MaxHeld -> TransferPreview]
      /\ \A i \in 1..MaxHeld :
          /\ previews'[i].held = previews[i].held /\ previews'[i].read = previews[i].read
          /\ previews'[i].seen = previews[i].seen
          /\ i # id => previews'[i] = previews[i]
      /\ previews'[id].used
  <2>1. /\ previews'[id] = p /\ \A i \in 1..MaxHeld : i # id => previews'[i] = previews[i]
        /\ previews' \in [1..MaxHeld -> TransferPreview]
    BY <1>1, <1>7, <1>8
  <2>2. /\ p.held = previews[id].held /\ p.read = previews[id].read
        /\ p.seen = previews[id].seen /\ p.used
    BY <1>6
  <2> QED
    BY <2>1, <2>2
<1>10. TransferSeen'
  <2> SUFFICES ASSUME NEW i \in 1..MaxHeld, previews'[i].held
               PROVE  /\ i <= made'
                      /\ \A r \in Refs :
                          /\ previews'[i].read[r] <= device'[r].revision
                          /\ previews'[i].read[r] = device'[r].revision =>
                                 previews'[i].seen[r] = device'[r].value
    BY DEF TransferSeen
  <2>1. /\ previews[i].held /\ previews'[i].read = previews[i].read
        /\ previews'[i].seen = previews[i].seen
    BY <1>9
  <2>2. /\ i <= made
        /\ \A r \in Refs :
            /\ previews[i].read[r] <= device[r].revision
            /\ previews[i].read[r] = device[r].revision => previews[i].seen[r] = device[r].value
    BY <2>1 DEF TransferInv, TransferSeen
  <2>3. \A r \in Refs : previews[i].read[r] \in Nat
    BY <1>1 DEF TransferPreview
  <2>4. ASSUME NEW r \in Refs
        PROVE  /\ previews[i].read[r] <= device'[r].revision
               /\ previews[i].read[r] = device'[r].revision =>
                      previews[i].seen[r] = device'[r].value
    <3>1. CASE device'[r] = device[r]
      BY <2>2, <3>1
    <3>2. CASE device'[r].revision = device[r].revision + 1
      <4>1. \A x, y \in Nat : x <= y => x <= y + 1 /\ x # y + 1
        OBVIOUS
      <4>2. /\ previews[i].read[r] \in Nat /\ device[r].revision \in Nat
            /\ previews[i].read[r] <= device[r].revision
        BY <1>2, <2>2, <2>3
      <4> QED
        BY <3>2, <4>1, <4>2
    <3> QED
      BY <1>4, <3>1, <3>2
  <2> QED
    BY <2>1, <2>2, <2>4
<1> QED
  BY <1>3, <1>9, <1>10

\* An import is committed, refused by a failure after it or left to recovery.
LEMMA TransferCommits ==
  ASSUME TransferInv, NEW d \in 1..MaxDialogs, Transfer!Commit(d) PROVE TransferInv'
<1>g. PICK id : id = call[d].id
  OBVIOUS
<1>1. PICK result \in {"given", "failed", "recovery"} :
        /\ call[d].kind = "commit" /\ call[d].at = "asked" /\ Importable(id)
        /\ Transfer!Answers(d, result, id)
        /\ \/ /\ result # "recovery" /\ device' = TransferImported(d)
              /\ journal' = [journal EXCEPT ![d] = "committed"]
           \/ /\ result = "recovery" /\ device' \in {device, TransferImported(d)}
              /\ journal' = [journal EXCEPT ![d] = "recovery"]
        /\ previews' = [previews EXCEPT ![id].used = TRUE]
        /\ UNCHANGED <<packages, made, over, files, changes>>
  <2>1. /\ call[d].kind = "commit" /\ call[d].at = "asked" /\ Importable(id)
        /\ \/ /\ \E result \in {"given", "failed"} : Transfer!Answers(d, result, id)
              /\ device' = TransferImported(d) /\ journal' = [journal EXCEPT ![d] = "committed"]
           \/ /\ Transfer!Answers(d, "recovery", id)
              /\ device' \in {device, TransferImported(d)}
              /\ journal' = [journal EXCEPT ![d] = "recovery"]
        /\ previews' = [previews EXCEPT ![id].used = TRUE]
        /\ UNCHANGED <<packages, made, over, files, changes>>
    BY <1>g DEF Transfer!Commit, TransferImported, Importable
  <2> QED
    BY <2>1
<1>h. /\ TransferHeld /\ TransferSeen /\ made \in Nat /\ MaxHeld \in Nat
      /\ \A i \in 1..MaxHeld : previews[i].held => i <= made
  BY TransferHolds
<1>2. /\ call[d] \in TransferCall /\ TransferCallOf(d, call[d]) /\ TransferOpen(d, call[d])
  BY TransferAt
<1>3. id \in 1..made /\ id \in 1..MaxHeld /\ id \in Nat /\ id # 0
  <2>1. id \in 1..made
    BY <1>1, <1>2, <1>g DEF TransferCallOf
  <2>2. made <= MaxHeld
    BY TransferAt
  <2> QED
    BY <1>h, <2>1, <2>2
<1>4. /\ device' \in [Refs -> TransferSecret]
      /\ previews' \in [1..MaxHeld -> TransferPreview]
      /\ \A i \in 1..MaxHeld :
          /\ previews'[i].held = previews[i].held /\ previews'[i].read = previews[i].read
          /\ previews'[i].seen = previews[i].seen
          /\ i # id => previews'[i] = previews[i]
      /\ previews'[id].used /\ TransferSeen'
  <2>1. device' \in {device, TransferImported(d)} /\ UNCHANGED made
    BY <1>1
  <2> QED
    BY <1>1, <1>3, <2>1, TransferReplaces
<1>5. UNCHANGED <<dialog, told>>
  BY <1>1 DEF Transfer!Answers
<1>6. /\ journal' \in [1..MaxDialogs -> {"missing", "committed", "recovery"}]
      /\ result = "given" => journal'[d] = "committed"
      /\ \A e \in 1..MaxDialogs : e # d => journal'[e] = journal[e]
  BY <1>1, <1>h DEF TransferHeld
<1>7. TransferHeld'
  BY <1>1, <1>4, <1>6, <1>h DEF TransferHeld
<1>8. ~Importable(id)'
  BY <1>4 DEF Importable
<1>9. \A i \in 1..MaxHeld : /\ (i \in packages' => i \in packages)
                            /\ (previews'[i].held => previews[i].held)
                            /\ (Importable(i)' => Importable(i))
  <2>1. \A i \in 1..MaxHeld : Importable(i)' => i # id
    BY <1>8
  <2> QED
    BY <1>1, <1>4, <2>1 DEF Importable
<1>10. NativeLoses /\ \A i \in 1..MaxHeld : IsHeld(i)' => IsHeld(i)
  <2>1. made' = made /\ made <= made /\ 1..made \subseteq 1..MaxHeld
    BY <1>1, <1>h, TransferAt
  <2>2. NativeLoses
    BY <1>9, <2>1 DEF NativeLoses, Importable
  <2> QED
    BY <1>9, <2>2 DEF IsHeld
<1>n. PICK c : c = TransferAnswer(d, result, id)
  OBVIOUS
<1>11. c = [kind |-> "commit", at |-> "answered", id |-> id, refs |-> call[d].refs,
            result |-> result, aborted |-> call[d].aborted]
  BY <1>1, <1>n DEF TransferAnswer
<1>12. told'[d] = told[d] /\ told[d] \notin {"nothing", "imported", "not imported", "recovery"}
  BY <1>1, <1>2, <1>5 DEF TransferCallOf
<1>13. TransferCallOf(d, c)'
  <2>1. made' = made /\ id \notin packages'
    BY <1>1, <1>2, <1>g DEF TransferCallOf
  <2> QED
    BY <1>1, <1>3, <1>6, <1>8, <1>11, <1>12, <2>1 DEF TransferCallOf
<1>14. ToldRight(d)'
  BY <1>12 DEF ToldRight
<1>15. dialog.n = d /\ journal'[d] # "missing" => dialog.preview # 0 /\ ~Importable(dialog.preview)'
  <2>1. dialog.n = d => dialog.preview = id /\ dialog'.preview = id
    BY <1>1, <1>2, <1>5, <1>g DEF TransferOpen
  <2> QED
    BY <1>3, <1>8, <2>1 DEF Importable
<1>16. c.kind # "prepare"
  BY <1>11
<1> QED
  BY <1>1, <1>3, <1>4, <1>6, <1>7, <1>10, <1>13, <1>14, <1>15, <1>16, <1>n,
     TransferReplies DEF TransferResults

\* A step of the native side alone.
LEMMA TransferAlone ==
  ASSUME TransferInv, TransferHeld', UNCHANGED <<made, journal, told, call>>,
         UNCHANGED <<dialog, shownSecret, asked, reveals>>, NativeLoses, TransferSeen',
         cancels' \in SUBSET (1..made),
         \A i \in 1..MaxHeld : IsHeld(i)' => IsHeld(i) /\ (i \in cancels => i \in cancels')
  PROVE  TransferInv'
<1>1. TransferTypes'
  BY DEF TransferTypes, TransferHeld, TransferInv
<1>2. TransferDialogInv' /\ Transfer!ShownIsAsked'
  BY <1>1, TransferStays DEF Transfer!Busy
<1>3. \A e \in 1..MaxDialogs : TransferCallOf(e, call[e])' /\ TransferOpen(e, call[e])'
  BY <1>1, TransferOthers
<1>4. Transfer!HeldIsKnown'
  <2> SUFFICES ASSUME NEW i \in 1..MaxHeld, IsHeld(i)'
               PROVE  \/ i \in {dialog'.staged, dialog'.preview} \cup cancels'
                      \/ \E e \in 1..MaxDialogs : call'[e].at = "answered" /\ call'[e].id = i
    BY DEF Transfer!HeldIsKnown, IsHeld, Importable, Transfer!Held, Transfer!Dialogs
  <2>1. \/ i \in {dialog.staged, dialog.preview} \cup cancels
        \/ \E e \in 1..MaxDialogs : call[e].at = "answered" /\ call[e].id = i
    BY DEF TransferInv, Transfer!HeldIsKnown, IsHeld, Importable, Transfer!Held, Transfer!Dialogs
  <2> QED
    BY <2>1
<1>5. Transfer!ToldAsItIs'
  BY DEF TransferInv, Transfer!ToldAsItIs
<1> QED
  BY <1>1, <1>2, <1>3, <1>4, <1>5 DEF TransferInv

\* A name is given up, or too old: what was held under it is not any more.
LEMMA TransferDrops ==
  ASSUME TransferInv, NEW id \in 1..MaxHeld, NEW p,
         p \in {previews[id], Transfer!NoPreview}, packages' = packages \ {id},
         previews' = [previews EXCEPT ![id] = p], ~(p.held /\ ~p.used),
         over' \in SUBSET (1..made), UNCHANGED <<made, device, files, changes, journal>>
  PROVE  /\ TransferHeld' /\ NativeLoses /\ TransferSeen'
         /\ \A i \in 1..MaxHeld : IsHeld(i)' => IsHeld(i) /\ i # id
<1>h. /\ TransferHeld /\ TransferSeen /\ made \in Nat /\ MaxHeld \in Nat
      /\ \A i \in 1..MaxHeld : previews[i].held => i <= made
  BY TransferHolds
<1>1. Transfer!NoPreview \in TransferPreview /\ ~Transfer!NoPreview.held
  BY DEF Transfer!NoPreview, TransferPreview, TransferValues
<1>2. p \in TransferPreview /\ (p.held => p = previews[id])
  BY <1>1, <1>h DEF TransferHeld
<1>3. /\ previews' \in [1..MaxHeld -> TransferPreview] /\ previews'[id] = p
      /\ \A i \in 1..MaxHeld : i # id => previews'[i] = previews[i]
  BY <1>2, <1>h DEF TransferHeld
<1>4. TransferHeld'
  BY <1>3, <1>h DEF TransferHeld
<1>5. \A i \in 1..MaxHeld : /\ previews'[i].held => previews'[i] = previews[i]
                            /\ Importable(i)' => Importable(i) /\ i # id
  <2>1. ~Importable(id)'
    BY <1>3 DEF Importable
  <2>2. \A i \in 1..MaxHeld : Importable(i)' => i # id
    BY <2>1
  <2> QED
    BY <1>2, <1>3, <2>2 DEF Importable
<1>6. NativeLoses
  <2>1. \A i \in 1..made : i \in 1..MaxHeld
    BY <1>h, TransferHolds DEF TransferHeld
  <2>2. made' = made /\ made <= made
    BY <1>h
  <2> QED
    BY <1>5, <2>1, <2>2 DEF NativeLoses, Importable
<1>7. TransferSeen'
  BY <1>5, <1>h DEF TransferSeen
<1>8. \A i \in 1..MaxHeld : IsHeld(i)' => IsHeld(i) /\ i # id
  BY <1>5 DEF IsHeld
<1> QED
  BY <1>4, <1>6, <1>7, <1>8

\* A cancel command arrives, or time is over for a name.
LEMMA TransferGivesBack ==
  ASSUME TransferInv, NEW id \in 1..MaxHeld, Transfer!Cancelled(id) \/ Transfer!TimeOver(id)
  PROVE  TransferInv'
<1>1. CASE Transfer!Cancelled(id)
  <2>n. PICK p : p = IF previews[id].used THEN previews[id] ELSE Transfer!NoPreview
    OBVIOUS
  <2>1. /\ cancels' = cancels \ {id} /\ packages' = packages \ {id}
        /\ previews' = [previews EXCEPT ![id] = p] /\ over' = over
        /\ UNCHANGED <<dialog, shownSecret, asked, reveals, call, told>>
        /\ UNCHANGED <<made, device, files, changes, journal>>
    BY <1>1, <2>n DEF Transfer!Cancelled
  <2>2. p \in {previews[id], Transfer!NoPreview} /\ ~(p.held /\ ~p.used)
    BY <2>n DEF Transfer!NoPreview
  <2>3. over' \in SUBSET (1..made) /\ cancels' \in SUBSET (1..made)
    BY <2>1 DEF TransferInv, TransferTypes
  <2>4. /\ TransferHeld' /\ NativeLoses /\ TransferSeen'
        /\ \A i \in 1..MaxHeld : IsHeld(i)' => IsHeld(i) /\ i # id
    BY <2>1, <2>2, <2>3, TransferDrops
  <2>5. \A i \in 1..MaxHeld : IsHeld(i)' => IsHeld(i) /\ (i \in cancels => i \in cancels')
    BY <2>1, <2>4
  <2> QED
    BY <2>1, <2>3, <2>4, <2>5, TransferAlone
<1>2. CASE Transfer!TimeOver(id)
  <2>n. PICK p : p = Transfer!NoPreview
    OBVIOUS
  <2>1. /\ id <= made /\ over' = over \cup {id} /\ packages' = packages \ {id}
        /\ previews' = [previews EXCEPT ![id] = p]
        /\ UNCHANGED <<dialog, shownSecret, asked, reveals, call, cancels, told>>
        /\ UNCHANGED <<made, device, files, changes, journal>>
    BY <1>2, <2>n DEF Transfer!TimeOver
  <2>2. p \in {previews[id], Transfer!NoPreview} /\ ~(p.held /\ ~p.used)
    BY <2>n DEF Transfer!NoPreview
  <2>3. over' \in SUBSET (1..made) /\ cancels' \in SUBSET (1..made)
    <3>1. id \in 1..made
      BY <2>1, TransferHolds
    <3> QED
      BY <2>1, <3>1 DEF TransferInv, TransferTypes
  <2>4. /\ TransferHeld' /\ NativeLoses /\ TransferSeen'
        /\ \A i \in 1..MaxHeld : IsHeld(i)' => IsHeld(i) /\ i # id
    BY <2>1, <2>2, <2>3, TransferDrops
  <2>5. \A i \in 1..MaxHeld : IsHeld(i)' => IsHeld(i) /\ (i \in cancels => i \in cancels')
    BY <2>1, <2>4
  <2> QED
    BY <2>1, <2>3, <2>4, <2>5, TransferAlone
<1> QED
  BY <1>1, <1>2

\* The user saves a secret or the definitions.
LEMMA TransferSaves ==
  ASSUME TransferInv, NEW r \in Refs, Transfer!Save(r) PROVE TransferInv'
<1>h. /\ TransferHeld /\ TransferSeen /\ made \in Nat /\ MaxHeld \in Nat
      /\ \A i \in 1..MaxHeld : previews[i].held => i <= made
  BY TransferHolds
<1>s. PICK s : s = [value |-> "own", revision |-> device[r].revision + 1]
  OBVIOUS
<1>1. /\ changes < MaxChanges /\ changes' = changes + 1
      /\ \/ device' = [device EXCEPT ![r] = s] /\ files' = files
         \/ files' = files + 1 /\ device' = device
      /\ UNCHANGED <<dialog, shownSecret, asked, reveals, call, cancels, told>>
      /\ UNCHANGED <<made, packages, previews, over, journal>>
  BY <1>h, <1>s DEF Transfer!Save, TransferHeld
<1>2. /\ device[r].revision \in Nat /\ s \in TransferSecret
      /\ s.revision = device[r].revision + 1
  BY <1>h, <1>s DEF TransferHeld, TransferSecret, TransferValues
<1>3. /\ device' \in [Refs -> TransferSecret]
      /\ \A x \in Refs : device'[x] = device[x] \/ device'[x].revision = device[x].revision + 1
  BY <1>1, <1>2, <1>h DEF TransferHeld
<1>4. TransferHeld'
  <2>1. files' \in Nat /\ changes' \in 0..MaxChanges
    <3>1. MaxChanges \in Nat
      BY ClientsAssumption
    <3> QED
      BY <1>1, <1>h, <3>1 DEF TransferHeld
  <2> QED
    BY <1>1, <1>3, <1>h, <2>1 DEF TransferHeld
<1>5. NativeLoses /\ \A i \in 1..MaxHeld : IsHeld(i)' => IsHeld(i)
  BY <1>1, <1>h DEF NativeLoses, IsHeld, Importable
<1>6. TransferSeen'
  <2> SUFFICES ASSUME NEW i \in 1..MaxHeld, previews[i].held, NEW x \in Refs
               PROVE  /\ previews[i].read[x] <= device'[x].revision
                      /\ previews[i].read[x] = device'[x].revision =>
                             previews[i].seen[x] = device'[x].value
    BY <1>1, <1>h DEF TransferSeen
  <2>1. /\ previews[i].read[x] <= device[x].revision
        /\ previews[i].read[x] = device[x].revision => previews[i].seen[x] = device[x].value
        /\ previews[i].read[x] \in Nat /\ device[x].revision \in Nat
    BY <1>h DEF TransferSeen, TransferHeld, TransferPreview, TransferSecret
  <2>2. CASE device'[x] = device[x]
    BY <2>1, <2>2
  <2>3. CASE device'[x].revision = device[x].revision + 1
    <3>1. \A n, m \in Nat : n <= m => n <= m + 1 /\ n # m + 1
      OBVIOUS
    <3> QED
      BY <2>1, <2>3, <3>1
  <2> QED
    BY <1>3, <2>2, <2>3
<1>7. cancels' \in SUBSET (1..made) /\ \A i \in 1..MaxHeld : i \in cancels => i \in cancels'
  BY <1>1 DEF TransferInv, TransferTypes
<1> QED
  BY <1>1, <1>4, <1>5, <1>6, <1>7, TransferAlone

\* A command that has ended asks nothing of the dialog.
LEMMA TransferOpenEnds ==
  ASSUME NEW d, NEW c, TransferOpen(d, call[d]), UNCHANGED <<packages, previews, journal>>,
         UNCHANGED dialog, c.kind = "none", dialog.n = d => told'[d] = told[d]
  PROVE  TransferOpen(d, c)'
  BY DEF TransferOpen, Importable

\* An answer changes the dialog that asked.
LEMMA TransferArrives ==
  ASSUME TransferInv, UNCHANGED TransferNative, NEW d \in 1..MaxDialogs, d = dialog.n,
         call[d].kind # "none", call' = [call EXCEPT ![d] = Transfer!NoCall],
         UNCHANGED <<shownSecret, asked, reveals, cancels>>,
         dialog' \in TransferDialog, dialog'.n = d,
         dialog'.staged \in 0..made, dialog'.preview \in 0..made,
         dialog'.staged = 0 \/ dialog'.preview = 0,
         dialog'.staged # 0 => ~previews[dialog'.staged].held,
         dialog'.preview \notin packages,
         told' \in [1..MaxDialogs -> TransferTold], told'[d] # "nothing",
         \A e \in 1..MaxDialogs : e # d => told'[e] = told[e],
         journal[d] # "missing" => dialog'.preview # 0 /\ ~Importable(dialog.preview)',
         told'[d] \notin {"nothing", "open"} => dialog'.expired /\ ~dialog'.pending,
         ToldRight(d)',
         \A i \in 1..MaxHeld : IsHeld(i) =>
             /\ i \in {dialog.staged, dialog.preview} => i \in {dialog'.staged, dialog'.preview}
             /\ call[d].at = "answered" /\ call[d].id = i =>
                    i \in {dialog'.staged, dialog'.preview} \cup cancels
  PROVE  TransferInv'
<1>n. PICK c : c = Transfer!NoCall
  OBVIOUS
<1>1. /\ c \in TransferCall /\ TransferCallOf(d, c)' /\ c.kind = "none"
      /\ call' = [call EXCEPT ![d] = c]
  <2>1. Transfer!NoCall \in TransferCall /\ TransferCallOf(d, Transfer!NoCall)'
    BY TransferEnded
  <2>2. c.kind = "none"
    BY <1>n DEF Transfer!NoCall
  <2>3. TransferCallOf(d, c)'
    BY <1>n, <2>1 DEF TransferCallOf, Transfer!NoCall
  <2> QED
    BY <1>n, <2>1, <2>2, <2>3
<1>2. UNCHANGED <<packages, previews, journal, made>>
  BY DEF TransferNative
<1>3. TransferOpen(d, c)'
  <2>1. dialog'.preview \notin packages'
    BY <1>2
  <2>2. told'[d] \in {"imported", "not imported", "recovery"} => dialog'.expired /\ ~dialog'.pending
    OBVIOUS
  <2>3. journal'[d] # "missing" => dialog'.preview # 0 /\ ~Importable(dialog.preview)'
    BY <1>2
  <2> QED
    BY <1>1, <2>1, <2>2, <2>3 DEF TransferOpen
<1>4. /\ dialog.n # 0 /\ made \in Nat
      /\ call' \in [1..MaxDialogs -> TransferCall] /\ call'[d] = c
  BY <1>1, TransferAt DEF TransferInv, TransferTypes
<1>5. shownSecret = None /\ \A q \in reveals : q.late /\ q.n = d
  <2>1. Transfer!Busy(dialog.n)
    BY DEF Transfer!Busy
  <2> QED
    BY <2>1 DEF TransferInv, TransferDialogInv, Transfer!ShownIsAsked
<1>6. TransferDialogInv'
  BY <1>2, <1>4, <1>5 DEF TransferDialogInv
<1>7. Transfer!ShownIsAsked'
  BY <1>5 DEF Transfer!ShownIsAsked
<1>8. /\ shownSecret' \in Refs \cup {None} /\ asked' \in Refs \cup {None}
      /\ reveals' \in SUBSET TransferReveal /\ cancels' \in SUBSET (1..made)
      /\ dialog'.staged <= made /\ dialog'.preview <= made
  BY <1>4 DEF TransferInv, TransferTypes
<1>9. \A e \in 1..MaxDialogs : e # d => ~(dialog.n = e \/ dialog'.n = e)
  OBVIOUS
<1>10. /\ told'[d] = "imported" => journal[d] = "committed"
       /\ told'[d] = "not imported" => journal[d] = "missing"
  BY <1>2 DEF ToldRight
<1>11. \A i \in 1..MaxHeld : IsHeld(i) =>
           /\ i \in {dialog.staged, dialog.preview} \cup cancels =>
                  i \in {dialog'.staged, dialog'.preview} \cup cancels'
           /\ call[d].at = "answered" /\ call[d].id = i =>
                  i \in {dialog'.staged, dialog'.preview} \cup cancels'
  OBVIOUS
<1> QED
  BY <1>1, <1>3, <1>6, <1>7, <1>8, <1>9, <1>10, <1>11, TransferTurns

\* An answer arrives that the dialog takes no notice of.
LEMMA TransferPasses ==
  ASSUME TransferInv, UNCHANGED TransferNative, NEW d \in 1..MaxDialogs,
         call[d].kind # "none", call' = [call EXCEPT ![d] = Transfer!NoCall],
         UNCHANGED <<dialog, shownSecret, asked, reveals>>,
         cancels \subseteq cancels', cancels' \in SUBSET (1..made),
         told' \in [1..MaxDialogs -> TransferTold], told'[d] = "nothing" => told[d] = "nothing",
         \A e \in 1..MaxDialogs : e # d => told'[e] = told[e], ToldRight(d)',
         d = dialog.n => told'[d] = told[d],
         \A i \in 1..MaxHeld : IsHeld(i) /\ call[d].at = "answered" /\ call[d].id = i =>
             i \in cancels'
  PROVE  TransferInv'
<1>n. PICK c : c = Transfer!NoCall
  OBVIOUS
<1>1. /\ c \in TransferCall /\ TransferCallOf(d, c)' /\ c.kind = "none"
      /\ call' = [call EXCEPT ![d] = c]
  <2>1. Transfer!NoCall \in TransferCall /\ TransferCallOf(d, Transfer!NoCall)'
    BY TransferEnded
  <2>2. c.kind = "none"
    BY <1>n DEF Transfer!NoCall
  <2>3. TransferCallOf(d, c)'
    BY <1>n, <2>1 DEF TransferCallOf, Transfer!NoCall
  <2> QED
    BY <1>n, <2>1, <2>2, <2>3
<1>2. UNCHANGED <<packages, previews, journal, made>>
  BY DEF TransferNative
<1>3. TransferOpen(d, c)'
  <2>1. TransferOpen(d, call[d])
    BY TransferAt
  <2>2. dialog'.n = d => told'[d] = told[d]
    OBVIOUS
  <2>3. UNCHANGED dialog
    OBVIOUS
  <2> QED
    BY <1>1, <1>2, <2>1, <2>2, <2>3, TransferOpenEnds
<1>4. /\ told'[d] = "imported" => journal[d] = "committed"
      /\ told'[d] = "not imported" => journal[d] = "missing"
  BY <1>2 DEF ToldRight
<1> QED
  BY <1>1, <1>3, <1>4, TransferGoesOn

\* What is known of the open dialog, whatever it waits for.
LEMMA TransferKnown ==
  ASSUME TransferInv, NEW d \in 1..MaxDialogs, d = dialog.n
  PROVE  /\ told[d] # "nothing" /\ dialog.preview \notin packages
         /\ told[d] \notin {"nothing", "open"} => dialog.expired /\ ~dialog.pending
         /\ journal[d] # "missing" => dialog.preview # 0 /\ ~Importable(dialog.preview)
         /\ dialog.staged = 0 \/ dialog.preview = 0
         /\ dialog.staged # 0 => ~previews[dialog.staged].held
<1>1. TransferOpen(d, call[d]) /\ told[d] \in TransferTold
  BY TransferAt DEF TransferInv, TransferTypes
<1>2. TransferDialogInv
  BY DEF TransferInv
<1>3. /\ told[d] # "nothing" /\ dialog.preview \notin packages
      /\ told[d] \notin {"nothing", "open"} => dialog.expired /\ ~dialog.pending
      /\ journal[d] # "missing" => dialog.preview # 0 /\ ~Importable(dialog.preview)
  BY <1>1 DEF TransferOpen, TransferTold
<1> QED
  BY <1>2, <1>3 DEF TransferDialogInv

\* What was told stays right when nothing is told or done.
LEMMA TransferRight ==
  ASSUME TransferInv, UNCHANGED <<told, journal>>, NEW d \in 1..MaxDialogs
  PROVE  ToldRight(d)'
  BY DEF ToldRight, TransferInv, Transfer!ToldAsItIs, Transfer!Dialogs

\* The types of what the user was told, once he is told more.
LEMMA TransferTells ==
  ASSUME TransferInv, NEW d \in 1..MaxDialogs, NEW words \in TransferTold,
         told' = [told EXCEPT ![d] = words]
  PROVE  /\ told' \in [1..MaxDialogs -> TransferTold] /\ told'[d] = words
         /\ \A e \in 1..MaxDialogs : e # d => told'[e] = told[e]
  BY DEF TransferInv, TransferTypes

\* Nothing was given, or what was given came too late.
LEMMA TransferGetsNothing ==
  ASSUME TransferInv, NEW d \in 1..MaxDialogs, UNCHANGED TransferNative,
         call[d].kind \in {"select", "prepare"}, call[d].at = "answered",
         call' = [call EXCEPT ![d] = Transfer!NoCall], Transfer!NothingGiven(d)
  PROVE  TransferInv'
<1>r. PICK returned : returned = Transfer!Returned(d)
  OBVIOUS
<1>1. /\ UNCHANGED told
      /\ call[d].result = "nothing" \/ call[d].id \in returned
      /\ IF d = dialog.n THEN Transfer!GivenUp({dialog.staged, dialog.preview} \cup returned)
         ELSE cancels' = cancels \cup returned /\ UNCHANGED <<dialog, shownSecret, asked, reveals>>
  BY <1>r DEF Transfer!NothingGiven, Transfer!Mounted, Transfer!Returned
<1>2. /\ call[d] \in TransferCall /\ TransferCallOf(d, call[d]) /\ made \in Nat
      /\ dialog.staged \in 0..made /\ dialog.preview \in 0..made
      /\ cancels \in SUBSET (1..made)
  BY TransferAt DEF TransferInv, TransferTypes
<1>3. returned \subseteq 1..made
  BY <1>r, <1>2 DEF Transfer!Returned, TransferCallOf
<1>4. call[d].result = "nothing" => call[d].id = 0
  BY <1>2 DEF TransferCallOf
<1>5. \A i \in 1..MaxHeld : call[d].id = i => i \in returned
  BY <1>1, <1>4, TransferAt
<1>6. /\ told' \in [1..MaxDialogs -> TransferTold]
      /\ \A e \in 1..MaxDialogs : e # d => told'[e] = told[e]
      /\ told'[d] = "imported" => journal[d] = "committed"
      /\ told'[d] = "not imported" => journal[d] = "missing"
  BY <1>1, TransferToldStays
<1>7. CASE d = dialog.n
  <2>n. PICK names : names = {dialog.staged, dialog.preview} \cup returned
    OBVIOUS
  <2>c. PICK c : c = Transfer!NoCall
    OBVIOUS
  <2>g. Transfer!GivenUp(names)
    BY <1>1, <1>7, <2>n
  <2>s. names \subseteq 0..made
    <3>1. returned \subseteq 0..made
      BY <1>2, <1>3
    <3> QED
      BY <1>2, <2>n, <3>1
  <2>1. Transfer!GivenUp(names) /\ names \subseteq 0..made
    BY <2>g, <2>s
  <2>2. c \in TransferCall /\ TransferCallOf(d, c)' /\ c.kind = "none"
    <3>1. Transfer!NoCall \in TransferCall /\ TransferCallOf(d, Transfer!NoCall)'
      BY <1>1, TransferEnded
    <3>2. TransferCallOf(d, c)'
      BY <2>c, <3>1 DEF TransferCallOf, Transfer!NoCall
    <3> QED
      BY <2>c, <3>1, <3>2 DEF Transfer!NoCall
  <2>3. \A i \in 1..MaxHeld :
          /\ i \in {dialog.staged, dialog.preview} => i \in names
          /\ call[d].id = i => i \in names
    BY <1>5, <2>n
  <2> QED
    BY <1>6, <1>7, <2>1, <2>2, <2>3, <2>c, TransferShuts
<1>8. CASE d # dialog.n
  <2>1. ToldRight(d)'
    BY <1>1, TransferRight DEF TransferNative
  <2>2. /\ cancels \subseteq cancels' /\ cancels' \in SUBSET (1..made)
        /\ \A i \in 1..MaxHeld : call[d].id = i => i \in cancels'
    BY <1>1, <1>2, <1>3, <1>5, <1>8
  <2>3. UNCHANGED <<dialog, shownSecret, asked, reveals>>
    BY <1>1, <1>8
  <2> QED
    BY <1>1, <1>6, <1>8, <2>1, <2>2, <2>3, TransferPasses
<1> QED
  BY <1>7, <1>8

\* A package or a preview of it arrives.
LEMMA TransferGets ==
  ASSUME TransferInv, NEW d \in 1..MaxDialogs, UNCHANGED TransferNative,
         call[d].kind \in {"select", "prepare"}, call[d].at = "answered",
         call' = [call EXCEPT ![d] = Transfer!NoCall], Transfer!Given(d)
  PROVE  TransferInv'
<1>g. PICK id : id = call[d].id
  OBVIOUS
<1>s. PICK missing : missing = Transfer!Missing(previews[id])
  OBVIOUS
<1>1. /\ call[d].result = "given" /\ ~call[d].aborted
      /\ dialog' = IF call[d].kind = "select" THEN [dialog EXCEPT !.staged = id]
                   ELSE [dialog EXCEPT !.staged = 0, !.preview = id, !.selected = missing]
      /\ UNCHANGED <<shownSecret, asked, reveals, cancels, told>>
  BY <1>g, <1>s DEF Transfer!Given, Transfer!Nothing
<1>2. /\ call[d] \in TransferCall /\ TransferCallOf(d, call[d]) /\ TransferOpen(d, call[d])
      /\ made \in Nat /\ dialog \in TransferDialog
      /\ dialog.staged \in 0..made /\ dialog.preview \in 0..made
  BY TransferAt
<1>3. d = dialog.n /\ id \in 1..made /\ dialog.preview = 0
  BY <1>1, <1>2, <1>g DEF TransferOpen, TransferCallOf
<1>4. /\ told[d] # "nothing" /\ dialog.preview \notin packages
      /\ told[d] \notin {"nothing", "open"} => dialog.expired /\ ~dialog.pending
      /\ journal[d] = "missing"
      /\ dialog.staged # 0 => ~previews[dialog.staged].held
  BY <1>3, TransferKnown
<1>5. id # 0 /\ id \in Nat /\ id \in 0..made /\ 0 \in 0..made
  BY <1>2, <1>3
<1>6. /\ told' \in [1..MaxDialogs -> TransferTold] /\ told'[d] = told[d]
      /\ \A e \in 1..MaxDialogs : e # d => told'[e] = told[e]
  BY <1>1, TransferToldStays
<1>7. ToldRight(d)'
  BY <1>1, TransferRight DEF TransferNative
<1>8. CASE call[d].kind = "select"
  <2>1. dialog.staged = 0 /\ ~previews[id].held
    BY <1>1, <1>2, <1>3, <1>8, <1>g DEF TransferOpen, TransferCallOf
  <2>2. dialog' = [n |-> d, mode |-> dialog.mode, staged |-> id, preview |-> 0,
                   selected |-> dialog.selected, pending |-> dialog.pending,
                   expired |-> dialog.expired]
    BY <1>1, <1>2, <1>3, <1>8 DEF TransferDialog
  <2>3. dialog' \in TransferDialog
    BY <1>2, <1>3, <1>5, <2>2 DEF TransferDialog
  <2>4. \A i \in 1..MaxHeld : IsHeld(i) =>
          /\ i \in {dialog.staged, dialog.preview} => i \in {dialog'.staged, dialog'.preview}
          /\ call[d].id = i => i \in {dialog'.staged, dialog'.preview} \cup cancels
    BY <1>3, <1>g, <2>1, <2>2, TransferAt
  <2>5. /\ dialog'.n = d /\ dialog'.staged = id /\ dialog'.preview = 0
        /\ dialog'.expired = dialog.expired /\ dialog'.pending = dialog.pending
    BY <2>2
  <2> QED
    BY <1>1, <1>3, <1>4, <1>5, <1>6, <1>7, <1>8, <2>1, <2>3, <2>4, <2>5, TransferArrives
<1>9. CASE call[d].kind = "prepare"
  <2>1. dialog.staged \notin packages /\ id \notin packages
    BY <1>1, <1>2, <1>3, <1>9, <1>g DEF TransferOpen, TransferCallOf
  <2>2. dialog' = [n |-> d, mode |-> dialog.mode, staged |-> 0, preview |-> id,
                   selected |-> missing, pending |-> dialog.pending,
                   expired |-> dialog.expired]
    BY <1>1, <1>2, <1>3, <1>9 DEF TransferDialog
  <2>3. dialog' \in TransferDialog
    <3>1. missing \in SUBSET Refs
      BY <1>s DEF Transfer!Missing
    <3> QED
      BY <1>2, <1>3, <1>5, <2>2, <3>1 DEF TransferDialog
  <2>4. \A i \in 1..MaxHeld : IsHeld(i) =>
          /\ i \in {dialog.staged, dialog.preview} => i \in {dialog'.staged, dialog'.preview}
          /\ call[d].id = i => i \in {dialog'.staged, dialog'.preview} \cup cancels
    <3>1. \A i \in 1..MaxHeld : i # 0
      BY TransferAt
    <3>2. ASSUME NEW i \in 1..MaxHeld, IsHeld(i) PROVE i # dialog.staged
      <4>1. i = dialog.staged => ~IsHeld(i)
        BY <1>4, <2>1, <3>1 DEF IsHeld, Importable
      <4> QED
        BY <3>2, <4>1
    <3> QED
      BY <1>3, <1>g, <2>2, <3>1, <3>2
  <2>5. /\ dialog'.n = d /\ dialog'.staged = 0 /\ dialog'.preview = id
        /\ dialog'.expired = dialog.expired /\ dialog'.pending = dialog.pending
    BY <2>2
  <2> QED
    BY <1>1, <1>3, <1>4, <1>5, <1>6, <1>7, <1>9, <2>1, <2>3, <2>4, <2>5, TransferArrives
<1> QED
  BY <1>8, <1>9

\* A package or a preview of it is refused, or too old.
LEMMA TransferFails ==
  ASSUME TransferInv, NEW d \in 1..MaxDialogs, UNCHANGED TransferNative,
         call[d].kind \in {"select", "prepare"}, call[d].at = "answered",
         call' = [call EXCEPT ![d] = Transfer!NoCall], Transfer!Failed(d)
  PROVE  TransferInv'
<1>1. /\ call[d].result \in {"failed", "expired"}
      /\ dialog' = IF d = dialog.n /\ call[d].result = "expired"
                   THEN [dialog EXCEPT !.staged = 0] ELSE dialog
      /\ UNCHANGED <<shownSecret, asked, reveals, cancels, told>>
  BY DEF Transfer!Failed, Transfer!Nothing, Transfer!Mounted
<1>2. /\ call[d] \in TransferCall /\ TransferCallOf(d, call[d]) /\ TransferOpen(d, call[d])
      /\ made \in Nat /\ dialog \in TransferDialog /\ cancels \in SUBSET (1..made)
      /\ dialog.staged \in 0..made /\ dialog.preview \in 0..made
  BY TransferAt DEF TransferInv, TransferTypes
<1>3. call[d].id = 0
  BY <1>1, <1>2 DEF TransferCallOf
<1>4. \A i \in 1..MaxHeld : i # 0
  BY TransferAt
<1>5. /\ told' \in [1..MaxDialogs -> TransferTold]
      /\ \A e \in 1..MaxDialogs : told'[e] = told[e]
  BY <1>1 DEF TransferInv, TransferTypes
<1>6. ToldRight(d)'
  BY <1>1, TransferRight DEF TransferNative
<1>7. CASE d = dialog.n /\ call[d].result = "expired"
  <2>1. /\ told[d] # "nothing" /\ dialog.preview \notin packages
        /\ told[d] \notin {"nothing", "open"} => dialog.expired /\ ~dialog.pending
        /\ journal[d] # "missing" => dialog.preview # 0 /\ ~Importable(dialog.preview)
        /\ dialog.staged # 0 => ~previews[dialog.staged].held
    BY <1>7, TransferKnown
  <2>2. dialog.preview = 0 /\ (dialog.staged = 0 \/ dialog.staged \notin packages)
    BY <1>2, <1>7 DEF TransferOpen
  <2>3. dialog' = [n |-> dialog.n, mode |-> dialog.mode, staged |-> 0, preview |-> dialog.preview,
                   selected |-> dialog.selected, pending |-> dialog.pending,
                   expired |-> dialog.expired]
    BY <1>1, <1>2, <1>7 DEF TransferDialog
  <2>4. dialog' \in TransferDialog
    BY <1>2, <2>3 DEF TransferDialog
  <2>5. \A i \in 1..MaxHeld : IsHeld(i) =>
          /\ i \in {dialog.staged, dialog.preview} => i \in {dialog'.staged, dialog'.preview}
          /\ call[d].id = i => i \in {dialog'.staged, dialog'.preview} \cup cancels
    <3>1. ASSUME NEW i \in 1..MaxHeld, IsHeld(i) PROVE i # dialog.staged
      <4>1. i = dialog.staged => ~IsHeld(i)
        BY <1>4, <2>1, <2>2 DEF IsHeld, Importable
      <4> QED
        BY <3>1, <4>1
    <3> QED
      BY <1>3, <1>4, <2>2, <3>1
  <2>6. /\ dialog'.n = d /\ dialog'.staged = 0 /\ dialog'.preview = 0
        /\ dialog'.expired = dialog.expired /\ dialog'.pending = dialog.pending
    BY <1>7, <2>2, <2>3
  <2>7. 0 \in 0..made /\ journal[d] = "missing"
    BY <1>2, <2>1, <2>2
  <2> QED
    <3>1. /\ dialog'.n = d /\ dialog'.staged \in 0..made /\ dialog'.preview \in 0..made
          /\ dialog'.staged = 0 \/ dialog'.preview = 0
          /\ dialog'.staged # 0 => ~previews[dialog'.staged].held
      BY <2>6, <2>7
    <3>2. told'[d] # "nothing" /\ (told'[d] \notin {"nothing", "open"} =>
                                      dialog'.expired /\ ~dialog'.pending)
      BY <1>5, <2>1, <2>6
    <3>3. /\ dialog'.preview \notin packages
          /\ journal[d] # "missing" => dialog'.preview # 0 /\ ~Importable(dialog.preview)'
      BY <2>1, <2>2, <2>6, <2>7
    <3> QED
      BY <1>1, <1>5, <1>6, <1>7, <2>4, <2>5, <3>1, <3>2, <3>3, TransferArrives
<1>8. CASE ~(d = dialog.n /\ call[d].result = "expired")
  <2>1. UNCHANGED <<dialog, shownSecret, asked, reveals>> /\ cancels' = cancels
    BY <1>1, <1>8
  <2>2. \A i \in 1..MaxHeld : call[d].id # i
    BY <1>3, <1>4
  <2>3. cancels \subseteq cancels' /\ cancels' \in SUBSET (1..made)
    BY <1>2, <2>1
  <2> QED
    BY <1>5, <1>6, <2>1, <2>2, <2>3, TransferPasses
<1> QED
  BY <1>7, <1>8

\* The answer to an import, or to what became of it, names nothing that is held.
LEMMA TransferNamesNone ==
  ASSUME TransferInv, NEW d \in 1..MaxDialogs,
         call[d].kind \in {"commit", "status"}, call[d].at = "answered"
  PROVE  \A i \in 1..MaxHeld : IsHeld(i) => call[d].id # i
<1>1. TransferCallOf(d, call[d]) /\ call[d].id \in Nat /\ \A i \in 1..MaxHeld : i # 0
  BY TransferAt DEF TransferCall
<1>2. call[d].kind = "status" => call[d].id = 0
  BY <1>1 DEF TransferCallOf
<1>3. call[d].kind = "commit" /\ call[d].id # 0 =>
          call[d].id \notin packages /\ ~Importable(call[d].id)
  BY <1>1 DEF TransferCallOf
<1> QED
  BY <1>1, <1>2, <1>3 DEF IsHeld

\* The user is told that his import happened.
LEMMA TransferConfirmed ==
  ASSUME TransferInv, NEW d \in 1..MaxDialogs, UNCHANGED TransferNative,
         call[d].kind \in {"commit", "status"}, call[d].at = "answered",
         call' = [call EXCEPT ![d] = Transfer!NoCall], call[d].result = "given",
         told' = [told EXCEPT ![d] = "imported"],
         IF d = dialog.n THEN Transfer!GivenUp({}) ELSE Transfer!Stays
  PROVE  TransferInv'
<1>w. PICK words : words = "imported"
  OBVIOUS
<1>1. /\ told' \in [1..MaxDialogs -> TransferTold] /\ told'[d] = words
      /\ \A e \in 1..MaxDialogs : e # d => told'[e] = told[e]
  <2>1. words \in TransferTold /\ told' = [told EXCEPT ![d] = words]
    BY <1>w DEF TransferTold
  <2> QED
    BY <2>1, TransferTells
<1>2. journal[d] = "committed"
  BY TransferAt DEF TransferCallOf
<1>3. \A i \in 1..MaxHeld : IsHeld(i) => call[d].id # i
  BY TransferNamesNone
<1>4. /\ told'[d] # "nothing" /\ (told'[d] = "imported" => journal[d] = "committed")
      /\ told'[d] # "not imported"
  BY <1>1, <1>2, <1>w
<1>5. CASE d = dialog.n
  <2>n. PICK names : names = {}
    OBVIOUS
  <2>1. Transfer!GivenUp(names) /\ names \subseteq 0..made
    BY <1>5, <2>n
  <2>c. PICK c : c = Transfer!NoCall
    OBVIOUS
  <2>2. c \in TransferCall /\ TransferCallOf(d, c)' /\ c.kind = "none"
    <3>1. Transfer!NoCall \in TransferCall /\ TransferCallOf(d, Transfer!NoCall)'
      BY <1>4, TransferEnded
    <3>2. TransferCallOf(d, c)'
      BY <2>c, <3>1 DEF TransferCallOf, Transfer!NoCall
    <3> QED
      BY <2>c, <3>1, <3>2 DEF Transfer!NoCall
  <2>3. /\ dialog.preview \notin packages /\ dialog.preview # 0 /\ ~Importable(dialog.preview)
        /\ dialog.staged = 0
    BY <1>2, <1>5, TransferKnown
  <2>4. \A i \in 1..MaxHeld : IsHeld(i) =>
          /\ i \in {dialog.staged, dialog.preview} => i \in names
          /\ call[d].id = i => i \in names
    <3>1. \A i \in 1..MaxHeld : i # 0
      BY TransferAt
    <3>2. ~IsHeld(dialog.preview)
      BY <2>3 DEF IsHeld
    <3> QED
      BY <1>3, <2>3, <3>1, <3>2
  <2> QED
    BY <1>1, <1>4, <1>5, <2>1, <2>2, <2>4, <2>c, TransferShuts
<1>6. CASE d # dialog.n
  <2>1. UNCHANGED <<dialog, shownSecret, asked, reveals>> /\ cancels' = cancels
    BY <1>6 DEF Transfer!Stays
  <2>2. cancels \subseteq cancels' /\ cancels' \in SUBSET (1..made)
    BY <2>1 DEF TransferInv, TransferTypes
  <2>3. ToldRight(d)'
    BY <1>4 DEF ToldRight, TransferNative
  <2> QED
    BY <1>1, <1>3, <1>4, <1>6, <2>1, <2>2, <2>3, TransferPasses
<1> QED
  BY <1>5, <1>6

\* The user is told that it did not happen, or needs recovery.
LEMMA TransferNotImported ==
  ASSUME TransferInv, NEW d \in 1..MaxDialogs, UNCHANGED TransferNative,
         call[d].kind \in {"commit", "status"}, call[d].at = "answered",
         call' = [call EXCEPT ![d] = Transfer!NoCall], NEW words \in {"not imported", "recovery"},
         words = "not imported" => call[d].result = "nothing",
         told' = [told EXCEPT ![d] = words],
         dialog' = IF d = dialog.n THEN [dialog EXCEPT !.pending = FALSE, !.expired = TRUE]
                   ELSE dialog,
         UNCHANGED <<shownSecret, asked, reveals, cancels>>
  PROVE  TransferInv'
<1>1. /\ told' \in [1..MaxDialogs -> TransferTold] /\ told'[d] = words
      /\ \A e \in 1..MaxDialogs : e # d => told'[e] = told[e]
  <2>1. words \in TransferTold
    BY DEF TransferTold
  <2> QED
    BY <2>1, TransferTells
<1>2. words = "not imported" => journal[d] = "missing"
  BY TransferAt DEF TransferCallOf
<1>3. \A i \in 1..MaxHeld : IsHeld(i) => call[d].id # i
  BY TransferNamesNone
<1>4. told'[d] # "nothing" /\ ToldRight(d)'
  BY <1>1, <1>2 DEF ToldRight, TransferNative
<1>5. CASE d = dialog.n
  <2>1. /\ dialog.preview \notin packages
        /\ journal[d] # "missing" => dialog.preview # 0 /\ ~Importable(dialog.preview)
        /\ dialog.staged = 0 \/ dialog.preview = 0
        /\ dialog.staged # 0 => ~previews[dialog.staged].held
    BY <1>5, TransferKnown
  <2>2. /\ dialog \in TransferDialog /\ dialog.staged \in 0..made /\ dialog.preview \in 0..made
    BY TransferAt
  <2>3. dialog' = [n |-> dialog.n, mode |-> dialog.mode, staged |-> dialog.staged,
                   preview |-> dialog.preview, selected |-> dialog.selected,
                   pending |-> FALSE, expired |-> TRUE]
    BY <1>5, <2>2 DEF TransferDialog
  <2>4. dialog' \in TransferDialog
    BY <2>2, <2>3 DEF TransferDialog
  <2>5. /\ dialog'.n = d /\ dialog'.staged = dialog.staged /\ dialog'.preview = dialog.preview
        /\ dialog'.expired /\ ~dialog'.pending
    BY <1>5, <2>3
  <2>6. journal[d] # "missing" => dialog'.preview # 0 /\ ~Importable(dialog.preview)'
    BY <2>1, <2>5 DEF Importable, TransferNative
  <2>7. \A i \in 1..MaxHeld : IsHeld(i) =>
          /\ i \in {dialog.staged, dialog.preview} => i \in {dialog'.staged, dialog'.preview}
          /\ call[d].id = i => i \in {dialog'.staged, dialog'.preview} \cup cancels
    BY <1>3, <2>5
  <2> QED
    BY <1>1, <1>4, <1>5, <2>1, <2>2, <2>4, <2>5, <2>6, <2>7, TransferArrives
<1>6. CASE d # dialog.n
  <2>1. UNCHANGED <<dialog, shownSecret, asked, reveals>> /\ cancels' = cancels
    BY <1>6
  <2>2. cancels \subseteq cancels' /\ cancels' \in SUBSET (1..made)
    BY <2>1 DEF TransferInv, TransferTypes
  <2> QED
    BY <1>1, <1>3, <1>4, <1>6, <2>1, <2>2, TransferPasses
<1> QED
  BY <1>5, <1>6

\* The outcome of an import is told.
LEMMA TransferTellsOutcome ==
  ASSUME TransferInv, NEW d \in 1..MaxDialogs, UNCHANGED TransferNative,
         call[d].kind \in {"commit", "status"}, call[d].at = "answered",
         call' = [call EXCEPT ![d] = Transfer!NoCall], Transfer!Outcome(d)
  PROVE  TransferInv'
<1>1. \/ /\ call[d].result = "given" /\ told' = [told EXCEPT ![d] = "imported"]
         /\ IF d = dialog.n THEN Transfer!GivenUp({}) ELSE Transfer!Stays
      \/ /\ call[d].result = "nothing" \/ call[d].result = "recovery"
         /\ told' = [told EXCEPT ![d] = IF call[d].result = "nothing" THEN "not imported"
                                        ELSE "recovery"]
         /\ dialog' = IF d = dialog.n THEN [dialog EXCEPT !.pending = FALSE, !.expired = TRUE]
                      ELSE dialog
         /\ UNCHANGED <<shownSecret, asked, reveals, cancels>>
      \/ Transfer!Stays /\ UNCHANGED told
  BY DEF Transfer!Outcome, Transfer!Mounted, Transfer!NotCommitted
<1>2. CASE /\ call[d].result = "given" /\ told' = [told EXCEPT ![d] = "imported"]
           /\ IF d = dialog.n THEN Transfer!GivenUp({}) ELSE Transfer!Stays
  BY <1>2, TransferConfirmed
<1>3. CASE /\ call[d].result = "nothing" \/ call[d].result = "recovery"
           /\ told' = [told EXCEPT ![d] = IF call[d].result = "nothing" THEN "not imported"
                                          ELSE "recovery"]
           /\ dialog' = IF d = dialog.n THEN [dialog EXCEPT !.pending = FALSE, !.expired = TRUE]
                        ELSE dialog
           /\ UNCHANGED <<shownSecret, asked, reveals, cancels>>
  <2>w. PICK words : words = IF call[d].result = "nothing" THEN "not imported" ELSE "recovery"
    OBVIOUS
  <2>1. /\ words \in {"not imported", "recovery"} /\ told' = [told EXCEPT ![d] = words]
        /\ words = "not imported" => call[d].result = "nothing"
    BY <1>3, <2>w
  <2> QED
    BY <1>3, <2>1, TransferNotImported
<1>4. CASE Transfer!Stays /\ UNCHANGED told
  <2>1. UNCHANGED <<dialog, shownSecret, asked, reveals>> /\ cancels' = cancels
    BY <1>4 DEF Transfer!Stays
  <2>2. cancels \subseteq cancels' /\ cancels' \in SUBSET (1..made)
    BY <2>1 DEF TransferInv, TransferTypes
  <2>3. ToldRight(d)'
    BY <1>4, TransferRight DEF TransferNative
  <2>4. \A i \in 1..MaxHeld : IsHeld(i) => call[d].id # i
    BY TransferNamesNone
  <2>5. /\ told' \in [1..MaxDialogs -> TransferTold]
        /\ \A e \in 1..MaxDialogs : told'[e] = told[e]
    BY <1>4 DEF TransferInv, TransferTypes
  <2> QED
    BY <2>1, <2>2, <2>3, <2>4, <2>5, TransferPasses
<1> QED
  BY <1>1, <1>2, <1>3, <1>4

\* The inventory was read, or a package written.
LEMMA TransferWrites ==
  ASSUME TransferInv, NEW d \in 1..MaxDialogs, UNCHANGED TransferNative,
         call[d].kind \in {"inspect", "export"}, call[d].at = "answered",
         call' = [call EXCEPT ![d] = Transfer!NoCall], Transfer!Written(d)
  PROVE  TransferInv'
<1>1. /\ UNCHANGED told
      /\ IF d = dialog.n /\ call[d].kind = "export" /\ call[d].result # "failed"
         THEN Transfer!GivenUp({dialog.staged, dialog.preview})
         ELSE /\ dialog' = IF d = dialog.n /\ call[d].kind = "inspect" /\ call[d].result = "given"
                           THEN [dialog EXCEPT !.selected = Transfer!Available] ELSE dialog
              /\ UNCHANGED <<shownSecret, asked, reveals, cancels>>
  BY DEF Transfer!Written, Transfer!Mounted, Transfer!Closes
<1>2. /\ TransferCallOf(d, call[d]) /\ made \in Nat /\ dialog \in TransferDialog
      /\ dialog.staged \in 0..made /\ dialog.preview \in 0..made /\ cancels \in SUBSET (1..made)
  BY TransferAt DEF TransferInv, TransferTypes
<1>3. \A i \in 1..MaxHeld : call[d].id # i
  <2>1. call[d].id = 0
    BY <1>2 DEF TransferCallOf
  <2>2. \A i \in 1..MaxHeld : i # 0
    BY TransferAt
  <2> QED
    BY <2>1, <2>2
<1>4. /\ told' \in [1..MaxDialogs -> TransferTold] /\ told'[d] = told[d]
      /\ \A e \in 1..MaxDialogs : e # d => told'[e] = told[e]
  BY <1>1 DEF TransferInv, TransferTypes
<1>5. ToldRight(d)'
  BY <1>1, TransferRight DEF TransferNative
<1>6. CASE d = dialog.n /\ call[d].kind = "export" /\ call[d].result # "failed"
  <2>n. PICK names : names = {dialog.staged, dialog.preview}
    OBVIOUS
  <2>1. Transfer!GivenUp(names) /\ names \subseteq 0..made
    BY <1>1, <1>2, <1>6, <2>n
  <2>c. PICK c : c = Transfer!NoCall
    OBVIOUS
  <2>2. c \in TransferCall /\ TransferCallOf(d, c)' /\ c.kind = "none"
    <3>1. Transfer!NoCall \in TransferCall /\ TransferCallOf(d, Transfer!NoCall)'
      BY <1>4, TransferEnded
    <3>2. TransferCallOf(d, c)'
      BY <2>c, <3>1 DEF TransferCallOf, Transfer!NoCall
    <3> QED
      BY <2>c, <3>1, <3>2 DEF Transfer!NoCall
  <2>3. \A i \in 1..MaxHeld :
          /\ i \in {dialog.staged, dialog.preview} => i \in names
          /\ call[d].id = i => i \in names
    BY <1>3, <2>n
  <2>4. /\ told'[d] = "imported" => journal[d] = "committed"
        /\ told'[d] = "not imported" => journal[d] = "missing"
    BY <1>1, TransferToldStays
  <2> QED
    BY <1>4, <1>6, <2>1, <2>2, <2>3, <2>4, <2>c, TransferShuts
<1>7. CASE d = dialog.n /\ call[d].kind = "inspect" /\ call[d].result = "given"
  <2>1. /\ told[d] # "nothing" /\ dialog.preview \notin packages
        /\ told[d] \notin {"nothing", "open"} => dialog.expired /\ ~dialog.pending
        /\ journal[d] # "missing" => dialog.preview # 0 /\ ~Importable(dialog.preview)
        /\ dialog.staged = 0 \/ dialog.preview = 0
        /\ dialog.staged # 0 => ~previews[dialog.staged].held
    BY <1>7, TransferKnown
  <2>a. PICK available : available = Transfer!Available
    OBVIOUS
  <2>2. available \in SUBSET Refs
    BY <2>a DEF Transfer!Available
  <2>3. dialog' = [n |-> dialog.n, mode |-> dialog.mode, staged |-> dialog.staged,
                   preview |-> dialog.preview, selected |-> available,
                   pending |-> dialog.pending, expired |-> dialog.expired]
    <3>1. dialog' = [dialog EXCEPT !.selected = available]
      BY <1>1, <1>7, <2>a
    <3> QED
      BY <1>2, <3>1 DEF TransferDialog
  <2>4. dialog' \in TransferDialog
    BY <1>2, <2>2, <2>3 DEF TransferDialog
  <2>5. /\ dialog'.n = d /\ dialog'.staged = dialog.staged /\ dialog'.preview = dialog.preview
        /\ dialog'.expired = dialog.expired /\ dialog'.pending = dialog.pending
    BY <1>7, <2>3
  <2>6. journal[d] # "missing" => dialog'.preview # 0 /\ ~Importable(dialog.preview)'
    BY <2>1, <2>5 DEF Importable, TransferNative
  <2>7. \A i \in 1..MaxHeld : IsHeld(i) =>
          /\ i \in {dialog.staged, dialog.preview} => i \in {dialog'.staged, dialog'.preview}
          /\ call[d].id = i => i \in {dialog'.staged, dialog'.preview} \cup cancels
    BY <1>3, <2>5
  <2>8. UNCHANGED <<shownSecret, asked, reveals, cancels>>
    BY <1>1, <1>7
  <2> QED
    BY <1>2, <1>4, <1>5, <1>7, <2>1, <2>4, <2>5, <2>6, <2>7, <2>8, TransferArrives
<1>8. CASE /\ dialog' = dialog /\ UNCHANGED <<shownSecret, asked, reveals, cancels>>
  <2>1. cancels \subseteq cancels' /\ cancels' \in SUBSET (1..made)
    BY <1>2, <1>8
  <2>2. UNCHANGED <<dialog, shownSecret, asked, reveals>>
    BY <1>8
  <2> QED
    BY <1>3, <1>4, <1>5, <2>1, <2>2, TransferPasses
<1> QED
  BY <1>1, <1>6, <1>7, <1>8

\* The answer to a command arrives.
LEMMA TransferAnswered ==
  ASSUME TransferInv, NEW d \in 1..MaxDialogs, Transfer!Answered(d) PROVE TransferInv'
<1>1. /\ call[d].kind # "none" /\ call[d].at = "answered" /\ UNCHANGED TransferNative
      /\ call' = [call EXCEPT ![d] = Transfer!NoCall]
  BY DEF Transfer!Answered, Transfer!Busy, Transfer!Ends, Transfer!native, TransferNative
<1>2. call[d].kind \in {"select", "prepare"} =>
          Transfer!NothingGiven(d) \/ Transfer!Given(d) \/ Transfer!Failed(d)
  BY DEF Transfer!Answered
<1>3. call[d].kind \in {"commit", "status"} => Transfer!Outcome(d)
  BY DEF Transfer!Answered
<1>4. call[d].kind \in {"inspect", "export"} => Transfer!Written(d)
  BY DEF Transfer!Answered
<1>5. call[d].kind \in {"select", "prepare"} => TransferInv'
  BY <1>1, <1>2, TransferGetsNothing, TransferGets, TransferFails
<1>6. call[d].kind \in {"commit", "status"} => TransferInv'
  BY <1>1, <1>3, TransferTellsOutcome
<1>7. call[d].kind \in {"inspect", "export"} => TransferInv'
  BY <1>1, <1>4, TransferWrites
<1>8. call[d].kind \in {"none", "inspect", "select", "prepare", "commit", "status", "export"}
  BY TransferAt DEF TransferCall
<1> QED
  BY <1>1, <1>5, <1>6, <1>7, <1>8

\* No dialog is open at first, and nothing is held.
LEMMA TransferStarts == ASSUME ClientsInit PROVE TransferInv
<1>1. Transfer!Init /\ MaxHeld \in Nat /\ MaxChanges \in Nat /\ MaxDialogs \in Nat
  BY ClientsAssumption DEF ClientsInit
<1>2. /\ dialog = Transfer!Closed /\ shownSecret = None /\ asked = None /\ reveals = {}
      /\ call = [d \in 1..MaxDialogs |-> Transfer!NoCall]
      /\ cancels = {} /\ packages = {} /\ made = 0 /\ over = {} /\ files = 0 /\ changes = 0
      /\ previews = [id \in 1..MaxHeld |-> Transfer!NoPreview]
      /\ device \in [Refs -> {[value |-> v, revision |-> 0] : v \in {None, "own"}}]
      /\ journal = [d \in 1..MaxDialogs |-> "missing"]
      /\ told = [d \in 1..MaxDialogs |-> "nothing"]
  BY <1>1 DEF Transfer!Init, Transfer!Dialogs, Transfer!Held
<1>3. /\ dialog \in TransferDialog /\ dialog.n = 0 /\ dialog.staged = 0 /\ dialog.preview = 0
  BY <1>1, <1>2 DEF Transfer!Closed, Transfer!Nothing, TransferDialog
<1>4. /\ Transfer!NoCall \in TransferCall /\ Transfer!NoCall.kind = "none"
      /\ Transfer!NoCall.at = "asked"
  BY DEF Transfer!NoCall, Transfer!Nothing, TransferCall
<1>5. Transfer!NoPreview \in TransferPreview /\ ~Transfer!NoPreview.held
  BY DEF Transfer!NoPreview, TransferPreview, TransferValues
<1>6. device \in [Refs -> TransferSecret]
  <2>1. {[value |-> v, revision |-> 0] : v \in {None, "own"}} \subseteq TransferSecret
    BY DEF TransferSecret, TransferValues
  <2> QED
    BY <1>2, <2>1
<1>7. TransferTypes
  <2>1. /\ call \in [1..MaxDialogs -> TransferCall]
        /\ journal \in [1..MaxDialogs -> {"missing", "committed", "recovery"}]
        /\ told \in [1..MaxDialogs -> TransferTold]
    BY <1>2, <1>4 DEF TransferTold
  <2>2. previews \in [1..MaxHeld -> TransferPreview]
    BY <1>2, <1>5
  <2>3. /\ dialog.staged <= made /\ dialog.preview <= made
        /\ shownSecret \in Refs \cup {None} /\ asked \in Refs \cup {None}
        /\ reveals \in SUBSET TransferReveal
        /\ made \in 0..MaxHeld /\ changes \in 0..MaxChanges /\ files \in Nat
        /\ cancels \in SUBSET (1..made) /\ packages \in SUBSET (1..made)
        /\ over \in SUBSET (1..made)
    BY <1>1, <1>2, <1>3
  <2> QED
    BY <1>3, <1>6, <2>1, <2>2, <2>3 DEF TransferTypes
<1>8. ASSUME NEW d \in 1..MaxDialogs PROVE TransferCallOf(d, call[d]) /\ TransferOpen(d, call[d])
  <2>1. call[d] = Transfer!NoCall /\ told[d] = "nothing" /\ journal[d] = "missing"
    BY <1>2
  <2>2. TransferCallOf(d, call[d])
    BY <1>4, <2>1 DEF TransferCallOf
  <2>3. dialog.n # d
    BY <1>1, <1>3
  <2> QED
    BY <1>4, <2>1, <2>2, <2>3 DEF TransferOpen
<1>9. TransferDialogInv /\ Transfer!ShownIsAsked
  BY <1>2, <1>3 DEF TransferDialogInv, Transfer!ShownIsAsked
<1>10. \A id \in 1..MaxHeld : ~previews[id].held
  BY <1>2, <1>5
<1>11. TransferSeen /\ Transfer!HeldIsKnown
  BY <1>2, <1>10 DEF TransferSeen, Transfer!HeldIsKnown, Transfer!Held
<1>12. Transfer!ToldAsItIs
  BY <1>2 DEF Transfer!ToldAsItIs, Transfer!Dialogs
<1> QED
  BY <1>7, <1>8, <1>9, <1>11, <1>12 DEF TransferInv

\* A command moves on.
LEMMA TransferProgresses ==
  ASSUME TransferInv, NEW d \in 1..MaxDialogs,
         Transfer!Progress(d) \/ Transfer!Pick(d) \/ Transfer!NoAnswer(d, {"select"})
  PROVE  TransferInv'
<1>1. \/ Transfer!Flush(d) \/ Transfer!Prepare(d) \/ Transfer!Commit(d) \/ Transfer!Status(d)
      \/ Transfer!Read(d) \/ Transfer!Answered(d) \/ Transfer!Pick(d)
      \/ Transfer!NoAnswer(d, {"inspect", "prepare", "commit", "status", "export"})
      \/ Transfer!NoAnswer(d, {"select"})
  BY DEF Transfer!Progress
<1> QED
  BY <1>1, TransferFlushes, TransferPrepares, TransferCommits, TransferReads, TransferAnswered,
     TransferPicks

\* Every step leaves what is held known, what was told true, and what is shown asked
\* for.
LEMMA TransferStep == ASSUME TransferInv, Transfer!Next PROVE TransferInv'
<1>1. \/ Transfer!Open("import") \/ Transfer!Open("export")
      \/ Transfer!Choose \/ Transfer!Unlock \/ Transfer!Import \/ Transfer!Export
      \/ Transfer!CheckOutcome \/ Transfer!ChangeFiles \/ Transfer!Close \/ Transfer!Leave
      \/ Transfer!Expire
      \/ \E r \in Refs : Transfer!Toggle(r) \/ Transfer!Reveal(r) \/ Transfer!Save(r)
      \/ \E q \in reveals : Transfer!Revealed(q)
      \/ \E d \in 1..MaxDialogs :
            Transfer!Progress(d) \/ Transfer!Pick(d) \/ Transfer!NoAnswer(d, {"select"})
      \/ \E id \in 1..MaxHeld : Transfer!Cancelled(id) \/ Transfer!TimeOver(id)
  BY DEF Transfer!Next, Transfer!Dialogs, Transfer!Held
<1>2. CASE Transfer!Open("import") \/ Transfer!Open("export")
  BY <1>2, TransferOpens
<1>3. CASE Transfer!Choose \/ Transfer!Unlock \/ Transfer!Import \/ Transfer!Export
  BY <1>3, TransferAsks
<1>4. CASE Transfer!CheckOutcome
  BY <1>4, TransferChecks
<1>5. CASE Transfer!Close
  BY <1>5, TransferClose
<1>6. CASE Transfer!Leave
  BY <1>6, TransferLeaves
<1>7. CASE Transfer!ChangeFiles \/ Transfer!Expire
  BY <1>7, TransferShown
<1>8. ASSUME NEW r \in Refs, Transfer!Toggle(r) \/ Transfer!Reveal(r) \/ Transfer!Save(r)
      PROVE  TransferInv'
  BY <1>8, TransferShown, TransferSaves
<1>9. CASE \E q \in reveals : Transfer!Revealed(q)
  BY <1>9, TransferShown
<1>10. ASSUME NEW d \in 1..MaxDialogs,
              Transfer!Progress(d) \/ Transfer!Pick(d) \/ Transfer!NoAnswer(d, {"select"})
       PROVE  TransferInv'
  BY <1>10, TransferProgresses
<1>11. ASSUME NEW id \in 1..MaxHeld, Transfer!Cancelled(id) \/ Transfer!TimeOver(id)
       PROVE  TransferInv'
  BY <1>11, TransferGivesBack
<1> QED
  BY <1>1, <1>2, <1>3, <1>4, <1>5, <1>6, <1>7, <1>8, <1>9, <1>10, <1>11

\* What stays as it is stays as the invariant has it.
LEMMA TransferAside == ASSUME TransferInv, UNCHANGED transferVars PROVE TransferInv'
<1>1. /\ UNCHANGED <<dialog, shownSecret, asked, reveals, call, cancels, packages, previews>>
      /\ UNCHANGED <<made, over, device, files, changes, journal, told>>
  BY DEF transferVars
<1>2. TransferTypes' /\ TransferSeen'
  BY <1>1 DEF TransferInv, TransferTypes, TransferSeen
<1>3. ASSUME NEW d \in 1..MaxDialogs PROVE (TransferCallOf(d, call[d]) /\ TransferOpen(d, call[d]))'
  <2>1. TransferCallOf(d, call[d]) /\ TransferOpen(d, call[d])
    BY DEF TransferInv
  <2>2. TransferCallOf(d, call[d])'
    BY <1>1, <2>1 DEF TransferCallOf, Importable
  <2>3. TransferOpen(d, call[d])'
    BY <1>1, <2>1 DEF TransferOpen, Importable
  <2> QED
    BY <2>2, <2>3
<1>4. TransferDialogInv'
  BY <1>1 DEF TransferInv, TransferDialogInv, Transfer!Busy
<1>5. Transfer!HeldIsKnown' /\ Transfer!ToldAsItIs' /\ Transfer!ShownIsAsked'
  BY <1>1 DEF TransferInv, Transfer!HeldIsKnown, Transfer!ToldAsItIs, Transfer!ShownIsAsked,
              Transfer!Held, Transfer!Dialogs, Transfer!Busy
<1> QED
  BY <1>2, <1>3, <1>4, <1>5 DEF TransferInv

\* A step of the transfers, and of any other machine, keeps the invariant.
LEMMA TransferKeeps == Clients => []TransferInv
<1>1. ClientsInit => TransferInv
  BY TransferStarts
<1>2. TransferInv /\ [ClientsNext]_allVars => TransferInv'
  <2> SUFFICES ASSUME TransferInv, [ClientsNext]_allVars PROVE TransferInv'
    OBVIOUS
  <2>1. Transfer!Next \/ UNCHANGED Transfer!vars
    BY TransferMoves
  <2>2. CASE UNCHANGED Transfer!vars
    <3>1. UNCHANGED transferVars
      BY <2>2 DEF Transfer!vars, transferVars
    <3> QED
      BY <3>1, TransferAside
  <2> QED
    BY <2>1, <2>2, TransferStep
<1> QED
  BY <1>1, <1>2, PTL DEF Clients

\* What becomes of an import is written by its commit.
LEMMA TransferCommitted ==
  ASSUME TransferInv, Transfer!Next, NEW d \in 1..MaxDialogs, journal'[d] # journal[d]
  PROVE  Transfer!Commit(d)
<1> SUFFICES ASSUME ~Transfer!Commit(d) PROVE UNCHANGED journal \/ journal'[d] = journal[d]
  OBVIOUS
<1>1. CASE Transfer!Open("import") \/ Transfer!Open("export")
  BY <1>1 DEF Transfer!Open, Transfer!native
<1>2. CASE Transfer!Choose \/ Transfer!Unlock \/ Transfer!Import \/ Transfer!Export
  BY <1>2 DEF Transfer!Choose, Transfer!Unlock, Transfer!Import, Transfer!Export,
              Transfer!Submitted, Transfer!native
<1>3. CASE Transfer!CheckOutcome \/ Transfer!ChangeFiles \/ Transfer!Expire
  BY <1>3 DEF Transfer!CheckOutcome, Transfer!ChangeFiles, Transfer!Expire, Transfer!native
<1>4. CASE Transfer!Close \/ Transfer!Leave
  BY <1>4 DEF Transfer!Close, Transfer!Leave, Transfer!native
<1>5. ASSUME NEW r \in Refs, Transfer!Toggle(r) \/ Transfer!Reveal(r) \/ Transfer!Save(r)
      PROVE  UNCHANGED journal
  BY <1>5 DEF Transfer!Toggle, Transfer!Reveal, Transfer!Save, Transfer!native
<1>6. ASSUME NEW q \in reveals, Transfer!Revealed(q) PROVE UNCHANGED journal
  BY <1>6 DEF Transfer!Revealed, Transfer!native
<1>7. ASSUME NEW id \in 1..MaxHeld, Transfer!Cancelled(id) \/ Transfer!TimeOver(id)
      PROVE  UNCHANGED journal
  BY <1>7 DEF Transfer!Cancelled, Transfer!TimeOver
<1>8. ASSUME NEW e \in 1..MaxDialogs,
             \/ Transfer!Flush(e) \/ Transfer!Prepare(e) \/ Transfer!Status(e)
             \/ Transfer!Read(e) \/ Transfer!Answered(e) \/ Transfer!Pick(e)
             \/ Transfer!NoAnswer(e, {"inspect", "prepare", "commit", "status", "export"})
             \/ Transfer!NoAnswer(e, {"select"})
      PROVE  UNCHANGED journal
  BY <1>8 DEF Transfer!Flush, Transfer!Prepare, Transfer!Status, Transfer!Read,
              Transfer!Answered, Transfer!Pick, Transfer!NoAnswer, Transfer!native
<1>9. ASSUME NEW e \in 1..MaxDialogs, Transfer!Commit(e) PROVE journal'[d] = journal[d]
  <2>1. e # d
    BY <1>9
  <2>2. PICK word : journal' = [journal EXCEPT ![e] = word]
    BY <1>9 DEF Transfer!Commit
  <2> QED
    BY <2>1, <2>2 DEF TransferInv, TransferTypes
<1>10. ASSUME NEW e \in 1..MaxDialogs, Transfer!Progress(e)
       PROVE  UNCHANGED journal \/ journal'[d] = journal[d]
  <2>1. \/ Transfer!Flush(e) \/ Transfer!Prepare(e) \/ Transfer!Status(e)
        \/ Transfer!Read(e) \/ Transfer!Answered(e) \/ Transfer!Commit(e)
        \/ Transfer!NoAnswer(e, {"inspect", "prepare", "commit", "status", "export"})
    BY <1>10 DEF Transfer!Progress
  <2> QED
    BY <2>1, <1>8, <1>9
<1> QED
  BY <1>1, <1>2, <1>3, <1>4, <1>5, <1>6, <1>7, <1>8, <1>10
     DEF Transfer!Next, Transfer!Dialogs, Transfer!Held

\* What it replaces is as the preview has it.
LEMMA TransferReplacesSeen ==
  ASSUME TransferInv, NEW d \in 1..MaxDialogs, Transfer!Commit(d),
         NEW r \in Refs, device'[r] # device[r]
  PROVE  /\ r \in call[d].refs
         /\ previews[call[d].id].seen[r] = device[r].value
<1>i. PICK id : id = call[d].id
  OBVIOUS
<1>p. PICK imported : imported =
        [x \in Refs |-> IF x \in call[d].refs
                        THEN [value |-> "incoming", revision |-> device[x].revision + 1]
                        ELSE device[x]]
  OBVIOUS
<1>1. /\ call[d].kind = "commit" /\ call[d].at = "asked"
      /\ previews[id].held /\ Transfer!AsPrepared(previews[id], call[d].refs)
      /\ device' \in {device, imported}
  BY <1>i, <1>p DEF Transfer!Commit
<1>2. TransferCallOf(d, call[d]) /\ made <= MaxHeld /\ made \in Nat /\ MaxHeld \in Nat
  BY TransferAt
<1>3. id \in 1..MaxHeld
  <2>1. id \in 1..made
    BY <1>1, <1>2, <1>i DEF TransferCallOf
  <2> QED
    BY <1>2, <2>1
<1>4. r \in call[d].refs
  BY <1>1, <1>p
<1>5. previews[id].read[r] = device[r].revision
  BY <1>1, <1>4 DEF Transfer!AsPrepared
<1>6. TransferSeen
  BY DEF TransferInv
<1>7. previews[id].seen[r] = device[r].value
  BY <1>1, <1>3, <1>5, <1>6 DEF TransferSeen
<1> QED
  BY <1>4, <1>7, <1>i

\* An import replaces what the user saw it would replace, what the native side holds
\* is known to somebody, and nothing is told of an import that is not so (dialog,
\* commands and native side of secret-transfer.tsx and transfer/mod.rs).
THEOREM ImportsReplaceWhatWasSeen == Clients => ImportsAreAsSeen
<1>1. TransferInv /\ [ClientsNext]_allVars =>
          [part = "transfer" => Transfer!ReplacesWhatWasSeen]_transferVars
  <2> SUFFICES ASSUME TransferInv, [ClientsNext]_allVars, ~UNCHANGED transferVars
               PROVE  Transfer!ReplacesWhatWasSeen
    OBVIOUS
  <2>1. Transfer!Next
    BY TransferMoves DEF Transfer!vars, transferVars
  <2>2. ASSUME NEW d \in 1..MaxDialogs, journal'[d] # journal[d], NEW r \in Refs,
               device'[r] # device[r]
        PROVE  /\ r \in call[d].refs
               /\ previews[call[d].id].seen[r] = device[r].value
    BY <2>1, <2>2, TransferCommitted, TransferReplacesSeen
  <2> QED
    BY <2>2 DEF Transfer!ReplacesWhatWasSeen, Transfer!Dialogs
<1>2. TransferInv =>
          (part = "transfer" => Transfer!HeldIsKnown /\ Transfer!ToldAsItIs /\ Transfer!ShownIsAsked)
  BY DEF TransferInv
<1> QED
  BY <1>1, <1>2, TransferKeeps, PTL DEF Clients, ImportsAreAsSeen

\* The state of the transfers stays of its types.
LEMMA TransferTyped == TransferInv => Transfer!TypeOK
<1> SUFFICES ASSUME TransferInv PROVE Transfer!TypeOK
  OBVIOUS
<1>1. /\ dialog \in TransferDialog /\ dialog.staged <= made /\ dialog.preview <= made
      /\ made \in 0..MaxHeld
      /\ MaxHeld \in Nat
  BY ClientsAssumption DEF TransferInv, TransferTypes, TransferDialogInv
<1>2. /\ dialog.n \in 0..MaxDialogs /\ dialog.mode \in {"import", "export"}
      /\ dialog.staged \in 0..made /\ dialog.preview \in 0..made /\ dialog.selected \subseteq Refs
  BY <1>1 DEF TransferDialog
<1>3. \A d \in 1..MaxDialogs : call[d].at \in {"flushing", "asked", "answered"}
  BY TransferAt DEF TransferCall
<1>4. \A r \in Refs : device[r].value \in {None, "own", "incoming"}
  BY DEF TransferInv, TransferTypes, TransferSecret, TransferValues
<1>5. /\ shownSecret \in Refs \cup {None} /\ asked \in Refs \cup {None}
      /\ cancels \cup packages \cup over \subseteq 1..made /\ changes \in 0..MaxChanges
      /\ \A d \in 1..MaxDialogs : told[d] \in TransferTold
  BY DEF TransferInv, TransferTypes
<1>6. dialog.staged = 0 \/ dialog.preview = 0
  BY DEF TransferInv, TransferDialogInv
<1> QED
  BY <1>1, <1>2, <1>3, <1>4, <1>5, <1>6
     DEF Transfer!TypeOK, Transfer!Nothing, Transfer!Dialogs, TransferTold

-----------------------------------------------------------------------------
(* The types of all of them.                                               *)

\* The session keeps its invariant while it runs and while another machine does.
LEMMA SessionKeeps == Clients => []IInv
<1>1. ClientsInit => IInv
  BY Started DEF ClientsInit
<1>2. [ClientsNext]_allVars => [Next]_vars
  BY DEF ClientsNext, OfSession, OfExecution, OfChain, OfSecret, OfVariables, OfExit,
         OfSchema, OfGrant, OfTransfer, Only, allVars
<1>3. IInv /\ [Next]_vars => IInv'
  BY TypeStep, SafeStep, SavedStep DEF IInv
<1> QED
  BY <1>1, <1>2, <1>3, PTL DEF Clients

\* The machine that runs stays of its types (the components of MCClients).
THEOREM ClientsAreTyped == Clients => []ClientsTypeOK
<1>1. /\ IInv /\ ExecInv /\ ChainInv /\ SecretInv /\ VarInv /\ ExitInv /\ SchemaInv
      /\ GrantInv /\ TransferInv
      => ClientsTypeOK
  BY ExecTyped, ChainTyped, VarTyped, SchemaTypes, GrantTyped, TransferTyped
     DEF IInv, SecretInv, ExitInv, ClientsTypeOK
<1> QED
  BY <1>1, SessionKeeps, ExecKeeps, ChainKeeps, SecretKeeps, VarKeeps, ExitKeeps, SchemaKeeps,
     GrantKeeps, TransferKeeps, PTL
=============================================================================
