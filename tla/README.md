# Purr in TLA+

Purr is a local-first HTTP and GraphQL client: a React front end (`src/src`) over a
Tauri back end in Rust (`src/src-tauri/src`).  Paths are shortened to
their last parts; documents are under `docs/`.  This directory holds models of the parts of Purr whose
correctness depends on order: several actors, failures between two steps, ends of
the process, windows and workbenches that come and go, and other programs that edit
the same files.  TLC checks every model on small instances; TLAPS proves the main
safety properties of fifteen of them for every value of their constants.

## The system

| component | state it keeps | operations | talks to |
|---|---|---|---|
| commit coordinator (`persistence/commit_coordinator.rs`, `secret_commits.rs`, `project_files.rs`, `local_records.rs`) | project files; SQLite rows for local records, secrets with revisions, receipts, journals | commit, roll back, recover, replay, status | other programs (project directory), front end (retries) |
| storage runtime (`persistence/runtime.rs`) | one mutex over the open stores, keys available or not | open, load, save, retry protected storage, attach, delete | everything native |
| workspace cleanup (`persistence/workspace_cleanup.rs`) | cleanup intents, the managed directory and its quarantine | delete, compare, quarantine, remove, retry | runtime, other programs |
| response capture (`http/operations.rs`, `http/transport.rs`, `commands/http.rs`) | registry of operations and tombstones, one task per request | start, cancel, read, batch, finish, release | content store, front end |
| response content store (`content/*.rs`, `persistence/response_bodies.rs`) | two worker threads with bounded channels, rows and chunks | stage, append, finish, release, expire, adopt, read, derive | capture, history, viewers |
| uploads and attachments (`http/request_body.rs`, `http/upload_stream.rs`, `persistence/attachments.rs`) | staged encrypted files, handles, leases | create, append, finish, read, release, expire | front end, transport |
| workspace session (`application/workspace-persistence.ts`, `features/workspaces/hooks/use-workspaces.ts`) | promise queue, baselines, editor store, autosave timer | edit, save, reload, retry, delete | commit coordinator, file watcher |
| projection (`application/project-projection.ts`, `domain/project.ts`) | paths, folder markers, stored working copies | read a directory, write it, merge it | session |
| secret cache and saves (`storage/secrets.ts`) | cached reads with revisions, staged batches | read, stage, commit | secret commits |
| browser preview (`storage/browser-backend.ts`, `storage/browser-history.ts`) | the same stores over IndexedDB, shared by tabs | commit, seal, delete, list, pin, prune | session, history panel |
| execution (`request-workbench.tsx`, `execute-request.ts`, `http-client.ts`) | sends, aborts, results, redirect budget, cookies | send, cancel, redirect, record | capture, OAuth, history |
| OAuth (`oauth.rs`, `oauth-client.ts`, `use-auth-runtime.ts`) | loopback listener, one pending job, tokens | authorize, refresh, cancel | HTTP, store |
| dynamic variables and scopes (`dynamic-variable-resolver.ts`, `variables-explorer.tsx`, `rename-variable.ts`) | caches of a run, session and workspace; definitions by scope | resolve, cache, define, rename | execution, session |
| request composition (`execute-request.ts`, `dynamic-request-code.ts`, `request-code-dialog.tsx`) | the code on display with its preparation; staged files | prepare, reveal, hide, stage, release | secrets, dynamic variables, cookies |
| cookies (`cookie-jar.ts`, `cookie-jar-editor.tsx`) | a jar to each workspace, its copies in store and records | send, receive, edit, switch, expire, save | execution, session |
| secret inventory and transfer (`required-local-secrets.tsx`, `secret-transfer.tsx`, `transfer/mod.rs`) | statuses of a device's secrets; packages and previews with a time to live | inspect, set, remove, export, import | secret commits |
| workspace editor (`workspace.ts`, `workspace-workbench.tsx`, `workspace-sidebar.tsx`, `document-tabs.tsx`) | documents, tabs, previews, profiles, connections, history entries | open, edit, move, save, delete, drag | everything on screen |
| request editor (`request.ts`, `request-body.ts`, `key-value-editor.tsx`, ...) | header, query, path and form rows, bodies | edit, switch type, reveal, drop a file | workspace editor |
| response viewers (`response-viewer.tsx`, `large-response-viewer.tsx`) | tabs, pages, searches, filters | page, search, format, filter | content store |
| GraphQL schema (`schema-explorer.tsx`) | a connection and the load for it | load, cancel, install | execution |
| exit (`update-controller.ts`, `application-close.ts`) | phase of an update, flush under way | check, download, restart, close | session |
| keys and ciphers (`security/*.rs`), extensions, observability, importers, rendering | root key; frozen registry; trace cache; none | not modelled, see the end | |

What is hard about it:

* A save spans a directory other programs write to and a database, without a common
  transaction; the process may end between any two steps.  Correct means: all of a
  save or nothing of it, no lost outside edit, no acknowledged save undone, no secret
  overwritten by a stale client.
* Keys can be absent at start and come later; public work goes on meanwhile and must
  not destroy what it cannot read.
* A response is captured by a task and written by another thread, while a
  cancellation, an expiry and a closed window compete for it.  Correct means: what is
  readable is whole, what failed is gone, what was cancelled first never reaches the
  network, and everybody who waits is answered.
* The editor goes on while saves, reloads, deletions, executions, token requests and
  schema loads wait, and each of them began with a copy of the state.  Correct means:
  nothing of either side is silently dropped, and nothing old replaces something new.
* Deleting a directory takes several steps that failures and other programs interrupt.
* The editor keeps redundant views of one thing (an address and its rows, a body and
  its JSON and XML, a credential in four places, a name in many templates), each of
  which is rewritten after an edit of another.

`PROJECT.json` lists the hazards of this kind at their lines, with the properties that
cover it or the reason none does.

## Plan

*Done.*  The commit path with its abstract ledger, the response capture, uploads and
cleanup on the native side; the editing session, executions, OAuth, redirects, secret
cache and transfer, variables, schema loads and exit in the front end; the workspace,
request and response editors; the storage of the browser preview and the project
directory.  Theorems about the commit path (with the refinement of its ledger), the
session, uploads, response capture, cleanup, the workspace editor, and about every other
machine of the front end that waits for something: executions, OAuth, redirects, secret
cache, variables, schema loads, transfer of secrets and exit; and the refinement of the
ledger by the storage of the browser preview.

*Left.*  `WorkIsKept` of the workspace editor is the property most worth a theorem next;
the credentials and files of `MCSuite` and the other machines of `MCScreens` after it.
Not modelled yet: the migration of the root key
(`security/manager.rs`), attachments with their reference counts, the native history
tables, version-1 journals.

## Modules

| module | models |
|---|---|
| `CommitLedger` | abstract: files, record, secrets and receipt of an operation change in one step, at most once per identifier |
| `CommitCoordinator` | the commit path step by step: open, recover, admit, compare, back up, stage, apply, verify, publish, roll back; failures, process ends, outside edits, locked storage; at its end its properties and the refinement mapping to `CommitLedger` |
| `CommitProofs` | the two inductive invariants and the theorems of the commit path |
| `WorkspaceCleanup`, `CleanupProofs` | deletion of a managed directory; its theorems |
| `RequestUploads` | a staged request body and its execution |
| `ResponseCapture`, `ResponseProofs` | registry, capture task, workers, rows, webview; its theorems |
| `WorkspaceSession`, `SessionProofs` | store, autosave, promise queue, reload and retry, deletion; its theorems |
| `SecretCache` | cached reads that race commits, saves prepared on them |
| `RequestExecution` | sends of one document, its workbenches, token jobs and history |
| `OAuthGrant` | authorizations with listener, pages, cancels and codes |
| `RedirectChain` | one execution over redirects, cookies and releases |
| `SecretTransfer` | the dialog of secret packages and what the native side holds for it |
| `VariableResolution`, `VariableScopes` | values of dynamic variables; definitions and renames |
| `ApplicationExit` | restart into an update, close of the window, the saves before both |
| `SchemaLoading` | loads of a GraphQL schema while its connection changes |
| `WorkspaceEditor`, `EditorProofs` | documents, tabs, previews, profiles, connections, history entries; its theorems |
| `DocumentNavigation` | tree and tabs under drag, drop and selection |
| `KeyValueRows`, `HeaderRows`, `QueryRows`, `FormFields` | tables of a request and what hides or rewrites their rows |
| `BodyConversion` | JSON and XML drafts and the conversion between them |
| `CredentialFields`, `SecretInventory` | the copies of a credential; the secrets a request needs and the panel for them |
| `RequestCode` | what the wire, the display and the script of a request are composed of; the dialog that shows them; staged files |
| `CookieJar` | the jars of the session, the panel, the copies in store and records |
| `ProjectFiles` | directory, tree, stored working copies |
| `BrowserStore`, `ExecutionHistory` | commits of the browser preview, its history and the panel that lists it |
| `ResponseViewer`, `ResponseQuery`, `ContentViewer` | tabs and search, selectors over a body at hand, pages of a stored body |
| `MCCommitCoordinator`, `MCWorkspaceSession` | instances of one module |
| `MCParts`, `MCClients`, `MCScreens`, `MCSuite` | instances of several modules, one of which runs |
| `PartsProofs` | the theorems of `RequestUploads` and of every machine of `MCParts` |
| `ClientProofs` | the theorems of every machine of `MCClients` |
| `SuiteProofs` | the theorems of `BrowserStore` and of the responses of `MCSuite` |

`CommitCoordinator`, `BrowserStore` and the ledger are composed: both stores implement
`CommitLedger`, each by the refinement mapping at its end.  `HeaderRows`, `QueryRows` and `FormFields` share the row editor
`KeyValueRows`.  `WorkspaceSession`, `CredentialFields` and `ProjectFiles` take the
native commit as one step, which the refinement justifies.

### How state and actions correspond to the code

Each module says at its head which code it is about and what it leaves out, each
variable and action says what it stands for, and the map in `PROJECT.json` gives the
lines of every definition.  In short:

**Commit path.**  `disk` is the project directory (a file is its content; the code
compares SHA-256 revisions, which stand for contents), `records`, `secrets`, `ops`
and `pending` are the tables `local_state`, `secret_values`/`secret_revisions`,
`secret_operations` and `pending_commits`.  Native commands hold one mutex for their
whole duration (`access_typed`), hence one program counter `pc` with the locals of
the command in hand; everything that can happen while the mutex is held belongs to
other programs or the environment: `ExternalEdit`, `Fault`, `Crash`.  Each read,
rename and transaction is one action, so an outside edit can land between a
comparison and a rename (`ApplyCheck`/`ApplyWrite`).  `Crash` drops everything but
the durable variables and restarts with or without keys.  A record or a journal is
`sealed` when it is encrypted; sealed rows are invisible or untouchable without keys.
Request contents are an opaque parameter `Requests` with the shape the commands can
send.  `edited` and `late` are history variables for the properties.  A load whose
recovery fails, or whose storage does not open, is answered all the same, with the files
as they are and every workspace read-only (`degraded_snapshot`): `view` says whether the
last load passed its files off as recovered or as degraded (`RecoveryFailed`,
`DegradedLoad`).  The code reads the catalogue after the step that failed and under the
same mutex, so the model takes both as one step; that the error of a failed open is kept
for later answers (`AppState`) is left out, as is `reload_project_file`, which reads one
file and recovers nothing.
The disjunct of `Admit` that refuses a scope with a visible journal translates the
guard of `commit_with_hook`, which cannot fire after `recover` has succeeded
(`RecoveryPrecedesCommit` is about this).

**Response capture.**  A request is one network hop.  `entry`/`signal` is the
registry with its watch channels, `pc` the capture task, `queue` the bounded channels
of the public and the keyed worker, `row` the content tables.  A body is a sequence of
write batches; `enqueued`, `awaited` and `wrote` give the two batches in flight.
`tokio::select!` is unbiased, so a cancellation may win or lose every race.

**Workspace session.**  `store` is the React store, `queue` the promise queue of
`WorkspacePersistence` with each job's own copy of the store and of the scanned
files, `snapshot` and `project` its two baselines, `cache` the adapter's.  Another
program may leave a file that is no definition (`Garbled`, which stands for a legacy
draft in conflict as well): a reload that meets it throws, leaves store and baselines as
they are and makes the workspace `readonly`; then saves pass over it, edits are dropped,
and the next reload that finds everything readable ends that.

**Workspace cleanup.**  `source` and `quarantine` are the two directories, `intent`
the recorded cleanup with the files hashed before the deletion, `pc` the native
command.  `moved` is a history variable.

**Request uploads.**  One execution and its staged file are followed from `stage` to
the release; other executions meet it in the registry only and are a number
(`others`).  `entry` is the handle with its counters, `file` what the encrypted file
on disk holds chunk by chunk (half-written and altered ones included), `reader` one
body reader per hop with its thread, its pipe and what the network got.  The locks of
`RequestFileState` make each command a step; readers run on threads of their own, and
the shared `Arc` that keeps a file for them is `Leased`.

**Executions and tokens.**  In `RequestExecution` every await of `send` is a state of
the run; the refs of a mounted workbench are kept apart from the session, since a run
that outlives its workbench goes on with the former.  `OAuthGrant` keeps the browser's
pages, the native listener and the cancel commands apart, which arrive in any order.
`RedirectChain` lets the network answer each hop with any status, location and
cookie, and counts the content handles that must be released.

**Secrets.**  `SecretCache` separates what the native side answers from what the
cache does with the answer.  `CredentialFields` keeps the working copy, the saved one,
the definition, the draft and the vault of one field.  `SecretInventory` reads what
the panel shows against what a request would resolve.  In `SecretTransfer` a dialog
that is left goes on with its command.

**Composition and cookies.**  In `RequestCode` a text is the set of the places and
variables its characters come from, so that "is a secret in it?" can be asked of the
wire, the display and the script alike.  `Visit` is the recursion over the requests
whose outputs are read, with the steps made so far.  The secret store is external: it
answers or it does not.  A click and the preparation it begins are one step, since
React runs the effects of a click before the next one can be made; the answer is a step
of its own, and late ones are kept.  A resolved script that is hidden again would show
its address unmasked, but it is gone before it could be shown.  `CookieJar` keeps the
jar, the store's copy and the rows apart; the clock is external (`Expire`), and a jar
outlives the display of its workspace with the executions that hold it.  What the jar
tells the store goes through `updateWorkspace`, which drops it for a workspace that
cannot be written (`Takes`), and a reload or the retry of a save puts the list it began
with under the jar (`Reload`, `Reloaded`).

**Variables.**  The recursion of `resolveDynamicVariables` is a stack of frames in
`VariableResolution`; a run works on the cache it was begun with and is merged at its
end.  A variable that is switched or deleted in its row is pruned from the cache in the
same step (`Replace`); a draft that is saved is pruned at the click, and what comes back
from the awaited save meets what runs have merged meanwhile (`SaveDraft`, `Saved`), the
fields of the workspace that changed since winning as a whole.  The retry of a save that
failed is not followed here.  `VariableScopes` interleaves edits with the save of a renamed definition.

**Editors and viewers.**  A handler is one step, and the functions of the code from a
workspace (or a request, a view) to the next are operators with the same names.
`HeaderRows` hides rows by their trimmed name and puts them back by the name as it is
written, as `getRequestHeaders` and `updateRequestHeaders` do; `BodyConversion` writes
the keys `@_...` and `#text` of a JSON body raw, as `encodeJsonValue` does, and refuses
text between elements.  What React derives after a handler is part of the step.  What a handler awaits is a
state of its own: a stored secret in `HeaderRows`, a record in `WorkspaceEditor`, pages
and matches in `ContentViewer`.

**Browser preview and directory.**  `BrowserStore` reads piece by piece and publishes
in one transaction that compares again; two tabs share it.  `ExecutionHistory` numbers
executions by their start and has one tab's queue of calls beside another tab's
writes.  `ProjectFiles` reads, writes and merges a directory in single steps.

## Runs

| run | question | instance | result |
|---|---|---|---|
| `commit_safety` | are journal, files, records, secrets and receipts consistent, and is the ledger implemented? | 1 workspace, 2 files, 1 secret in use, 2 operation identifiers, 2 calls, 1 outside edit, 1 crash, 1 failure | holds |
| `commit_recovery` | does the recovery loop shared by two workspaces and the global scope keep commits off unresolved journals, and is every journal that can be resolved resolved? | 2 workspaces and the global scope, 2 calls, 1 outside edit, 1 crash, 1 failure | holds |
| `commit_startup` | does startup roll back every unpublished commit? | one global save, one crash | **violated** |
| `parts` | are uploads exact, stored responses whole, only recorded files removed, and does everything end? | upload: up to 2 chunks, 2 hops, 1 failing write, 1 alteration, 1 crash; cleanup: 2 files, 3 outside changes, 2 failures, 1 crash, 1 reuse; capture: 1 encrypted response, up to 3 batches, channel of 1 job, 2 failures, 2 crashes | holds |
| `clients` | do the front end's machines lose nothing of what goes on while they wait, and do they end? | see below | holds |
| `screens` | do the editors keep what the user made, and do the viewers show what is there? | see below | holds |
| `suite` | do two responses respect each other, do two tabs keep the ledger, are credentials and files kept? | 2 responses, 1 registry entry, channels of 1 job; 2 tabs, 3 calls; 4 credential events; 2 requests in a directory, 2 edits, 1 outside operation, 2 starts | holds |
| `session_reload` | does an edit survive a reload it overlaps? | 1 file | **violated** |
| `session_overwrite` | is a stale overwrite rejected after a conflict? | 2 files | **violated** |
| `session_delete` | is nothing unsaved left unnoticed when a deletion is refused? | 1 file | **violated** |
| `editor_reload` | can every workspace the editor makes be opened again? | 5 steps of the user | **violated** |
| `files_drafts` | do stored edits stay stored? | 2 edits, 1 outside operation, 2 starts | **violated** |

The runs of several machines (`parts`, `clients`, `screens`, `suite`) choose one of
them in the initial state (`part`); that machine takes steps and the others stand
still, each in one initial state.  The machines do not interact in these runs: the
suites ask every module its own questions, and their properties are conjunctions of
the modules' properties under the modules' own names, guarded by `part`.
`MCClients` passes its machines' parameters on as constants of its own, which
`Clients.cfg` gives values and `ClientProofs` leaves open; so do `MCParts` with
`PartsProofs`, and `MCSuite` with `SuiteProofs` for its responses and its browser.

`clients`: the session with 2 files, 2 edits, 1 retry, 1 deletion that may be refused and
1 outside edit, or 2 where the first left a file unreadable (`Damaged` says which of these
go together); 2 executions over 2 workbenches and 2 token jobs (three of these
together) with 1 edit; a chain over 4 origins (same site, plain HTTP, foreign) with up
to 2 redirects and 1 failing release; 2 clients of one secret up to revision 3;
2 overlapping runs over a chain, a cycle and a missing request, and the save of a draft
in two of these three (`Drafted`); an exit with 2 handles,
2 edits, 2 failures; 2 loads of a schema with 2 edits; 2 authorizations with 1 edit;
one transfer dialog with 2 held packages and 1 outside change.

`screens`: the workspace editor under every way to 4 steps with 2 requests,
1 connection, 1 profile, 1 history entry, from a first start or a saved project;
headers and query under 2 edits, from a new request, one with manual headers of both
managed names and one with a blank behind such a name, form rows under 3; bodies three
levels deep, with reserved keys and without, and 4 events; history of 3 executions with 2 calls; viewers with 4 to 6 events; variables
in every scope with 2 edits; every place a secret can be and every way a request
comes to it; trees of depth 2 with 2 drags; the jars of
2 workspaces with 2 cookies under every way to 5 events, beside which a reload may begin,
of the first workspace or of both, while no cookie is edited and before any date passes
(`ReloadsOfInterest`);
a request that reads secrets,
variables and outputs in each place, alone, with two variables, and with sources that
read each other or themselves, under 3 events and with up to 2 files to stage.

Why these bounds.  The commit path's interesting cases need one file already replaced
and one not (two files), a retry of an identifier and an interleaved second commit
(two calls, two identifiers), and one each of edit, crash and failure at every point;
a second crash repeats the first because nothing but durable state survives.  For a
response three batches are the first number at which one is awaited, one in flight
and one being read; the channel of one job makes every send block, and the release of a
failed response wait behind its writes.  Two files are the first number at which a
save of one can be mistaken for the other's.  The registry of one entry makes it
crowded by the second request.  An upload of two chunks is the first with a chunk that
is not the last one, and the second hop reads it while the reader of the first may
still run.  Whatever overlaps (executions, runs, loads, authorizations, clients, tabs)
needs two of its kind, and an edit between them.  In the
workspace editor a reference appears, is copied and loses its target within three
steps; four leave one to spare, and the counterexample of `editor_reload` takes five.

### Fairness

Fairness is assumed of the code's own scheduling and of nothing the user or another
program does.

`CommitCoordinator`: a command that holds the mutex runs on (`WF(Step)`); the
application is opened (`WF(Open)`), and goes on reading its storage now and then
(`SF(BeginLoad)`: the front end loads at start and after every watcher event; strong
because other commands take turns with it).  Nothing is assumed of commits, outside
edits, crashes or failures, which the bounds make finite.
`ResponseCapture`: a task that can proceed again and again does (Tokio polls every
ready task and channel senders wait in a fair line: `SF(Task)`), a worker thread
takes its jobs (`WF(Work)`), the network ends or times out, and the webview takes
what an invoke answered.  `WorkspaceSession`: the autosave timer fires, the watcher
delivers, a running job ends.  `WorkspaceCleanup`: the native steps go on, and the
application is opened again now and then, since retries happen only there.
`RequestUploads`: commands are answered, a request is answered, fails or times out,
reader threads run, and start-up opens the store; expiry is not assumed.
`RequestExecution`, `OAuthGrant`, `RedirectChain`, `VariableResolution`,
`SchemaLoading`, `SecretTransfer`: what is awaited is settled (exchanges have a
timeout, an authorization an expiry, commands an answer).  `ApplicationExit`: the
flush and the timers of the close go on.

In `parts` and `clients` the conditions of the machines are joined into one
(`Fairly`), since only one of them runs: while something awaited can happen, something
awaited eventually does.  The strong conditions of a capture
task and of the webview that receives its answer are stated beside it, and so is the
condition of the close, which must not be taken for progress of an update.

### Where the code and its documents disagree

* A crash during a global save leaves a journal that startup cannot roll back: every
  later save is refused, and every later load is answered degraded, that is, read-only
  and flagged `project-recovery-required` (`commit_startup`;
  `docs/persistence-architecture.md:160`).
* An edit typed during a reload is replaced (`session_reload`; `docs/workspaces.md:160`,
  `docs/persistence-architecture.md:262`).
* After a conflicting reload the adapter's cache lets a later save overwrite the
  outside edit (`session_overwrite`; `docs/workspaces.md:161`).
* A refused deletion loses the save that waited behind it, without an error
  (`session_delete`; `docs/persistence-architecture.md:265`).
* A request that gets its authentication back from a deleted connection may inherit
  from a deleted profile, and the workspace does not open again (`editor_reload`;
  `docs/auth.md:18`).
* Stored edits of a request whose file is gone at a start are dropped and their row
  is deleted (`files_drafts`; `docs/persistence-architecture.md:266`).

Weaker promises than a first reading of the documents suggests are visible in
the models, and the properties say exactly what holds instead: while protected
storage is locked a workspace can be loaded over a half-applied protected commit, and a
load with the keys at hand whose recovery failed shows such files too, but as degraded
(`RecoveryPrecedesCommit`: with the keys at hand no load passes them off as recovered);
edits from before a reload of an unreadable file stay unsaved under no more than the
banner of a read-only workspace (`QuietMeansSaved`); a run that ends while a variable's
draft is being saved leaves a value of the old definition in the cache, against
`docs/environments-and-variables.md:176`, which is not served, since a hit compares the
definition, and goes with the next change of the cache (`RunsShareValues`); an outside
save
between the comparison of a file and its rename is overwritten
(`OnlyComparedFilesReplaced`); a directory made anew at the old path before the
quarantine exists is compared and taken like the recorded one (`QuarantinedOnce`,
`RemovesOnlyRecorded`).

## Proofs

The theorems hold for every value of the constants that satisfies the assumption the
component's module declares, and TLC evaluates each assumption in a run:
`RequestsAssumption` and `ConstantsAssumption` (the shape of requests, values that
stand for "nothing" are no data), `SessionAssumption`, `UploadAssumption` (bounds are natural numbers, encrypted requests are requests, the
marker for "nothing" is no workspace), `EditorAssumption` (identifiers are of one kind
each, there is one for a first request, and the marker for "nothing" is none), and
`ClientsAssumption` (bounds are natural numbers, a chain of redirects starts at an
address, the marker for a malformed address is none, requests and environments are
finitely many, the variables of a workspace name variables and environments, and the
marker for "nothing" is no secret), `PartsAssumption` and `SuiteAssumption` (bounds are
natural numbers, a channel holds a job; in `MCParts` the markers for no directory and no
intent are neither), and `BrowserAssumption` (the shape of requests; a batch of secrets writes
no files and keeps the record; secrets and deletion identifiers belong to a scope; the
global scope is no workspace, the marker for "nothing" is no tab and no receipt; there
are finitely many tabs and paths).  The theorems of `ResponseProofs` have
`CaptureAssumption` as their hypothesis, which the two instances of `ResponseCapture`
meet by `PartsAssumption` and `SuiteAssumption`.  `CleanupInvariance` and
`OthersAreKept` need none.  The bounds are arbitrary, so the theorems cover any number
of files, clients, edits, failures and crashes.

**Commit path** (`CommitProofs`): `TypeCorrect`, `JournalOwnership`,
`AcknowledgedDurable`, `RevisionsOnlyAdvance`, `LockedDataIsKept`.  None of the three
invariants is inductive alone.  `IInv` adds `ControlOK` and `KeysOK`: from staging to
publication, and during the commit's own rollback, the scope's journal is the command's
own (`StagedOK`), without which removing it could orphan another operation; a commit in
its preparing phases still has no receipt (`CallOK`), without which an abort could
contradict an answer given before; a rollback has a journal and an index within its
files, and the journals recovery has yet to visit exist and exclude the one being
rolled back (`RollbackOK`, `TodoOK`); the keys a sealed request was admitted with stay
until it ends (`KeysOK`), which is what makes `LockedDataKept` follow.

**Files of a commit** (second half of `CommitProofs`): `JournalCoverage`, `FilesBeforeSecrets`,
`RecoveryFirst` and the refinement `LedgerImplemented`.  `FInv` follows the files of
the request in hand: what was backed up and compared is as the client expects
(`BackupOK`), what was written and verified is as it wants (`AppliedOK`), what a
rollback has passed is as it was (`RestoredOK`), what is about to be replaced was seen
to be one of the two contents its operation accounts for (`SeenOK`), and readable
journals are rolled back before anything is done (`RecoveredOK`).  `RecoveryFirst` needs
besides that a load which ends as recovered was served, and did not end with a recovery
that failed (`RecoveredLoadServed`).  A file that
another program saved since its backup is exempt at every stage, which is what the
ledger calls contested; that exemption is what makes the mapping exact, because the
ledger's files are the ones a rollback would leave.  The refinement maps the initial
state, publication to the ledger's commit, the failing ends to its abort, an outside
edit to its edit, and every other step to a stutter; `KindOK` adds that a call takes
the kind of the request it was given.

**Editing session** (`SessionProofs`): `SavedWhenQuiet` (`QuietMeansSaved`) and
`BothSides` (`BothSidesKept`).  "Quiet means saved" says nothing of a session under
way; `SavedOK` does: until a deletion is asked for, what is shown is the baseline, or
will be saved by a queued autosave of exactly the store shown, or the timer runs, or an
error is shown, or the workspace is read-only; and behind each save of an older store waits one of the store that is
shown, unless the timer runs.  `JobsOK` says what a job knows at each of its awaits,
`DeletionOK` that at most one deletion is queued and what it leaves.

**Uploads** (`PartsProofs`): `UploadsExact`.  Of every reader, what was sent and what
is in its pipe are together the first chunks of the file, in order (`ReadersOK`); the
file is what was acknowledged of it while a handle or a thread holds it and nobody
altered it (`FileOK`); and `StageOK` ties handle and hops to the stage of the
execution.

**Response capture** (`ResponseProofs`): `StoredWhole` and `ResponsesGuarded`.  That a
row which becomes readable is whole needs the order of the queues: a batch in a queue
has every earlier batch of its request written or waiting before it (`JobsOK`), each
batch a task has sent is answered or waits (`SentOK`), and a finish is only sent with
every write answered well (`TasksOK`).  A cancellation that came first is found
through the registry at each stage (`RegistryOK`), and a response that must be
encrypted has the keyed worker from its first row on (`RowsOK`).

**Cleanup** (`CleanupProofs`): `CleanupInvariance`, `OthersAreKept` and `CleanupTypes`.  Each stage
keeps what it found out although other programs go on in the source, because nothing
but the cleanup touches the intent and the quarantine (`StageOK`); a directory that was
quarantined is still there, or remembered, or the cleanup is over (`MovedOK`), so that
no retry takes the path a second time.

**The native machines together** (`PartsProofs`): `PartsAreTyped`, `PartsStoreWhole` and
`PartsKeepOthers` say of `Parts`, as the run checks it, what the modules' theorems say of
each machine alone.  The part that is chosen never changes, so that a behaviour of
`Parts` is one of the chosen machine's specification, and the theorems of
`CleanupProofs` and `ResponseProofs` are cited for the instances of `MCParts`, whose
constants are shown to meet the assumptions of those modules (`CaptureAssumed`).

**Browser preview** (`SuiteProofs`): `BrowserInvariance`, the refinement
`TabsKeepTheLedger` and, of `Suite` as the run checks it, `SuiteTabsAgree`.  A call reads
its way to a request in several transactions while another tab publishes, so the step
that publishes is a step of the ledger only because of what it compares again: `Prepared`
says that the files it compares are those it has read and expects, or that it is a
deletion made of what was found, whose secrets are the workspace's and stay
(`FoundOK`).  `CallOK` says what a call knows at each place.  A revision never outgrows
the calls: `Counted` adds the busy tabs to it, each of which may still add one.  Every
other step leaves what the ledger sees alone.  That one scope has one key
(`OneKeyPerScope`) needs `SealedOK`: what is about to be published was sealed with the
key that is stored now, whichever tab created it.  `SuiteResponsesAreGuarded` is
`ResponsesGuarded` for the instance of `MCSuite`, by the same argument as for `Parts`.

**Workspace editor** (`EditorProofs`): `NothingDanglesHolds` (`NothingDangles`) and
`EditorTypes`.  That a tab, binding or default connection leads to a document needs
to know what else is so of every document: connections are saved and a history tab
shows a record without a binding (`Bound`), so that closing, discarding or dropping a
request or a history tab never removes what another document names; a variable reads a
saved request (`Referred`), which closing does not remove; a preview is no history tab
and no tab stands twice (`Tabbed`), without which a tab that is replaced could appear
twice; a history document lives exactly as long as its tab (`Held`); and while there are
tabs one is active even under a panel (`Shown`), which is what is uncovered when the
panel closes.  `Named` ties documents to the identifiers handed out, so that a new one
is no document's.  A record being read and a question on screen outlive the tabs they
came from, and what is asked of them is only that they are records (`Remembered`).
Each function of `workspace.ts` has a lemma of its own (`OpenKeeps`, `CloseKeeps`,
`DeleteKeeps`, ...), and closing or discarding many documents goes by induction on how
many: as the library's induction theorems cannot be instantiated here, `AllNumbers` and
`AllSubsets` state induction for a set instead of an operator, and `FoldExists` gives
the function behind a fold.

**The front end's other machines** (`ClientProofs`): one invariant for each machine, of
which a step of the composition is a step or leaves it alone (`ExitMoves`,
`SecretMoves`, ...), so that each theorem is about `Clients` as the run checks it.
`ClientsAreTyped` joins their types with the session's invariant (`SessionProofs`).

* *Executions* (`ExecutionsAreRecorded`).  A run compares a number of its workbench with
  its own to know whether it still counts.  That this suffices needs `ExecRunning`: a
  run that counts is the last one, and the one that the session, which outlives the
  workbench, would cancel; one that no longer counts was aborted, and whoever aborted it
  has recorded it if it had gone out.  `ExecHistory` counts the records of a run, and
  `ExecTokens` says that a workbench waits only for a job of its own, begun with the
  environment it shows.
* *Tokens* (`GrantsAreTheirOwn`, `TokensAreKept`).  A job holds no code but its own
  (`GrantOf`), the port belongs to the one that listens, which can be told to stop or
  was, and what was given in is nothing or one's own code, once.  `TokensAreKept` adds
  that a late token leaves every edit, for a document with a configuration of its own
  (`~Inherited`, as in the run): with a shared profile the token replaces the profile as
  it was when the job began (see Observations).
* *Redirects* (`ChainLeaksNothing`).  The marks of a chain say less than its way, since a
  mark stays when the chain comes home.  `ChainMarks` says exactly what they stand for:
  unset, everything sent so far went to the first origin, or its site; set, nothing
  delicate is in hand.  `ChainSent` draws the conclusion for what was sent, and
  `ChainLive` says where content is held.
* *Secret cache* (`StaleRecognised`, `CommitsAreCurrent`).  A snapshot at the vault's
  revision has the vault's value, hence no accepted commit replaces a value other than
  the one its save was prepared on.  The cache itself may hold anything it ever read.
* *Variables* (`RunsSendOnce`).  A path of requests that need one another has no request
  twice in one environment, which bounds its length by the pairs there are (a pigeonhole
  argument over finite sets) and makes the guard against cycles complete; what is on the
  path was not sent, and what was sent is a hit of the run's own cache (`VarPath`,
  `VarSent`).  A cache takes in no value of an older definition, except with the end of a
  save that a run has overtaken (`KeepsCurrent`).
* *Schema* (`SchemaIsCurrent`).  A schema carries the identity it was loaded from, or the
  mark that says it changed, whatever happened since (`Connections`).
* *Exit* (`RestartIsFlushed`).  The phase that is shown and the call that is awaited
  agree, and there is a handle to install while the store is saved.
* *Transfer* (`ImportsReplaceWhatWasSeen`).  The longest argument: dialogs are closed and
  opened while commands run, names are given up, expire and are taken.  A choice or an
  unlocking that nobody aborted is the open dialog's (`TransferOpen`), which is how a
  package whose dialog is gone is given back; a preview cannot be imported again once
  its import may have happened (`TransferCallOf`); and a secret that is at the revision
  a preview has read has the value the user saw (`TransferSeen`), which is what the
  comparison at the commit needs.

### What is only model-checked

* Liveness and fairness (`WorkspacesRecover`, `WaitsEnd`): outside the prover's reach.
* `WorkIsKept` of the workspace editor, which compares what is typed before and after
  each step; its proof would follow the content of documents through every function.
* What recursive operators compute (`BodyConversion`, `ResponseQuery`, `RequestCode`):
  induction over data cannot be instantiated.
* The machines of `screens` other than the workspace editor, and of `suite` other than
  the response capture and the browser preview, that is, its credentials and its
  directory; and that the joint conditions of the suites are fair.

## What is not modelled

What a query row without name and value (`?=`) becomes, integers of 1e21 and more in a
body, the degraded load seen by the cookie jar, contents of requests and responses, cryptography, file formats, importers, the
composition of extensions, trace providers, formatting, shell quoting, the `jq` text of
a selector, completion, layout and rendering are data or pure functions.  Version-1 journals, schema migration and the
legacy import run once over data of old versions.  Attachments with their reference
counts, native history tables, creation and migration of the root key, proxies and TLS
options, exports of directories, and the binding of an upload to its workspace and
window are left out.  The loss of power (as against the end of the process) is not
modelled: SQLite runs with full synchronous writes and the code syncs directories after
renames, which the models take as durable once done.

## Observations

Met while reading for the models; none of them is a run, and the models describe what
the code does.

* Sidebar: the first reorder of a tree that was never ordered puts documents before
  folders (`workspace-workbench.tsx:439`, `workspace-sidebar.tsx:55`); Shift toggles
  single documents where `docs/workspaces.md:83` speaks of a range; a selection may
  hold documents the search hides, which move with it.
* Secrets: when a value is set and the following inspection fails, the panel says it
  could not be saved although the vault has it (`required-local-secrets.tsx:120`).  A
  value removed in the panel comes back at the next start when a draft keeps a copy
  (`workspace-persistence.ts:271`, `secrets.ts:94`; `docs/auth.md:40` says otherwise).
* OAuth: a cancel command handled before its authorization registered finds nothing
  (`oauth.rs:50`); the page still opens and holds the port until it expires.  A token
  arriving for a shared profile replaces the profile as it was when the job began
  (`use-auth-runtime.ts:127`, `workspace-workbench.tsx:322`; `docs/auth.md:64`).
* Session: an edit that waits while a reload meets an unreadable file stays unsaved, and
  the flush that passes over the read-only workspace takes the error away
  (`workspace-persistence.ts:276`, `use-workspaces.ts:41`); what is left is the banner
  (`workspace-workbench.tsx:816`; `docs/persistence-architecture.md:265`).  A file that is
  repaired to exactly what it was leaves the workspace read-only until Retry / Unlock
  (`workspace-persistence.ts:519`), and a readable change of another file makes it
  writable while the damaged one is still there, as long as that is not scanned.  A
  workspace whose files could not be read at the start is an empty one; when its file is
  repaired the reload takes that empty workspace for the user's, and the next save
  removes the stored drafts and cookies (`workspace-persistence.ts:234`, `:533`, `:457`).
* Recovery: a degraded answer names no unavailable rows, so that no workspace of it can be
  written (`workspace-persistence.ts:93`).  The rescan of a reload and the confirmation of
  a commit take the files of `load_project` alone (`workspace-persistence.ts:512`,
  `application-services.ts:111`): a workspace that is open already can take over
  half-applied files and stay writable, though its saves are refused while the journal
  stands.
* Variables: when a variable is switched or deleted in its row while another one's draft
  is being saved, the saved draft leaves the store, and the next autosave writes the old
  definition back (`use-workspaces.ts:84`).  A global dynamic variable loses its cached
  values with every run that ends, since the merge prunes without the global definitions
  (`workspace-workbench.tsx:147`).  A rename saved from the detail form leaves a request that was edited
  meanwhile with the old name (`use-workspaces.ts:90`); a document created during an
  explicit save is dropped (`use-workspaces.ts:86`).
* Directory: sibling folders of the same normalised name share one marker, and two
  requests of the same file name moved into one folder get the same path
  (`workspace-persistence.ts:14`; `docs/workspaces.md:86`).  An empty folder moved
  outside is moved back by the next save (`docs/persistence-architecture.md:100`).
* Address: editing it drops disabled query rows (`request.ts:280`;
  `docs/request-lifecycle.md:93`).  Typing the name of a managed header makes the row
  vanish; with a blank behind it (`Content-Type `) the row is hidden as well, but not put
  back, and the next edit of another header drops it, where a comment says it is kept
  (`request.ts:108`, `:190`).  New rows are numbered after the visible ones only, so that identifiers can
  repeat (`domain/project.ts:20`; `docs/architecture.md:87`).
* Bodies: a remembered JSON shape is applied to a body that has changed since
  (`restoreJsonShape`).  A number under a key `@_...` or `#text` comes back as a string,
  and an element of `#text` alone as its text, with the notice of a conversion that
  succeeded (`request-body.ts:327`); so do integers that are written with an exponent.
  `RoundTrip` excepts the former (`KeepsTypes`) and the model leaves out the latter.
* Cookies: a jar made while the records could not be read stays after Retry / Unlock,
  and its next change replaces the cookies that were read by then, in the store and in
  the records (`workspace-persistence.ts:320`; `docs/persistence-architecture.md:266`).
  A response that arrives while another workspace is on display changes the jar and
  not the store, until the next change that is heard; so does every change while the
  workspace cannot be written, though the panel stays enabled
  (`workspace-workbench.tsx:301`, `:972`, `use-workspaces.ts:68`).  A reload, or the
  retry of a save, puts the cookies it began with back into the store under the jar
  (`use-workspaces.ts:31`, `:107`): a cookie that came, and was saved, while it was
  awaited is taken from the records by the next save.  `StoreHasJar` and
  `SavedCookiesStay` except just these cases (`behind`, `undone`, `blind`).
* Code: the dialog is said not to run the resolver of dynamic variables
  (`docs/request-lifecycle.md:240`); it composes a script instead, as the section on the
  export of dynamic dependencies in the same document says.
* Schema: an import over the current text is shown as stale
  (`workspace-workbench.tsx:984`; `docs/graphql.md:88`); between the comparison of an
  install and its patch lies one more await (`schema-explorer.tsx:149`).
* Viewers: a page that failed to load is skipped by the next
  (`large-response-viewer.tsx:428`); the field menu acts on the first field of a name,
  depth first (`response-viewer.tsx:312`; `docs/response-lifecycle.md:121`).
* Browser preview: pinning writes the history index without the comparison every
  other call makes, and a stale tab's history or record written after a deletion
  makes the workspace's rows anew.
* Exit: a second close request during the first flush is not held back
  (`use-workspaces.ts:54`).
