-------------------------- MODULE WorkspaceSession --------------------------
(***************************************************************************)
(* The frontend's side of persistence: one open workspace, edited in the   *)
(* React store (use-workspaces.ts) while WorkspacePersistence              *)
(* (workspace-persistence.ts) saves it, reloads what other programs write  *)
(* to its files, retries failed saves and deletes it.                      *)
(*                                                                         *)
(* Every one of those jobs runs behind the previous one on a promise       *)
(* queue, but the user keeps typing while a job awaits the native side, so *)
(* the store moves under the jobs.  A save diffs the store it was given    *)
(* against two baselines of the session, the files last seen and the       *)
(* project last read or written.                                           *)
(*                                                                         *)
(* A resource is one canonical file; a file's revision is the hash of its  *)
(* content, so content stands for both.  What another program writes may   *)
(* be no definition at all; a reload that meets it makes the workspace     *)
(* read-only, and then saves and edits leave it alone.  Commits and scans  *)
(* on the native side are atomic: CommitCoordinator has their steps.       *)
(* Drafts, secrets, globals and the explicit Save of a single document are *)
(* not part of this module.                                                *)
(***************************************************************************)
EXTENDS Naturals, Sequences

CONSTANTS
    Resources,         \* canonical files of the workspace
    Values,            \* contents a file may have
    Garbled,           \* a content that readProject, or a legacy draft, rejects
    Original,          \* the content every file starts with
    Absent,            \* a workspace that is not there
    MaxEdits,          \* bound: edits of the user
    MaxExternal,       \* bound: edits of other programs
    MaxRetries,        \* bound: clicks on "Reload and retry"
    MaxDeletes,        \* bound: requests to delete the workspace
    MaxDeleteFailures  \* bound: deletions the native side refuses

ASSUME SessionAssumption ==
    /\ Original \in Values /\ Garbled \notin Values
    /\ Absent \notin [Resources -> Values \cup {Garbled}]
    /\ MaxEdits \in Nat /\ MaxExternal \in Nat /\ MaxRetries \in Nat
    /\ MaxDeletes \in Nat /\ MaxDeleteFailures \in Nat

VARIABLES
    store,        \* the workspace in the React store
    timer,        \* the 180 ms autosave timer is running
    saving,       \* the footer shows "Saving"
    saveError,    \* the footer shows an error
    queue,        \* the jobs of WorkspacePersistence.queue, head running
    snapshot,     \* WorkspacePersistence.snapshots: files last seen
    project,      \* WorkspacePersistence.projects: definitions last in step
    deleted,      \* WorkspacePersistence.deleted holds the workspace
    cache,        \* TauriPersistence.cache: files last returned by the backend
    readonly,     \* protectedStates has it as recovery-required
    disk,         \* the project directory
    event,        \* the changed files the watcher has not delivered yet
    edits, externals, retries, deletes, refusals,
    conflicted    \* history: some reload met a conflict

editor == <<store, timer, saving, saveError>>
session == <<snapshot, project, deleted, cache, readonly>>
bounds == <<edits, externals, retries, deletes, refusals>>
vars == <<editor, queue, session, disk, event, bounds, conflicted>>

Files == [Resources -> Values]
Scans == [Resources -> Values \cup {Garbled}]
Job(kind, s, paths) ==
    [kind |-> kind, store |-> s, paths |-> paths, files |-> Absent, phase |-> "queued",
     latest |-> TRUE]
Enqueued(kind, s, paths) == Append(queue, Job(kind, s, paths))
Working(kind) == queue # <<>> /\ queue[1].kind \in kind

-----------------------------------------------------------------------------
(* The store.                                                              *)

\* A new store object is no longer the one a flush was started with.
Superseded(jobs) ==
    [i \in DOMAIN jobs |-> [jobs[i] EXCEPT !.latest = FALSE]]

\* setStore: the autosave effect restarts its timer.
Show(s, jobs) ==
    /\ store' = s
    /\ timer' = TRUE
    /\ saving' = TRUE
    /\ queue' = Superseded(jobs)

\* updateWorkspace: the definitions of a read-only workspace stay, in a store
\* that is a new object all the same.
Edit(r, v) ==
    /\ store # Absent /\ edits < MaxEdits
    /\ store[r] # v
    /\ edits' = edits + 1
    /\ Show(IF readonly THEN store ELSE [store EXCEPT ![r] = v], queue)
    /\ UNCHANGED <<saveError, session, disk, event, externals, retries,
                   deletes, refusals, conflicted>>

\* The timer fires: flush the latest store.
Autosave ==
    /\ timer
    /\ timer' = FALSE
    /\ saving' = TRUE
    /\ queue' = Enqueued("save", store, {})
    /\ UNCHANGED <<store, saveError, session, disk, event, bounds, conflicted>>

-----------------------------------------------------------------------------
(* Saving.                                                                 *)

\* What a save wants on disk: a definition that equals the project baseline
\* keeps the bytes of its file.
Desired(s, r) == IF s[r] = project[r] THEN snapshot[r] ELSE s[r]

Changes(s) == {r \in Resources : Desired(s, r) # snapshot[r]}

\* Mutant: the set of deleted workspaces is not consulted.
SkippedNotDeleted(s) == s = Absent \/ readonly

\* save passes over a workspace that is read-only, persistPrepared does nothing
\* for one being deleted, and a store that lost it does not mention it.
Skipped(s) == deleted \/ s = Absent \/ readonly

\* flush and the end of retrySave.
SaveSucceeded(job) ==
    /\ queue' = Tail(queue)
    /\ IF job.latest \/ job.kind = "retried save"
       THEN saving' = FALSE /\ saveError' = FALSE
       ELSE UNCHANGED <<saving, saveError>>
    /\ UNCHANGED <<store, timer>>

\* Mutant: a failed save ends like any other.
SaveFailedSilently(job) ==
    /\ queue' = Tail(queue)
    /\ saving' = FALSE
    /\ saveError' = saveError
    /\ UNCHANGED <<store, timer>>

SaveFailed(job) ==
    /\ queue' = Tail(queue)
    /\ saving' = FALSE
    /\ saveError' = TRUE
    /\ UNCHANGED <<store, timer>>

\* A save with nothing to write ends at once.
SaveNothing ==
    /\ Working({"save", "retried save"}) /\ queue[1].phase = "queued"
    /\ LET job == queue[1] IN
        /\ Skipped(job.store) \/ (snapshot # Absent /\ Changes(job.store) = {})
        /\ SaveSucceeded(job)
        /\ project' = IF Skipped(job.store) THEN project ELSE job.store
    /\ UNCHANGED <<snapshot, deleted, cache, readonly, disk, event, bounds, conflicted>>

\* The native commit compares every expected revision, then replaces the
\* files.  A session that forgot the workspace expects no file at all.
Commit ==
    /\ Working({"save", "retried save"}) /\ queue[1].phase = "queued"
    /\ LET job == queue[1] IN
        /\ ~Skipped(job.store)
        /\ IF snapshot = Absent
           THEN disk = Absent /\ disk' = job.store
           ELSE /\ Changes(job.store) # {}
                /\ disk # Absent
                /\ \A r \in Changes(job.store) : disk[r] = snapshot[r]
                /\ disk' = [r \in Resources |->
                       IF r \in Changes(job.store) THEN job.store[r]
                                                   ELSE disk[r]]
    /\ queue' = [queue EXCEPT ![1].phase = "committed"]
    /\ event' = event \cup {r \in Resources : disk = Absent \/ disk[r] # disk'[r]}
    /\ UNCHANGED <<editor, session, bounds, conflicted>>

\* "Project changed externally": nothing was written.
CommitRejected ==
    /\ Working({"save", "retried save"}) /\ queue[1].phase = "queued"
    /\ LET job == queue[1] IN
        /\ ~Skipped(job.store)
        /\ IF snapshot = Absent THEN disk # Absent
           ELSE \E r \in Changes(job.store) :
                    disk = Absent \/ disk[r] # snapshot[r]
        /\ SaveFailed(job)
    /\ UNCHANGED <<session, disk, event, bounds, conflicted>>

\* The answer names the files written; the session's new snapshot is the
\* backend's whole cache with those files replaced.
Saved ==
    /\ Working({"save", "retried save"}) /\ queue[1].phase = "committed"
    /\ LET job == queue[1]
           written(r) == snapshot = Absent \/ r \in Changes(job.store)
       IN
        /\ cache' = [r \in Resources |->
               IF written(r) THEN job.store[r] ELSE cache[r]]
        /\ snapshot' = cache'
        /\ project' = job.store
        /\ SaveSucceeded(job)
    /\ UNCHANGED <<deleted, readonly, disk, event, bounds, conflicted>>

-----------------------------------------------------------------------------
(* Changes made by other programs.                                         *)

ExternalEdit(r, v) ==
    /\ disk # Absent /\ externals < MaxExternal
    /\ disk[r] # v
    /\ disk' = [disk EXCEPT ![r] = v]
    /\ event' = event \cup {r}
    /\ externals' = externals + 1
    /\ UNCHANGED <<editor, queue, session, edits, retries, deletes, refusals,
                   conflicted>>

\* The watcher has coalesced the events and asks for a reload of their files,
\* or of all of them.
Notify ==
    /\ event # {}
    /\ event' = {}
    /\ \E paths \in {event, Resources} : queue' = Enqueued("reload", Absent, paths)
    /\ UNCHANGED <<editor, session, disk, bounds, conflicted>>

\* What files are with those on some paths as they are on disk.
Scanned(files, paths) ==
    [r \in Resources |-> IF r \in paths THEN disk[r] ELSE files[r]]

\* A reload reads the store, then scans the files and waits.  A retry was
\* given its store by the click.
Rescan ==
    /\ Working({"reload", "retry"}) /\ queue[1].phase = "queued"
    /\ snapshot # Absent
    /\ queue' = [queue EXCEPT
           ![1].phase = "scanned", ![1].files = Scanned(snapshot, queue[1].paths),
           ![1].store = IF @ = Absent THEN store ELSE @]
    /\ cache' = Scanned(cache, queue[1].paths)
    /\ UNCHANGED <<editor, snapshot, project, deleted, readonly, disk, event, bounds,
                   conflicted>>

Readable(files) == \A r \in Resources : files[r] # Garbled

\* Mutant: an unsaved edit wins without a word.
NeverConflicting(local, files) == FALSE

\* Both sides moved away from the baseline, to different contents.
Conflicting(local, files) ==
    \E r \in Resources : /\ local[r] # project[r]
                         /\ files[r] # project[r]
                         /\ files[r] # local[r]

Merged(local, files) ==
    [r \in Resources |-> IF local[r] # project[r] THEN local[r] ELSE files[r]]

\* retrySave shows the reconciled store and saves it.
RetrySave(s, jobs) ==
    Append(Superseded(jobs), Job("retried save", s, {}))

\* No file differs from the snapshot, or the session forgot the workspace; one
\* that is read-only stays so.
NothingToReload ==
    /\ Working({"reload", "retry"})
    /\ \/ queue[1].phase = "queued" /\ snapshot = Absent
       \/ queue[1].phase = "scanned" /\ queue[1].files = snapshot
    /\ LET job == queue[1] IN
        IF job.kind = "reload"
        THEN queue' = Tail(queue) /\ UNCHANGED <<store, timer, saving>>
        ELSE Show(job.store, RetrySave(job.store, Tail(queue)))
    /\ UNCHANGED <<saveError, session, disk, event, bounds, conflicted>>

\* watchError, or the catch of retrySave.
ReloadFails(job) ==
    /\ saving' = IF job.kind = "retry" THEN FALSE ELSE saving
    /\ queue' = Tail(queue)
    /\ saveError' = TRUE

\* The project cannot be read: the session keeps its baselines, read-only.
ReloadUnreadable ==
    /\ Working({"reload", "retry"}) /\ queue[1].phase = "scanned"
    /\ queue[1].files # snapshot
    /\ ~Readable(queue[1].files)
    /\ ReloadFails(queue[1])
    /\ readonly' = TRUE
    /\ UNCHANGED <<store, timer, snapshot, project, deleted, cache, disk, event, bounds,
                   conflicted>>

ReloadConflict ==
    /\ Working({"reload", "retry"}) /\ queue[1].phase = "scanned"
    /\ queue[1].files # snapshot
    /\ Readable(queue[1].files)
    /\ Conflicting(queue[1].store, queue[1].files)
    /\ ReloadFails(queue[1])
    /\ readonly' = FALSE
    /\ conflicted' = TRUE
    /\ UNCHANGED <<store, timer, snapshot, project, deleted, cache, disk, event, bounds>>

\* The session takes the new files as its baseline, the store is replaced.
Reload ==
    /\ Working({"reload", "retry"}) /\ queue[1].phase = "scanned"
    /\ LET job == queue[1]
           merged == Merged(job.store, job.files)
       IN
        /\ job.files # snapshot
        /\ Readable(job.files)
        /\ ~Conflicting(job.store, job.files)
        /\ snapshot' = job.files
        /\ project' = job.files
        /\ readonly' = FALSE
        /\ IF job.kind = "retry"
           THEN Show(merged, RetrySave(merged, Tail(queue)))
           ELSE Show(merged, Tail(queue))
    /\ UNCHANGED <<saveError, deleted, cache, disk, event, bounds, conflicted>>

\* "Reload and retry" is offered while an error is shown.
ClickRetry ==
    /\ saveError /\ store # Absent /\ retries < MaxRetries
    /\ \A i \in DOMAIN queue : queue[i].kind \notin {"retry", "retried save"}
    /\ retries' = retries + 1
    /\ saving' = TRUE
    /\ queue' = Enqueued("retry", store, Resources)
    /\ UNCHANGED <<store, timer, saveError, session, disk, event, edits,
                   externals, deletes, refusals, conflicted>>

-----------------------------------------------------------------------------
(* Deleting the workspace.                                                 *)

\* The workspace counts as deleted before its turn in the queue comes.
ClickDelete ==
    /\ store # Absent /\ ~deleted /\ deletes < MaxDeletes
    /\ deletes' = deletes + 1
    /\ deleted' = TRUE
    /\ queue' = Enqueued("delete", Absent, {})
    /\ UNCHANGED <<editor, snapshot, project, cache, readonly, disk, event, edits,
                   externals, retries, refusals, conflicted>>

\* What the session drops with the workspace.
Forget ==
    /\ snapshot' = Absent
    /\ project' = Absent

Delete ==
    /\ Working({"delete"})
    /\ disk' = Absent
    /\ Forget
    /\ Show(Absent, Tail(queue))
    /\ UNCHANGED <<saveError, deleted, cache, readonly, event, bounds, conflicted>>

DeleteRefused ==
    /\ Working({"delete"}) /\ refusals < MaxDeleteFailures
    /\ refusals' = refusals + 1
    /\ deleted' = FALSE
    /\ queue' = Tail(queue)
    /\ UNCHANGED <<editor, snapshot, project, cache, readonly, disk, event, edits,
                   externals, retries, deletes, conflicted>>

-----------------------------------------------------------------------------

Init ==
    /\ store = [r \in Resources |-> Original]
    /\ snapshot = store /\ project = store /\ cache = store /\ disk = store
    /\ timer = FALSE /\ saving = FALSE /\ saveError = FALSE
    /\ queue = <<>> /\ deleted = FALSE /\ readonly = FALSE /\ event = {}
    /\ edits = 0 /\ externals = 0 /\ retries = 0 /\ deletes = 0
    /\ refusals = 0 /\ conflicted = FALSE

RunQueue ==
    \/ SaveNothing \/ Commit \/ CommitRejected \/ Saved
    \/ Rescan \/ NothingToReload \/ ReloadUnreadable \/ ReloadConflict \/ Reload
    \/ Delete \/ DeleteRefused

Next ==
    \/ \E r \in Resources :
        \/ \E v \in Values : Edit(r, v)
        \/ \E v \in Values \cup {Garbled} : ExternalEdit(r, v)
    \/ Autosave \/ Notify \/ RunQueue
    \/ ClickRetry \/ ClickDelete

Spec == Init /\ [][Next]_vars

\* Timers fire, the watcher delivers, and awaited native calls answer.
FairSpec == Spec /\ WF_vars(Autosave) /\ WF_vars(Notify) /\ WF_vars(RunQueue)

-----------------------------------------------------------------------------
(* What the user and the other programs that write the files can rely on.  *)

Jobs == [kind : {"save", "retried save", "reload", "retry", "delete"},
         store : Files \cup {Absent}, paths : SUBSET Resources,
         files : Scans \cup {Absent},
         phase : {"queued", "scanned", "committed"}, latest : BOOLEAN]

\* Type invariant of WorkspaceSession; the two baselines of the session come
\* and go together, and only the job at the head of the queue has begun.
TypeOK ==
    /\ store \in Files \cup {Absent}
    /\ timer \in BOOLEAN /\ saving \in BOOLEAN /\ saveError \in BOOLEAN
    /\ queue \in Seq(Jobs)
    /\ \A i \in DOMAIN queue : i > 1 => queue[i].phase = "queued"
    /\ snapshot \in Scans \cup {Absent} /\ project \in Files \cup {Absent}
    /\ snapshot = Absent <=> project = Absent
    /\ deleted \in BOOLEAN /\ cache \in Scans /\ readonly \in BOOLEAN
    /\ disk \in Scans \cup {Absent}
    /\ event \in SUBSET Resources
    /\ edits \in 0..MaxEdits /\ externals \in 0..MaxExternal
    /\ retries \in 0..MaxRetries /\ deletes \in 0..MaxDeletes
    /\ refusals \in 0..MaxDeleteFailures
    /\ conflicted \in BOOLEAN

\* "Autosave/flush failures stay visible" (docs/persistence-architecture.md):
\* when no job and no timer is left and no error is shown, what the user sees
\* is what the session last saved or loaded, whatever was reloaded, retried or
\* could not be read meanwhile.  A read-only workspace says so instead: a flush
\* passes over it and takes the error away, with the edits from before unsaved.
\* A deletion the native side refused is left out: RefusedDeletionKeepsSaves is
\* about it.
Quiet ==
    queue = <<>> /\ ~timer /\ ~saveError /\ ~readonly /\ ~deleted /\ store # Absent

QuietMeansSaved == Quiet /\ refusals = 0 => store = project

\* Three-way comparison (docs/workspaces.md): a reload that changes the store
\* keeps every change of the store it began with and takes every change of
\* the files it scanned; it never drops one for the other.
MergeKeepsBoth ==
    [][Reload =>
        \A r \in Resources :
            /\ queue[1].store[r] # project[r] => store'[r] = queue[1].store[r]
            /\ queue[1].files[r] # project[r] => store'[r] = queue[1].files[r]]_vars

\* Autosaves queued before the deletion, or started by stores that still
\* hold the workspace, do not bring its directory back.
DeletedStaysDeleted == [][disk = Absent => disk' = Absent]_vars

\* Neither side's work is undone by the other's.
BothSidesKept == MergeKeepsBoth /\ DeletedStaysDeleted

\* Once everybody stops editing, the queue runs dry and by then the store agrees
\* with every file that can be read or an error is shown, or that the workspace
\* is read-only, whatever saves were queued behind reloads with an older store.
\* (After a conflict they need not: the session keeps both sides.  Nor after a
\* deletion: a retry that was already queued shows the workspace again; nor
\* after a refused one, see RefusedDeletionKeepsSaves.)
Busy == queue # <<>> \/ timer \/ event # {}
Agreeing ==
    \/ store = disk
    \/ disk # Absent /\ store # Absent
       /\ \A r \in Resources : disk[r] \in {store[r], Garbled}
Converged == Agreeing \/ saveError \/ readonly \/ deleted \/ conflicted \/ refusals > 0

SessionConverges == Busy ~> ~Busy /\ Converged

\* "External/dirty conflicts preserve both sources"
\* (docs/persistence-architecture.md): content of the store that differs from
\* the session's baseline is replaced only by the user.
EditsSurviveReload ==
    [][\A r \in Resources :
        /\ store # Absent /\ store' # Absent /\ project # Absent
        /\ store[r] # project[r] /\ store'[r] # store[r]
        => edits' # edits]_vars

\* "The writer uses expected revisions to reject stale overwrites"
\* (docs/workspaces.md): a save replaces a file only when its content is what
\* the session has taken as that file's definition.
StaleOverwritesRejected ==
    [][Commit => \A r \in Resources :
        project # Absent /\ disk'[r] # disk[r] => disk[r] = project[r]]_vars

\* "Autosave/flush failures stay visible" (docs/persistence-architecture.md),
\* the saves that waited behind a refused deletion included.
RefusedDeletionKeepsSaves == Quiet => store = project
=============================================================================
