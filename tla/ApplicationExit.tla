---------------------------- MODULE ApplicationExit ----------------------------
(***************************************************************************)
(* The two ways the application ends by itself: the restart into an update *)
(* (features/updates/update-controller.ts) and the close of the window     *)
(* (application/application-close.ts and hooks/use-workspaces.ts).  Both   *)
(* save first, while the user may go on typing.                            *)
(***************************************************************************)
EXTENDS Naturals, FiniteSets

CONSTANTS
    MaxHandles, MaxEdits, MaxFaults  \* bounds: updates found, edits, failures

NoHandle == 0

VARIABLES
    phase,     \* UpdateState.phase
    previous,  \* the phase a check began in
    update,    \* the handle of the update found, or NoHandle
    busy,      \* what the controller waits for, or "no"
    flushing,  \* the store the restart is saving
    open,      \* handles not closed
    handles,   \* handles the updater has given out
    typed,     \* the store: number of edits made
    saved,     \* the store last saved
    timer,     \* the autosave is due
    closing,   \* no, saving, exiting
    last,      \* the store the close is saving
    ended,     \* "no", "restarted" or "exited"
    faults

controller == <<phase, previous, update, busy, flushing, open, handles>>
editor == <<typed, saved, timer>>
window == <<closing, last, ended>>
vars == <<controller, editor, window, faults>>

Init ==
    /\ phase = "idle" /\ previous = "idle" /\ update = NoHandle /\ busy = "no"
    /\ flushing = 0 /\ open = {} /\ handles = 0
    /\ typed = 0 /\ saved = 0 /\ timer = FALSE
    /\ closing = "no" /\ last = 0 /\ ended = "no" /\ faults = 0

Running == ended = "no"
Fault == faults < MaxFaults /\ faults' = faults + 1

\* The store is saved as it was when the save began.
Save(store) == saved' = IF store > saved THEN store ELSE saved

-----------------------------------------------------------------------------
(* Looking for an update and downloading it.                               *)

Check ==
    /\ busy = "no" /\ phase \notin {"downloaded", "installed"}
    /\ busy' = "checking" /\ previous' = phase /\ phase' = "checking"
    /\ UNCHANGED <<update, flushing, open, handles, editor, window, faults>>

CheckFailed ==
    /\ busy = "checking" /\ phase' = previous /\ busy' = "no" /\ Fault
    /\ UNCHANGED <<previous, update, flushing, open, handles, editor, window>>

\* Mutant: the update that is no longer offered keeps its handle.
SupersededByNext(old, next) == IF next \in {old, NoHandle} THEN {} ELSE {old}

\* The handle of the update found before is closed, unless it is found again.
Superseded(old, next) == IF old = next THEN {} ELSE {old}

Checked ==
    /\ busy = "checking" /\ busy' = "no"
    /\ \E next \in {NoHandle, update, handles + 1} :
        /\ next <= MaxHandles
        /\ update' = next
        /\ handles' = IF next > handles THEN next ELSE handles
        /\ open' = (open \cup ({next} \ {NoHandle})) \ Superseded(update, next)
        /\ phase' = IF next = NoHandle THEN "idle" ELSE "available"
    /\ UNCHANGED <<previous, flushing, editor, window, faults>>

Download ==
    /\ update # NoHandle /\ busy = "no" /\ phase = "available"
    /\ busy' = "downloading" /\ phase' = "downloading"
    /\ UNCHANGED <<previous, update, flushing, open, handles, editor, window, faults>>

Downloaded ==
    /\ busy = "downloading" /\ busy' = "no"
    /\ \/ phase' = "downloaded" /\ UNCHANGED faults
       \/ phase' = "available" /\ Fault
    /\ UNCHANGED <<previous, update, flushing, open, handles, editor, window>>

-----------------------------------------------------------------------------
(* The restart: save, install, relaunch, each of which may fail.           *)

CanRestart == update # NoHandle /\ busy = "no" /\ phase \in {"downloaded", "installed"}

\* Mutant: an update that is installed is restarted into at once.
RestartAtOnce ==
    /\ CanRestart
    /\ busy' = (IF phase = "installed" THEN "restarting" ELSE "saving") /\ flushing' = typed
    /\ UNCHANGED <<phase, previous, update, open, handles, editor, window, faults>>

\* prepareRestart is the flush of the editor.
Restart ==
    /\ CanRestart
    /\ busy' = "saving" /\ flushing' = typed
    /\ UNCHANGED <<phase, previous, update, open, handles, editor, window, faults>>

RestartFailed ==
    /\ busy \in {"saving", "installing", "restarting"}
    /\ phase' = IF phase = "installed" THEN "installed" ELSE "downloaded"
    /\ busy' = "no" /\ Fault
    /\ UNCHANGED <<previous, update, flushing, open, handles, editor, window>>

\* An update that is installed already is only restarted into.
Flushed ==
    /\ busy = "saving"
    /\ Save(flushing)
    /\ IF phase = "installed" THEN busy' = "restarting" /\ UNCHANGED phase
       ELSE busy' = "installing" /\ phase' = "installing"
    /\ UNCHANGED <<previous, update, flushing, open, handles, typed, timer, window, faults>>

Installed ==
    /\ busy = "installing"
    /\ busy' = "restarting" /\ phase' = "installed"
    /\ UNCHANGED <<previous, update, flushing, open, handles, editor, window, faults>>

Relaunched ==
    /\ busy = "restarting"
    /\ ended' = "restarted"
    /\ UNCHANGED <<controller, editor, closing, last, faults>>

-----------------------------------------------------------------------------
(* Editing, and the close of the window.                                   *)

Type ==
    /\ typed < MaxEdits
    /\ typed' = typed + 1 /\ timer' = TRUE
    /\ UNCHANGED <<controller, saved, window, faults>>

Autosave ==
    /\ timer /\ timer' = FALSE
    /\ \/ Save(typed) /\ UNCHANGED faults
       \/ Fault /\ UNCHANGED saved
    /\ UNCHANGED <<controller, typed, window>>

\* A second request while the first one is under way is not held up.
Close ==
    \/ /\ closing = "no"
       /\ closing' = "saving" /\ last' = typed
       /\ UNCHANGED <<controller, editor, ended, faults>>
    \/ /\ closing # "no"
       /\ ended' = "exited"
       /\ UNCHANGED <<controller, editor, closing, last, faults>>

\* Mutant: a failed save keeps the window.
SavedOrStays ==
    /\ closing = "saving"
    /\ \/ Save(last) /\ closing' = "exiting" /\ UNCHANGED faults
       \/ Fault /\ closing' = "no" /\ UNCHANGED saved
    /\ UNCHANGED <<controller, typed, timer, last, ended>>

\* A failed save does not keep the window.
SavedOrNot ==
    /\ closing = "saving" /\ closing' = "exiting"
    /\ \/ Save(last) /\ UNCHANGED faults
       \/ Fault /\ UNCHANGED saved
    /\ UNCHANGED <<controller, typed, timer, last, ended>>

Exit ==
    /\ closing = "exiting"
    /\ \/ ended' = "exited" /\ UNCHANGED <<closing, faults>>
       \/ closing' = "no" /\ Fault /\ UNCHANGED ended
    /\ UNCHANGED <<controller, editor, last>>

Waiting ==
    \/ CheckFailed \/ Checked \/ Downloaded
    \/ RestartFailed \/ Flushed \/ Installed \/ Relaunched
Closing == SavedOrNot \/ Exit

Next ==
    /\ Running
    /\ Check \/ Download \/ Restart \/ Waiting \/ Type \/ Autosave \/ Close \/ Closing

\* What is awaited answers, the timer fires.
Spec ==
    /\ Init /\ [][Next]_vars
    /\ WF_vars(Running /\ Waiting) /\ WF_vars(Running /\ Closing) /\ WF_vars(Running /\ Autosave)

-----------------------------------------------------------------------------

\* The types; and "Core serializes operations, releases superseded update
\* handles" (docs/releases.md): whatever failed before, the one handle that is
\* open is the update that is offered, downloaded or installed.
TypeOK ==
    /\ phase \in {"idle", "checking", "available", "downloading", "downloaded",
                  "installing", "installed"}
    /\ busy \in {"no", "checking", "downloading", "saving", "installing", "restarting"}
    /\ open = {update} \ {NoHandle} /\ update \in 0..handles /\ handles \in 0..MaxHandles
    /\ phase \in {"available", "downloading", "downloaded", "installing", "installed"}
           => update # NoHandle
    /\ flushing \in 0..typed /\ saved \in 0..typed /\ last \in 0..typed
    /\ closing \in {"no", "saving", "exiting"} /\ faults \in 0..MaxFaults

\* "Explicit Restart flushes workspace persistence before
\* installation/relaunch" (docs/releases.md), the relaunch after a failed one
\* included: what was typed before the click is saved by then.
FlushedBeforeRestart ==
    busy \in {"installing", "restarting"} => saved >= flushing

\* A failed final save "does not block native window close"
\* (docs/persistence-architecture.md): whatever became of the save, and however
\* much is typed meanwhile, the exit is asked for.
Saving == Running /\ closing = "saving"
Exiting == closing = "exiting" \/ ~Running
WindowCloses == Saving ~> Exiting
=============================================================================
