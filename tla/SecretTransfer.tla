--------------------------- MODULE SecretTransfer ---------------------------
(***************************************************************************)
(* Packages of secrets: the dialog (secret-transfer.tsx), its commands     *)
(* (platform/tauri/secret-transfer.ts) and what the native side holds for  *)
(* it (transfer/mod.rs).                                                   *)
(*                                                                         *)
(* The native side keeps a chosen package under one name and, unlocked, a  *)
(* preview of it under another; both are given up when they are cancelled, *)
(* used or five minutes old.  A dialog that is left goes on with the       *)
(* command it waits for.                                                   *)
(***************************************************************************)
EXTENDS Naturals

CONSTANTS
    Refs,        \* secrets of the workspace a package has values for
    None,        \* no secret, no value
    MaxDialogs,  \* bound: dialogs opened
    MaxHeld,     \* bound: packages and previews the native side was given
    MaxChanges   \* bound: saves of the user meanwhile

Dialogs == 1..MaxDialogs
Held == 1..MaxHeld
Nothing == 0

VARIABLES
    dialog,    \* the open dialog
    shown,     \* the secret whose value is shown
    asked,     \* the secret whose value was last asked for
    reveals,   \* requests for a value under way
    call,      \* what each dialog waits for
    cancels,   \* names a cancel command is on the way for
    packages,  \* names of chosen packages
    previews,  \* by name: what was read for the preview, and whether it was used
    made,      \* names given
    over,      \* names that are too old
    vault,     \* the secrets of this device
    files,     \* revision of the saved definitions
    changes,
    outcome,   \* of the import of each dialog, as the journal has it
    told       \* history: what the user was told of it

vars == <<dialog, shown, asked, reveals, call, cancels, packages, previews, made, over,
          vault, files, changes, outcome, told>>
native == <<packages, previews, made, over, vault, files, changes, outcome>>

Closed == [n |-> Nothing, mode |-> "import", staged |-> Nothing, preview |-> Nothing,
           selected |-> {}, pending |-> FALSE, expired |-> FALSE]
NoCall == [kind |-> "none", at |-> "asked", id |-> Nothing, refs |-> {}, result |-> "nothing",
           aborted |-> FALSE]
NoPreview == [held |-> FALSE, read |-> [r \in Refs |-> 0], seen |-> [r \in Refs |-> None],
              files |-> 0, used |-> FALSE]

Init ==
    /\ dialog = Closed /\ shown = None /\ asked = None /\ reveals = {}
    /\ call = [d \in Dialogs |-> NoCall]
    /\ cancels = {} /\ packages = {} /\ made = 0 /\ over = {}
    /\ previews = [id \in Held |-> NoPreview]
    /\ vault \in [Refs -> {[value |-> v, revision |-> 0] : v \in {None, "own"}}]
    /\ files = 0 /\ changes = 0
    /\ outcome = [d \in Dialogs |-> "missing"]
    /\ told = [d \in Dialogs |-> "nothing"]

Busy(d) == call[d].kind # "none"
Mounted(d) == dialog.n = d
Missing(p) == {r \in Refs : p.seen[r] = None}
Available == {r \in Refs : vault[r].value # None}

-----------------------------------------------------------------------------
(* The dialog.                                                             *)

Hidden == shown' = None /\ asked' = None

\* Whatever was asked for is not waited for any more.
Superseded == {[q EXCEPT !.late = TRUE] : q \in reveals}
Unasked == Hidden /\ reveals' = Superseded

\* The effect's cleanup, and close before it: what the dialog holds is cancelled;
\* values that arrive later are not shown.
GivenUp(names) ==
    /\ dialog' = Closed /\ Hidden /\ reveals' = {}
    /\ cancels' = cancels \cup (names \ {Nothing})
Closes == GivenUp({dialog.staged, dialog.preview})
Stays == UNCHANGED <<dialog, shown, asked, reveals, cancels>>

\* Secrets are exported after the inventory was read.
Open(mode) ==
    /\ dialog.n = Nothing
    /\ \E d \in Dialogs :
        /\ \A e \in Dialogs : told[e] = "nothing" <=> e >= d
        /\ told' = [told EXCEPT ![d] = "open"]
        /\ dialog' = [Closed EXCEPT !.n = d, !.mode = mode]
        /\ call' = IF mode = "import" THEN call
                   ELSE [call EXCEPT ![d] = [NoCall EXCEPT !.kind = "inspect", !.at = "flushing"]]
    /\ UNCHANGED <<shown, asked, reveals, cancels, native>>

Submitted(kind, at, id, refs) ==
    /\ ~Busy(dialog.n)
    /\ call' = [call EXCEPT ![dialog.n] =
                   [NoCall EXCEPT !.kind = kind, !.at = at, !.id = id, !.refs = refs]]
    /\ Unasked
    /\ UNCHANGED <<cancels, native, told>>

\* submit: choose a package, unlock it, import what is selected of it; or write
\* one.
Choose ==
    /\ dialog.n # Nothing /\ dialog.mode = "import"
    /\ dialog.staged = Nothing /\ dialog.preview = Nothing
    /\ Submitted("select", "flushing", Nothing, {})
    /\ UNCHANGED dialog
Unlock ==
    /\ dialog.staged # Nothing
    /\ Submitted("prepare", "flushing", dialog.staged, {})
    /\ UNCHANGED dialog
Import ==
    /\ dialog.preview # Nothing /\ dialog.selected # {}
    /\ ~dialog.expired /\ ~dialog.pending
    /\ Submitted("commit", "asked", dialog.preview, dialog.selected)
    /\ dialog' = [dialog EXCEPT !.pending = TRUE]
Export ==
    /\ dialog.n # Nothing /\ dialog.mode = "export" /\ dialog.selected # {}
    /\ Submitted("export", "flushing", Nothing, dialog.selected)
    /\ UNCHANGED dialog
CheckOutcome ==
    /\ dialog.n # Nothing /\ dialog.pending
    /\ ~Busy(dialog.n)
    /\ call' = [call EXCEPT ![dialog.n] = [NoCall EXCEPT !.kind = "status"]]
    /\ UNCHANGED <<dialog, shown, asked, reveals, cancels, native, told>>

Toggle(r) ==
    /\ dialog.n # Nothing /\ ~Busy(dialog.n) /\ ~dialog.pending /\ ~dialog.expired
    /\ dialog.preview # Nothing
    /\ dialog' = [dialog EXCEPT !.selected =
                     IF r \in @ THEN @ \ {r} ELSE @ \cup {r}]
    /\ UNCHANGED <<shown, asked, reveals, call, cancels, native, told>>

ChangeFiles ==
    /\ dialog.staged # Nothing /\ ~Busy(dialog.n)
    /\ cancels' = cancels \cup {dialog.staged}
    /\ dialog' = [dialog EXCEPT !.staged = Nothing]
    /\ UNCHANGED <<shown, asked, reveals, call, native, told>>

\* close: not while the outcome of an import is unknown; what is under way
\* before there is a preview is aborted, and closes the dialog when it ends.
Close ==
    /\ dialog.n # Nothing /\ ~dialog.pending
    /\ IF Busy(dialog.n) /\ call[dialog.n].kind # "inspect"
       THEN /\ dialog.preview = Nothing
            /\ call' = [call EXCEPT ![dialog.n].aborted = TRUE]
            /\ UNCHANGED <<dialog, shown, asked, reveals, cancels>>
       ELSE Closes /\ UNCHANGED call
    /\ UNCHANGED <<native, told>>

\* The settings are left, in the middle of whatever it is.
Leave ==
    /\ dialog.n # Nothing
    /\ call' = [call EXCEPT ![dialog.n].aborted = Busy(dialog.n)]
    /\ Closes
    /\ UNCHANGED <<native, told>>

\* The timer of the preview.
Expire ==
    /\ dialog.preview \in over /\ ~dialog.expired
    /\ dialog' = [dialog EXCEPT !.expired = TRUE]
    /\ Unasked
    /\ UNCHANGED <<call, cancels, native, told>>

\* revealSaved, revealIncoming: the eye shows a value, or hides the one shown.
\* Bound: one request overtaken at a time.
Reveal(r) ==
    /\ dialog.n # Nothing
    /\ ~Busy(dialog.n) /\ ~dialog.pending /\ ~dialog.expired
    /\ dialog.mode = "import" => dialog.preview # Nothing
    /\ dialog.mode = "export" => dialog.selected # {} /\ r \in Available
    /\ \A q \in reveals : ~q.late
    /\ IF shown = r THEN Unasked
       ELSE /\ shown' = None /\ asked' = r
            /\ reveals' = Superseded \cup {[n |-> dialog.n, ref |-> r, late |-> FALSE]}
    /\ UNCHANGED <<dialog, call, cancels, native, told>>

\* Mutant: an answer is shown whenever it comes.
AskedSometime(q) == Mounted(q.n)
AskedLast(q) == Mounted(q.n) /\ ~q.late

\* A saved value is read from the vault; an incoming one only from a preview
\* that is neither used nor too old.
Readable(q) ==
    IF dialog.mode = "export" THEN q.ref \in Available
    ELSE dialog.preview # Nothing
         /\ previews[dialog.preview].held /\ ~previews[dialog.preview].used
         /\ dialog.preview \notin over
Revealed(q) ==
    /\ q \in reveals
    /\ reveals' = reveals \ {q}
    /\ shown' = IF AskedLast(q) /\ Readable(q) THEN q.ref ELSE shown
    /\ UNCHANGED <<dialog, asked, call, cancels, native, told>>

-----------------------------------------------------------------------------
(* The commands.                                                           *)

\* What was typed is saved first.
Flush(d) ==
    /\ Busy(d) /\ call[d].at = "flushing"
    /\ \/ /\ ~call[d].aborted
          /\ call' = [call EXCEPT ![d].at = "asked"]
          /\ Stays
       \/ /\ call' = [call EXCEPT ![d] = NoCall]
          /\ IF call[d].aborted /\ Mounted(d) THEN Closes ELSE Stays
    /\ UNCHANGED <<native, told>>

Answers(d, result, id) ==
    /\ call[d].at = "asked"
    /\ call' = [call EXCEPT ![d].at = "answered", ![d].result = result, ![d].id = id]
    /\ UNCHANGED <<dialog, shown, asked, reveals, cancels, told>>

\* A command fails, or sees that it was told to stop.
NoAnswer(d, kinds) ==
    /\ call[d].kind \in kinds
    /\ \/ Answers(d, "failed", Nothing)
       \/ /\ call[d].aborted /\ call[d].kind \in {"select", "prepare", "export"}
          /\ Answers(d, "nothing", Nothing)
    /\ UNCHANGED native

\* SelectImportFile: the user picks a file or none.
Pick(d) ==
    /\ call[d].kind = "select" /\ made < MaxHeld
    /\ \/ /\ Answers(d, "given", made + 1)
          /\ made' = made + 1 /\ packages' = packages \cup {made'}
       \/ Answers(d, "nothing", Nothing) /\ UNCHANGED <<packages, made>>
    /\ UNCHANGED <<previews, over, vault, files, changes, outcome>>

\* PrepareImport: the package is opened, and what its values would replace read.
Prepare(d) ==
    LET id == call[d].id IN
    /\ call[d].kind = "prepare" /\ call[d].at = "asked" /\ made < MaxHeld
    /\ IF id \notin packages
       THEN Answers(d, "expired", Nothing) /\ UNCHANGED <<packages, made, previews>>
       ELSE /\ Answers(d, "given", made + 1)
            /\ made' = made + 1 /\ packages' = packages \ {id}
            /\ previews' = [previews EXCEPT ![made'] =
                   [held |-> TRUE, read |-> [r \in Refs |-> vault[r].revision],
                    seen |-> [r \in Refs |-> vault[r].value], files |-> files, used |-> FALSE]]
    /\ UNCHANGED <<over, vault, files, changes, outcome>>

\* Mutant: the secrets are replaced whatever they have become.
UnchangedFiles(p, refs) == p.files = files

\* The saved definitions and the secrets are as they were for the preview.
AsPrepared(p, refs) == p.files = files /\ \A r \in refs : vault[r].revision = p.read[r]

\* CommitImport: the answer may be lost, and a commit that needs recovery has or
\* has not happened.
Commit(d) ==
    LET id == call[d].id
        p == previews[id]
        imported == [r \in Refs |->
            IF r \in call[d].refs
            THEN [value |-> "incoming", revision |-> vault[r].revision + 1] ELSE vault[r]] IN
    /\ call[d].kind = "commit" /\ call[d].at = "asked"
    /\ p.held /\ ~p.used /\ AsPrepared(p, call[d].refs)
    /\ \/ /\ \E result \in {"given", "failed"} : Answers(d, result, id)
          /\ vault' = imported /\ outcome' = [outcome EXCEPT ![d] = "committed"]
       \/ /\ Answers(d, "recovery", id)
          /\ vault' \in {vault, imported}
          /\ outcome' = [outcome EXCEPT ![d] = "recovery"]
    /\ previews' = [previews EXCEPT ![id].used = TRUE]
    /\ UNCHANGED <<packages, made, over, files, changes>>

\* secure_operation_status.
Status(d) ==
    /\ call[d].kind = "status"
    /\ Answers(d, CASE outcome[d] = "committed" -> "given"
                    [] outcome[d] = "recovery" -> "recovery"
                    [] OTHER -> "nothing", Nothing)
    /\ UNCHANGED native

\* Inventory and ExportSelected, which is refused without all its values.
Read(d) ==
    /\ \/ call[d].kind = "inspect"
       \/ call[d].kind = "export" /\ call[d].refs \subseteq Available
    /\ Answers(d, "given", Nothing)
    /\ UNCHANGED native

\* cancel: what was used stays to answer for it.
Cancelled(id) ==
    /\ id \in cancels
    /\ cancels' = cancels \ {id}
    /\ packages' = packages \ {id}
    /\ previews' = [previews EXCEPT ![id] = IF @.used THEN @ ELSE NoPreview]
    /\ UNCHANGED <<dialog, shown, asked, reveals, call, made, over, vault, files, changes,
                   outcome, told>>

TimeOver(id) ==
    /\ id <= made /\ id \notin over
    /\ over' = over \cup {id}
    /\ packages' = packages \ {id}
    /\ previews' = [previews EXCEPT ![id] = NoPreview]
    /\ UNCHANGED <<dialog, shown, asked, reveals, call, cancels, made, vault, files, changes,
                   outcome, told>>

\* A save of the user or a commit elsewhere.
Save(r) ==
    /\ changes < MaxChanges
    /\ changes' = changes + 1
    /\ \/ vault' = [vault EXCEPT ![r] = [value |-> "own", revision |-> @.revision + 1]]
          /\ UNCHANGED files
       \/ files' = files + 1 /\ UNCHANGED vault
    /\ UNCHANGED <<dialog, shown, asked, reveals, call, cancels, packages, previews, made, over,
                   outcome, told>>

-----------------------------------------------------------------------------
(* The answers, in the dialog that asked or without it.                    *)

\* Mutant: a package that came too late stays where it is.
Unwanted(d) == {}

\* prepare, selectImportFile: what an aborted command was given is cancelled.
Returned(d) == IF call[d].aborted /\ call[d].result = "given" THEN {call[d].id} ELSE {}

Ends(d) == call' = [call EXCEPT ![d] = NoCall]

\* Nothing was given, or what was given came too late: the dialog closes.
NothingGiven(d) ==
    /\ (call[d].result = "nothing" \/ (call[d].aborted /\ call[d].result = "given"))
    /\ IF Mounted(d)
       THEN GivenUp({dialog.staged, dialog.preview} \cup Returned(d))
       ELSE cancels' = cancels \cup Returned(d) /\ UNCHANGED <<dialog, shown, asked, reveals>>
    /\ UNCHANGED told
Given(d) ==
    /\ call[d].result = "given" /\ ~call[d].aborted
    /\ dialog' = IF call[d].kind = "select" THEN [dialog EXCEPT !.staged = call[d].id]
                 ELSE [dialog EXCEPT !.staged = Nothing, !.preview = call[d].id,
                                     !.selected = Missing(previews[call[d].id])]
    /\ UNCHANGED <<shown, asked, reveals, cancels, told>>
Failed(d) ==
    /\ call[d].result \in {"failed", "expired"}
    /\ dialog' = IF Mounted(d) /\ call[d].result = "expired"
                 THEN [dialog EXCEPT !.staged = Nothing] ELSE dialog
    /\ UNCHANGED <<shown, asked, reveals, cancels, told>>

\* Mutant: what can not be confirmed is taken for a failure.
NotImported(d) == call[d].result \in {"nothing", "failed"}

\* An import that did not happen, or needs recovery, is not begun again from
\* this preview; one whose outcome is not known stays pending.
NotCommitted(d) == call[d].result = "nothing"
Outcome(d) ==
    \/ /\ call[d].result = "given"
       /\ told' = [told EXCEPT ![d] = "imported"]
       /\ IF Mounted(d) THEN GivenUp({}) ELSE Stays
    \/ /\ NotCommitted(d) \/ call[d].result = "recovery"
       /\ told' = [told EXCEPT ![d] = IF NotCommitted(d) THEN "not imported" ELSE "recovery"]
       /\ dialog' = IF Mounted(d) THEN [dialog EXCEPT !.pending = FALSE, !.expired = TRUE]
                    ELSE dialog
       /\ UNCHANGED <<shown, asked, reveals, cancels>>
    \/ call[d].result = "failed" /\ ~NotCommitted(d) /\ Stays /\ UNCHANGED told

Written(d) ==
    /\ IF Mounted(d) /\ call[d].kind = "export" /\ call[d].result # "failed" THEN Closes
       ELSE /\ dialog' = IF Mounted(d) /\ call[d].kind = "inspect" /\ call[d].result = "given"
                         THEN [dialog EXCEPT !.selected = Available] ELSE dialog
            /\ UNCHANGED <<shown, asked, reveals, cancels>>
    /\ UNCHANGED told

Answered(d) ==
    /\ Busy(d) /\ call[d].at = "answered"
    /\ CASE call[d].kind \in {"select", "prepare"} -> NothingGiven(d) \/ Given(d) \/ Failed(d)
         [] call[d].kind \in {"commit", "status"} -> Outcome(d)
         [] OTHER -> Written(d)
    /\ Ends(d)
    /\ UNCHANGED native

-----------------------------------------------------------------------------

Progress(d) ==
    \/ Flush(d) \/ Prepare(d) \/ Commit(d) \/ Status(d) \/ Read(d) \/ Answered(d)
    \/ NoAnswer(d, {"inspect", "prepare", "commit", "status", "export"})

Next ==
    \/ Open("import") \/ Open("export")
    \/ Choose \/ Unlock \/ Import \/ Export \/ CheckOutcome
    \/ ChangeFiles \/ Close \/ Leave \/ Expire
    \/ \E r \in Refs : Toggle(r) \/ Reveal(r) \/ Save(r)
    \/ \E q \in reveals : Revealed(q)
    \/ \E d \in Dialogs : Progress(d) \/ Pick(d) \/ NoAnswer(d, {"select"})
    \/ \E id \in Held : Cancelled(id) \/ TimeOver(id)

\* Commands are answered; that the user picks a file is not assumed.
Spec == Init /\ [][Next]_vars /\ \A d \in Dialogs : WF_vars(Progress(d))

-----------------------------------------------------------------------------

\* Types, and that a dialog has a package, a preview of it, or neither.
TypeOK ==
    /\ dialog.n \in 0..MaxDialogs /\ dialog.mode \in {"import", "export"}
    /\ dialog.staged \in 0..made /\ dialog.preview \in 0..made
    /\ dialog.staged = Nothing \/ dialog.preview = Nothing
    /\ dialog.selected \subseteq Refs
    /\ shown \in Refs \cup {None} /\ asked \in Refs \cup {None}
    /\ \A d \in Dialogs : call[d].at \in {"flushing", "asked", "answered"}
    /\ cancels \cup packages \cup over \subseteq 1..made
    /\ made \in 0..MaxHeld /\ changes \in 0..MaxChanges
    /\ \A r \in Refs : vault[r].value \in {None, "own", "incoming"}
    /\ \A d \in Dialogs : told[d] \in {"nothing", "open", "imported", "not imported", "recovery"}

\* Whatever the native side holds, package or preview, the dialog that is open
\* knows, an answer names or a cancel is on the way for (docs/secret-transfer-and-
\* recovery.md: "closing the dialog, cancelling the selection, ... releases").
HeldIsKnown ==
    \A id \in Held :
        (id \in packages \/ (previews[id].held /\ ~previews[id].used)) =>
            \/ id \in {dialog.staged, dialog.preview} \cup cancels
            \/ \E d \in Dialogs : call[d].at = "answered" /\ call[d].id = id

\* "An unknown result is never described as a rollback": what the user was told
\* of an import is what became of it, and stays so.
ToldAsItIs ==
    \A d \in Dialogs :
        /\ told[d] = "imported" => outcome[d] = "committed"
        /\ told[d] = "not imported" => outcome[d] = "missing"

\* The value shown is the one asked for last, of a dialog that has neither
\* expired nor begun to import it.
ShownIsAsked ==
    shown # None =>
        /\ shown = asked /\ dialog.n # Nothing
        /\ ~dialog.expired /\ ~dialog.pending /\ ~Busy(dialog.n)

\* An import replaces what the user saw it would replace: no value saved since
\* the preview was read is lost.
ReplacesWhatWasSeen ==
    \A d \in Dialogs : outcome'[d] # outcome[d] =>
        \A r \in Refs : vault'[r] # vault[r] =>
            /\ r \in call[d].refs
            /\ previews[call[d].id].seen[r] = vault[r].value

\* A command other than the choice of a file ends.
Working == \E d \in Dialogs : Busy(d) /\ call[d].kind # "select"
CommandsEnd == Working ~> ~Working
=============================================================================
