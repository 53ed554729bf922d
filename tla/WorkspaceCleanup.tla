-------------------------- MODULE WorkspaceCleanup --------------------------
(***************************************************************************)
(* Deleting a managed workspace (persistence/workspace_cleanup.rs).        *)
(*                                                                         *)
(* One transaction removes the workspace's rows and records a cleanup      *)
(* intent with the hashes of its files.  The directory then goes in        *)
(* separate steps, each of which may fail or be the last one before the    *)
(* process ends: compare, rename to a quarantine beside it, record the     *)
(* quarantine, compare again, remove file by file, forget the intent.      *)
(* Startup retries every recorded intent.  Other programs keep working in  *)
(* the directory by its path all along, and the user may want to use the   *)
(* same identifier and path again.                                         *)
(*                                                                         *)
(* Native commands hold the storage lock from beginning to end, so one     *)
(* step counter stands for all of them.                                    *)
(***************************************************************************)
EXTENDS Naturals

CONSTANTS
    Names,        \* files of the project directory
    Contents,     \* contents of a file
    Missing,      \* a file that is not there
    NoDir,        \* a directory that is not there
    NoIntent,     \* no cleanup is recorded
    MaxExternal,  \* bound: changes other programs make
    MaxFaults,    \* bound: file system and database failures
    MaxCrashes,   \* bound: ends of the process
    MaxUses       \* bound: times the identifier is registered

Directories == [Names -> Contents \cup {Missing}]
Intents == [entries : Directories, quarantined : BOOLEAN]


VARIABLES
    registered,   \* the workspaces table has the row
    intent,       \* the row of workspace_cleanup
    source,       \* the managed directory
    quarantine,   \* its .deleted-<operation> sibling
    pc,           \* where the native command stands
    taken,        \* the directory as hashed before the transaction
    externals, faults, crashes, uses,
    moved         \* history: the directory was quarantined in this deletion

disk == <<source, quarantine>>
bounds == <<externals, faults, crashes, uses>>
vars == <<registered, intent, disk, pc, taken, bounds, moved>>

-----------------------------------------------------------------------------
(* Deleting.                                                               *)

\* Hash the directory, if it exists and no earlier intent does.
BeginDelete ==
    /\ pc = "idle" /\ registered
    /\ taken' = source
    /\ pc' = "commit"
    /\ UNCHANGED <<registered, intent, disk, bounds, moved>>

\* delete_workspace_with_receipt.
CommitDelete ==
    /\ pc = "commit"
    /\ registered' = FALSE
    /\ intent' = IF intent # NoIntent \/ taken = NoDir THEN intent
                 ELSE [entries |-> taken, quarantined |-> FALSE]
    /\ pc' = IF intent' = NoIntent THEN "idle" ELSE "compare"
    /\ taken' = NoDir
    /\ moved' = FALSE
    /\ UNCHANGED <<disk, bounds>>

-----------------------------------------------------------------------------
(* Cleaning up.                                                            *)

\* Mutant: what is no longer as recorded goes as well.
UnchangedOrNot(dir) == dir \in Directories

\* unchanged_remaining: files may be gone, none may be new or different.
UnchangedRemaining(dir) ==
    \A n \in Names : dir[n] # Missing => dir[n] = intent.entries[n]

ToBeMoved == quarantine = NoDir /\ source # NoDir

Compare ==
    /\ pc = "compare"
    /\ pc' = IF intent.quarantined THEN "verify"
             ELSE IF ~ToBeMoved THEN "record"
             ELSE IF UnchangedRemaining(source) THEN "rename" ELSE "idle"
    /\ UNCHANGED <<registered, intent, disk, taken, bounds, moved>>

\* The rename takes whatever is at the path by now; with nothing there it
\* fails.
Rename ==
    /\ pc = "rename"
    /\ IF source = NoDir
       THEN pc' = "idle" /\ UNCHANGED <<disk, moved>>
       ELSE /\ pc' = "record"
            /\ quarantine' = source
            /\ source' = NoDir
            /\ moved' = TRUE
    /\ UNCHANGED <<registered, intent, taken, bounds>>

RecordQuarantine ==
    /\ pc = "record"
    /\ intent' = [intent EXCEPT !.quarantined = TRUE]
    /\ pc' = "verify"
    /\ UNCHANGED <<registered, disk, taken, bounds, moved>>

Verify ==
    /\ pc = "verify"
    /\ pc' = IF quarantine = NoDir THEN "finish"
             ELSE IF UnchangedRemaining(quarantine) THEN "remove" ELSE "idle"
    /\ UNCHANGED <<registered, intent, disk, taken, bounds, moved>>

\* remove_dir_all, one file at a time and the directory last.
RemoveFile ==
    /\ pc = "remove"
    /\ \E n \in Names : /\ quarantine[n] # Missing
                        /\ quarantine' = [quarantine EXCEPT ![n] = Missing]
    /\ UNCHANGED <<registered, intent, source, pc, taken, bounds, moved>>

RemoveDirectory ==
    /\ pc = "remove"
    /\ \A n \in Names : quarantine[n] = Missing
    /\ quarantine' = NoDir
    /\ pc' = "finish"
    /\ UNCHANGED <<registered, intent, source, taken, bounds, moved>>

FinishCleanup ==
    /\ pc = "finish"
    /\ intent' = NoIntent
    /\ pc' = "idle"
    /\ UNCHANGED <<registered, disk, taken, bounds, moved>>

\* Any step may fail instead: the command ends, an intent stays recorded.
Fail ==
    /\ pc \notin {"idle", "down"} /\ faults < MaxFaults
    /\ faults' = faults + 1
    /\ pc' = "idle"
    /\ taken' = NoDir
    /\ UNCHANGED <<registered, intent, disk, externals, crashes, uses, moved>>

-----------------------------------------------------------------------------
(* The process, the user and other programs.                               *)

Crash ==
    /\ pc # "down" /\ crashes < MaxCrashes
    /\ crashes' = crashes + 1
    /\ pc' = "down"
    /\ taken' = NoDir
    /\ UNCHANGED <<registered, intent, disk, externals, faults, uses, moved>>

\* "Retry / Unlock" drops the runtime and opens it again, like a restart.
Reopen ==
    /\ pc = "idle" /\ intent # NoIntent
    /\ pc' = "down"
    /\ UNCHANGED <<registered, intent, disk, taken, bounds, moved>>

\* retry returns at once when nothing is recorded.
Retry == IF intent = NoIntent THEN "idle" ELSE "compare"

\* Opening the runtime retries the recorded intent.  The directories of
\* registered workspaces are made if they are missing.
Startup ==
    /\ pc = "down"
    /\ pc' = Retry
    /\ source' = IF registered /\ source = NoDir
                 THEN [n \in Names |-> Missing] ELSE source
    /\ UNCHANGED <<registered, intent, quarantine, taken, bounds, moved>>

\* Mutant: a pending cleanup does not reserve its workspace and path.
AvailableAlways == TRUE

\* ensure_available, for the workspace itself or for another one whose
\* directory would be this path.
Available == intent = NoIntent

\* A save or an opened folder registers the identifier and the path again.
Register ==
    /\ pc = "idle" /\ ~registered /\ uses < MaxUses
    /\ Available
    /\ uses' = uses + 1
    /\ registered' = TRUE
    /\ source' \in IF source = NoDir THEN Directories ELSE {source}
    /\ moved' = FALSE
    /\ UNCHANGED <<intent, quarantine, pc, taken, externals, faults, crashes>>

External ==
    /\ externals < MaxExternal
    /\ externals' = externals + 1
    /\ UNCHANGED <<registered, intent, quarantine, pc, taken, faults, crashes,
                   uses, moved>>

ExternalEdit ==
    /\ External /\ source # NoDir
    /\ \E n \in Names, c \in Contents \cup {Missing} :
           c # source[n] /\ source' = [source EXCEPT ![n] = c]

ExternalRemove ==
    /\ External /\ source # NoDir
    /\ source' = NoDir

ExternalCreate ==
    /\ External /\ source = NoDir
    /\ source' \in Directories

-----------------------------------------------------------------------------

Init ==
    /\ registered = TRUE /\ intent = NoIntent
    /\ source \in Directories /\ quarantine = NoDir
    /\ pc = "idle" /\ taken = NoDir
    /\ externals = 0 /\ faults = 0 /\ crashes = 0 /\ uses = 0
    /\ moved = FALSE

Step ==
    \/ CommitDelete \/ Compare \/ Rename \/ RecordQuarantine \/ Verify
    \/ RemoveFile \/ RemoveDirectory \/ FinishCleanup

Next ==
    \/ BeginDelete \/ Step \/ Fail \/ Crash \/ Reopen \/ Startup \/ Register
    \/ ExternalEdit \/ ExternalRemove \/ ExternalCreate

Spec == Init /\ [][Next]_vars

\* Native steps end, and the application is opened again now and then.
FairSpec ==
    Spec /\ WF_vars(Step) /\ WF_vars(Startup) /\ WF_vars(Reopen)

-----------------------------------------------------------------------------
(* What deleting a workspace must guarantee about the user's files.        *)

\* Type invariant of WorkspaceCleanup; inside the cleanup an intent is
\* recorded, and files are removed only from a quarantine.
TypeOK ==
    /\ registered \in BOOLEAN
    /\ intent \in Intents \cup {NoIntent}
    /\ source \in Directories \cup {NoDir}
    /\ quarantine \in Directories \cup {NoDir}
    /\ pc \in {"idle", "down", "commit", "compare", "rename", "record",
               "verify", "remove", "finish"}
    /\ pc \in {"compare", "rename", "record", "verify", "remove", "finish"} =>
           intent # NoIntent
    /\ pc = "remove" => intent.quarantined /\ quarantine # NoDir
    /\ taken \in Directories \cup {NoDir}
    /\ externals \in 0..MaxExternal /\ faults \in 0..MaxFaults
    /\ crashes \in 0..MaxCrashes /\ uses \in 0..MaxUses
    /\ moved \in BOOLEAN

\* "Directory cleanup then quarantines unchanged files"
\* (docs/persistence-architecture.md): a file is removed only with the
\* content it had when the deletion was asked for, although other programs
\* may write between every two steps, the comparison and the rename included.
RemovesOnlyRecorded ==
    [][\A n \in Names :
        (pc = "remove" /\ quarantine[n] # Missing
            /\ (quarantine' = NoDir \/ quarantine'[n] = Missing))
        => quarantine[n] = intent.entries[n]]_vars

\* "A recreated source directory is never touched after quarantine exists"
\* (workspace_cleanup.rs), through failures, crashes and retries.  Until then
\* a retry takes whatever unchanged files it finds at the path.
QuarantinedOnce ==
    [][moved /\ source # NoDir /\ ~registered /\ externals' = externals =>
        source' = source]_vars

\* "Pending cleanup reserves its workspace ID/path"
\* (docs/persistence-architecture.md): a workspace in use is never one whose
\* directory a retry would still take away.
PendingIsReserved == registered => intent = NoIntent

\* Whatever is not part of what was deleted is left where it is.
CleanupKeepsOthers == []PendingIsReserved /\ RemovesOnlyRecorded /\ QuarantinedOnce

\* A recorded cleanup is finished unless the directory, or what of it is in
\* quarantine, is no longer what was recorded.
Resolved ==
    \/ intent = NoIntent
    \/ quarantine # NoDir /\ ~UnchangedRemaining(quarantine)
    \/ ~intent.quarantined /\ source # NoDir /\ ~UnchangedRemaining(source)

CleanupEnds == []<>Resolved
=============================================================================
