---------------------------- MODULE ProjectFiles ----------------------------
(***************************************************************************)
(* The directory of a workspace and the tree the editor shows              *)
(* (workspace-persistence.ts, project-projection.ts, domain/project.ts).   *)
(*                                                                         *)
(* Below documents/ the directories are the folders: a marker file keeps a *)
(* folder's identity, and a request belongs to the folder whose directory  *)
(* it is found in.  Reading gives directories without a marker an identity *)
(* of their own and writing puts every file where its folder now is, so    *)
(* the two have to be each other's inverse, whatever the user moves in the *)
(* editor and other programs move in the directory.  Unsaved edits are     *)
(* rows of the local store, tied to the definition they were made from.    *)
(*                                                                         *)
(* Reading, saving and reloading are single steps here: WorkspaceSession   *)
(* interleaves them with typing.  A definition stands for the canonical    *)
(* bytes of its file.  Other kinds of resources keep their paths and are   *)
(* left out, and so are documents that were never saved.                   *)
(***************************************************************************)
EXTENDS Naturals, Sequences, SequencesExt, Functions

CONSTANTS
    Folders,       \* identifiers of folders
    Generated,     \* those of directories that had none
    Requests,      \* identifiers of saved requests
    Names,         \* names a folder may be given
    Hidden,        \* the names no directory can have
    Texts,         \* what a request's definition may say
    Layouts,       \* directories the program may be started on
    Elsewhere,     \* paths other programs move or write files to
    MaxEdits, MaxExternal, MaxStarts

VARIABLES
    folders,   \* Workspace.extraResources: the folders of the editor
    saved,     \* the saved definitions of the editor's requests
    drafts,    \* working copies with edits, each with its base definition
    status,    \* protectedState of the workspace in this session
    loaded,    \* WorkspacePersistence.projects holds the workspace
    project,   \* that definition, the baseline of merges
    snapshot,  \* WorkspacePersistence.snapshots: files last seen
    cache,     \* the adapter's files, which a commit answers with
    paths,     \* WorkspacePersistence.paths: where each resource was found
    rows,      \* the drafts of the local store
    disk,      \* the project directory
    settled,   \* history: requests whose draft the user saved or gave up
    edits, externals, starts

tree == <<folders, saved, drafts>>
session == <<status, loaded, project, snapshot, cache, paths>>
bounds == <<edits, externals, starts>>
vars == <<tree, session, rows, disk, settled, bounds>>

Root == "no folder"
Marker == ".purr-folder.yaml"
Empty == <<>>
At(base, dir, file) == [base |-> base, dir |-> dir, file |-> file]

\* A file: the resource it defines, and for a folder its name, for a request
\* what it says.  Both write down the folder they are in.
File(id, name, parent, text) ==
    [id |-> id, name |-> name, parent |-> parent, text |-> text, broken |-> FALSE]
FolderFile(id, row) == File(id, row.name, row.parent, 0)
RequestFile(id, row) == File(id, Marker, row.parent, row.text)

\* The row of a partial function as a set, empty when there is none.
Row(f, x) == {f[y] : y \in {x} \cap DOMAIN f}
Only(f, S) == Restrict(f, S \cap DOMAIN f)
Set(f, x, v) == (x :> v) @@ f

-----------------------------------------------------------------------------
(* Names and directories.                                                  *)

\* folderDirectoryName: a name no directory may have becomes "folder".
DirectoryName(name) == IF name \in Hidden THEN "folder" ELSE name

\* documentDirectory: the directories on the way to a folder.
Directory(fs) ==
    LET D[f \in Folders \cup {Root}] ==
          IF f \notin DOMAIN fs THEN Empty
          ELSE Append(D[fs[f].parent], DirectoryName(fs[f].name))
    IN  D

\* validateProject: parents exist and there is no cycle.
ValidTree(fs, rs) ==
    /\ \A f \in DOMAIN fs : fs[f].parent \in DOMAIN fs \cup {Root}
    /\ \A r \in DOMAIN rs : rs[r].parent \in DOMAIN fs \cup {Root}
    /\ \A S \in SUBSET DOMAIN fs : (\A f \in S : fs[f].parent \in S) => S = {}

-----------------------------------------------------------------------------
(* Reading a directory.                                                    *)

Defines(files, S) == {p \in DOMAIN files : files[p].id \in S}
PathOf(files, id) == CHOOSE p \in DOMAIN files : files[p].id = id
Found(files) == [id \in {files[p].id : p \in DOMAIN files} |-> PathOf(files, id)]

\* The directory each folder stands for: that of its marker, or for a folder
\* defined elsewhere the one its name would give it.
Home(files) ==
    LET at == Found(files)
        H[f \in Folders \cup {Root}] ==
          IF f \notin DOMAIN at THEN Empty
          ELSE IF at[f].base = "documents" /\ at[f].file = Marker THEN at[f].dir
          ELSE Append(H[files[at[f]].parent], DirectoryName(files[at[f]].name))
    IN  Only(H, DOMAIN at)

\* The directories that hold requests, with those above them.
Inhabited(files) ==
    UNION {Prefixes(p.dir) : p \in Defines(files, Requests)} \ {Empty}

\* ensureDirectory and generatedFolderId: who owns each directory; one without
\* a marker is given an identifier nothing else has.
Owners(files) ==
    LET home == Home(files)
        wild == Inhabited(files) \ Range(home)
        fresh == CHOOSE g \in [wild -> Generated \ DOMAIN home] : IsInjective(g)
    IN  [d \in wild \cup Range(home) |->
           IF d \in wild THEN fresh[d] ELSE CHOOSE f \in DOMAIN home : home[f] = d]

\* Mutant: a folder keeps the name and the parent its marker was written with.
ReadFoldersAsWritten(files) ==
    LET owner == Owners(files)
        at == Found(files)
    IN  [f \in Range(owner) |->
           IF f \in DOMAIN at
           THEN [name |-> files[at[f]].name, parent |-> files[at[f]].parent]
           ELSE LET d == CHOOSE e \in DOMAIN owner : owner[e] = f
                IN  [name |-> Last(d),
                     parent |-> IF Len(d) = 1 THEN Root ELSE owner[Front(d)]]]

\* A directory with requests says where its folder is and what it is called; a
\* folder without any is what its marker says.
ReadFolders(files) ==
    LET owner == Owners(files)
        at == Found(files)
        inhabited == Inhabited(files)
    IN  [f \in Range(owner) |->
           LET d == CHOOSE e \in DOMAIN owner : owner[e] = f
           IN  IF d \in inhabited
               THEN [name |-> Last(d),
                     parent |-> IF Len(d) = 1 THEN Root ELSE owner[Front(d)]]
               ELSE [name |-> files[at[f]].name, parent |-> files[at[f]].parent]]

ReadRequests(files) ==
    LET owner == Owners(files)
        at == Found(files)
    IN  [r \in DOMAIN at \cap Requests |->
           [parent |-> IF at[r].dir = Empty THEN Root ELSE owner[at[r].dir],
            text |-> files[at[r]].text]]

\* readProject: refuses files it cannot decode, an identifier that is there
\* twice, and a tree that is none.
Readable(files) ==
    /\ \A p \in DOMAIN files : ~files[p].broken
    /\ \A p, q \in DOMAIN files : files[p].id = files[q].id => p = q
    /\ ValidTree(ReadFolders(files), ReadRequests(files))

ReadProject(files) ==
    [folders |-> ReadFolders(files), saved |-> ReadRequests(files)]

-----------------------------------------------------------------------------
(* Writing it.                                                             *)

\* Mutant: a request stays at the path it was found at.
TargetKept(fs, rs, names, id) ==
    IF id \in Folders THEN At("documents", Directory(fs)[id], Marker)
    ELSE IF id \in DOMAIN names THEN [names[id] EXCEPT !.base = "documents"]
    ELSE At("documents", Directory(fs)[rs[id].parent], id)

\* Where a resource goes: a marker into its folder's directory, a request
\* into its folder's directory under the file name it has.
Target(fs, rs, names, id) ==
    IF id \in Folders
    THEN At("documents", Directory(fs)[id], Marker)
    ELSE At("documents", Directory(fs)[rs[id].parent],
            IF id \in DOMAIN names THEN names[id].file ELSE id)

Content(fs, rs, id) ==
    IF id \in Folders THEN FolderFile(id, fs[id]) ELSE RequestFile(id, rs[id])

Places(fs, rs, names) ==
    [id \in DOMAIN fs \cup DOMAIN rs |-> Target(fs, rs, names, id)]

\* Of resources with the same path the last one in the user's order stays.
Desired(fs, rs, names) ==
    LET at == Places(fs, rs, names)
        owner(p, last) == IF at[last] = p THEN last ELSE CHOOSE id \in DOMAIN at : at[id] = p
    IN  {[p \in Range(at) |-> Content(fs, rs, owner(p, last))] : last \in DOMAIN at}

Changed(files, seen) ==
    {p \in DOMAIN files \cup DOMAIN seen : Row(files, p) # Row(seen, p)}

\* A change set over some files.
Applied(files, wanted, changed) ==
    Only(wanted, changed) @@ Only(files, DOMAIN files \ changed)

\* persistPrepared and the commit it asks for: every file it changes must
\* still be what the session has seen, or nothing happens at all.
Persist(fs, rs, ds, seen, known, names) ==
    /\ ValidTree(fs, rs)
    /\ \E wanted \in Desired(fs, rs, names) :
         LET changed == Changed(wanted, seen)
         IN  /\ \A p \in changed : Row(disk, p) = Row(seen, p)
             /\ disk' = Applied(disk, wanted, changed)
             /\ snapshot' = Applied(known, wanted, changed)
             /\ cache' = Applied(known, wanted, changed)
    /\ project' = [folders |-> fs, saved |-> rs]
    /\ paths' = Places(fs, rs, names) @@ names
    /\ rows' = ds

Save ==
    /\ status = "available" /\ loaded
    /\ Persist(folders, saved, drafts, snapshot, cache, paths)
    /\ UNCHANGED <<tree, status, loaded, settled, bounds>>

-----------------------------------------------------------------------------
(* Opening the workspace.                                                  *)

\* restoreWorkspace: an edited copy is refused when its definition says
\* something else than the one it was made from; where it is does not matter.
Outdated(ds, rs) ==
    \E r \in DOMAIN ds \cap DOMAIN rs : ds[r].base # rs[r].text

\* load(), for files that cannot be read: an empty workspace, not saved.
StartUnreadable ==
    /\ ~Readable(disk)
    /\ folders' = Empty /\ saved' = Empty /\ drafts' = Empty
    /\ status' = "unreadable" /\ loaded' = FALSE
    /\ project' = [folders |-> Empty, saved |-> Empty]
    /\ snapshot' = disk /\ cache' = disk /\ paths' = Empty
    /\ UNCHANGED <<rows, disk>>

\* For edits of another definition: the definitions alone, not saved.
StartOutdated ==
    /\ Readable(disk) /\ Outdated(rows, ReadRequests(disk))
    /\ folders' = ReadFolders(disk) /\ saved' = ReadRequests(disk) /\ drafts' = Empty
    /\ status' = "corrupt" /\ loaded' = TRUE
    /\ project' = ReadProject(disk)
    /\ snapshot' = disk /\ cache' = disk /\ paths' = Found(disk)
    /\ UNCHANGED <<rows, disk>>

\* And as it should be, with the save that ends every load.
StartComplete ==
    /\ Readable(disk) /\ ~Outdated(rows, ReadRequests(disk))
    /\ folders' = ReadFolders(disk) /\ saved' = ReadRequests(disk)
    /\ drafts' = Only(rows, DOMAIN saved')
    /\ status' = "available" /\ loaded' = TRUE
    /\ Persist(folders', saved', drafts', disk, disk, Found(disk))

Start ==
    /\ starts < MaxStarts
    /\ StartUnreadable \/ StartOutdated \/ StartComplete
    /\ starts' = starts + 1
    /\ UNCHANGED <<settled, edits, externals>>

-----------------------------------------------------------------------------
(* Reloading what other programs wrote (reconcileWorkspace).               *)

\* One kind of resource, the editor's against the directory's.
Clash(mine, base, theirs) ==
    \E x \in DOMAIN mine \cup DOMAIN base :
        /\ Row(mine, x) # Row(base, x)
        /\ Row(theirs, x) # Row(base, x) /\ Row(theirs, x) # Row(mine, x)

Merge(mine, base, theirs) ==
    LET own == {x \in DOMAIN mine \cup DOMAIN base : Row(mine, x) # Row(base, x)}
    IN  Only(mine, own) @@ Only(theirs, DOMAIN theirs \ own)

\* Definitions the editor has changed; without a baseline there are none, and
\* an editor that may not be saved is not asked.
Reloaded(kind, mine) ==
    IF loaded /\ status # "corrupt"
    THEN Merge(mine, project[kind], ReadProject(disk)[kind])
    ELSE ReadProject(disk)[kind]

Recovered == IF status = "unreadable" THEN "available" ELSE status

Seen == snapshot' = disk /\ cache' = disk /\ paths' = Found(disk)
            /\ project' = ReadProject(disk)

\* Mutant: edits are not compared with the definition they were made from.
RefusedOutdated ==
    /\ loaded /\ status # "corrupt"
    /\ \/ Clash(folders, project.folders, ReadFolders(disk))
       \/ Clash(saved, project.saved, ReadRequests(disk))
       \/ \E r \in DOMAIN drafts : r \notin DOMAIN Reloaded("saved", saved)

\* Both sides changed a definition, the directory lost one that has edits, or
\* one with edits says something else now.
Refused ==
    /\ loaded /\ status # "corrupt"
    /\ \/ Clash(folders, project.folders, ReadFolders(disk))
       \/ Clash(saved, project.saved, ReadRequests(disk))
       \/ \E r \in DOMAIN drafts : r \notin DOMAIN Reloaded("saved", saved)
       \/ Outdated(drafts, Reloaded("saved", saved))

ReloadUnreadable ==
    /\ disk # snapshot /\ ~Readable(disk)
    /\ status \in {"available", "unreadable", "corrupt"}
    /\ status' = "unreadable" /\ cache' = disk
    /\ UNCHANGED <<tree, loaded, project, snapshot, paths, rows, disk, settled, bounds>>

ReloadRefused ==
    /\ disk # snapshot /\ Readable(disk) /\ status # "closed"
    /\ Refused
    /\ status' = Recovered /\ cache' = disk
    /\ UNCHANGED <<tree, loaded, project, snapshot, paths, rows, disk, settled, bounds>>

\* A request whose folder is gone moves to the top.
Reload ==
    /\ disk # snapshot /\ Readable(disk) /\ status # "closed"
    /\ ~Refused
    /\ folders' = Reloaded("folders", folders)
    /\ saved' = [r \in DOMAIN Reloaded("saved", saved) |->
                   LET row == Reloaded("saved", saved)[r]
                   IN  IF row.parent \in DOMAIN folders' THEN row
                       ELSE [row EXCEPT !.parent = Root]]
    /\ drafts' = IF status = "corrupt" THEN Empty ELSE drafts
    /\ status' = Recovered /\ loaded' = TRUE
    /\ Seen
    /\ UNCHANGED <<rows, disk, settled, bounds>>

-----------------------------------------------------------------------------
(* What the user does (workspace-workbench.tsx).                           *)

Editing == status = "available" /\ loaded /\ edits < MaxEdits
Edited == edits' = edits + 1 /\ UNCHANGED <<session, rows, disk, externals, starts>>

CreateFolder(f, name, parent) ==
    /\ Editing /\ f \notin Generated \cup DOMAIN folders \cup DOMAIN paths
    /\ parent \in DOMAIN folders \cup {Root}
    /\ folders' = Set(folders, f, [name |-> name, parent |-> parent])
    /\ Edited /\ UNCHANGED <<saved, drafts, settled>>

RenameFolder(f, name) ==
    /\ Editing /\ f \in DOMAIN folders
    /\ folders' = [folders EXCEPT ![f].name = name]
    /\ Edited /\ UNCHANGED <<saved, drafts, settled>>

\* A folder and the folders it is in.
Above(fs) ==
    LET U[f \in Folders \cup {Root}] ==
          IF f \notin DOMAIN fs THEN {} ELSE {f} \cup U[fs[f].parent]
    IN  U

\* Mutant: a folder may be moved below itself.
MoveFolderAnywhere(f, parent) ==
    /\ Editing /\ f \in DOMAIN folders /\ parent \in DOMAIN folders \cup {Root}
    /\ folders' = [folders EXCEPT ![f].parent = parent]
    /\ Edited /\ UNCHANGED <<saved, drafts, settled>>

MoveFolder(f, parent) ==
    /\ Editing /\ f \in DOMAIN folders /\ parent \in DOMAIN folders \cup {Root}
    /\ ValidTree(folders, saved)
    /\ f \notin Above(folders)[parent]
    /\ folders' = [folders EXCEPT ![f].parent = parent]
    /\ Edited /\ UNCHANGED <<saved, drafts, settled>>

\* Mutant: what was in the folder stays behind.
Orphaned(rows_, f) == rows_

\* What was in the folder moves to where the folder was.
Reparented(rows_, f) ==
    [x \in DOMAIN rows_ |->
       IF rows_[x].parent = f THEN [rows_[x] EXCEPT !.parent = folders[f].parent]
       ELSE rows_[x]]

DeleteFolder(f) ==
    /\ Editing /\ f \in DOMAIN folders
    /\ folders' = Only(Reparented(folders, f), DOMAIN folders \ {f})
    /\ saved' = Reparented(saved, f)
    /\ Edited /\ UNCHANGED <<drafts, settled>>

MoveDocument(r, parent) ==
    /\ Editing /\ r \in DOMAIN saved /\ parent \in DOMAIN folders \cup {Root}
    /\ saved' = [saved EXCEPT ![r].parent = parent]
    /\ Edited /\ UNCHANGED <<folders, drafts, settled>>

Type(r, text) ==
    /\ Editing /\ r \in DOMAIN saved /\ text # saved[r].text
    /\ drafts' = Set(drafts, r, [text |-> text, base |-> saved[r].text])
    /\ settled' = settled \ {r}
    /\ Edited /\ UNCHANGED <<folders, saved>>

SaveDocument(r) ==
    /\ Editing /\ r \in DOMAIN drafts
    /\ saved' = [saved EXCEPT ![r].text = drafts[r].text]
    /\ drafts' = Only(drafts, DOMAIN drafts \ {r})
    /\ settled' = settled \cup {r}
    /\ Edited /\ UNCHANGED folders

DeleteDocument(r) ==
    /\ Editing /\ r \in DOMAIN saved
    /\ saved' = Only(saved, DOMAIN saved \ {r})
    /\ drafts' = Only(drafts, DOMAIN drafts \ {r})
    /\ settled' = settled \cup {r}
    /\ Edited /\ UNCHANGED folders

-----------------------------------------------------------------------------
(* What other programs do to the directory.                                *)

Outside(files) ==
    /\ disk' = files
    /\ externals' = externals + 1
    /\ UNCHANGED <<tree, session, rows, settled, edits, starts>>

MoveFile(p, q) ==
    /\ p \in DOMAIN disk /\ q \notin DOMAIN disk
    /\ Outside(Set(Only(disk, DOMAIN disk \ {p}), q, disk[p]))

\* A directory is renamed or moved, with all that is in it.
MoveDirectory(from, to) ==
    /\ from # Empty /\ ~IsPrefix(from, to)
    /\ \E p \in DOMAIN disk : p.base = "documents" /\ IsPrefix(from, p.dir)
    /\ \A p \in DOMAIN disk : ~(p.base = "documents" /\ IsPrefix(to, p.dir))
    /\ LET moved(p) ==
             IF p.base = "documents" /\ IsPrefix(from, p.dir)
             THEN [p EXCEPT !.dir = to \o SubSeq(p.dir, Len(from) + 1, Len(p.dir))] ELSE p
       IN  Outside([q \in {moved(p) : p \in DOMAIN disk} |->
                      disk[CHOOSE p \in DOMAIN disk : moved(p) = q]])

RemoveFile(p) == p \in DOMAIN disk /\ Outside(Only(disk, DOMAIN disk \ {p}))

Rewrite(p, text) ==
    /\ p \in Defines(disk, Requests) /\ disk[p].text # text
    /\ Outside([disk EXCEPT ![p].text = text])

\* Conflict markers of a merge, and their removal.
Break(p) == p \in DOMAIN disk /\ Outside([disk EXCEPT ![p].broken = ~@])

-----------------------------------------------------------------------------

Init ==
    /\ folders = Empty /\ saved = Empty /\ drafts = Empty
    /\ status = "closed" /\ loaded = FALSE
    /\ project = [folders |-> Empty, saved |-> Empty]
    /\ snapshot = Empty /\ cache = Empty /\ paths = Empty
    /\ rows = Empty
    /\ disk \in Layouts
    /\ settled = {}
    /\ edits = 0 /\ externals = 0 /\ starts = 0

UserNext ==
    /\ Editing
    /\ \/ \E f \in Folders, name \in Names :
            \/ RenameFolder(f, name)
            \/ \E parent \in Folders \cup {Root} : CreateFolder(f, name, parent)
       \/ \E f \in Folders, parent \in Folders \cup {Root} : MoveFolder(f, parent)
       \/ \E f \in Folders : DeleteFolder(f)
       \/ \E r \in Requests, parent \in Folders \cup {Root} : MoveDocument(r, parent)
       \/ \E r \in Requests : SaveDocument(r) \/ DeleteDocument(r)
       \/ \E r \in Requests, text \in Texts : Type(r, text)

OutsideNext ==
    /\ externals < MaxExternal
    /\ \/ \E p \in DOMAIN disk, q \in Elsewhere : MoveFile(p, q)
       \/ \E p \in DOMAIN disk, q \in Elsewhere : MoveDirectory(p.dir, q.dir)
       \/ \E p \in DOMAIN disk : RemoveFile(p) \/ Break(p)
       \/ \E p \in DOMAIN disk, text \in Texts : Rewrite(p, text)

Next ==
    \/ Save \/ Start \/ ReloadUnreadable \/ ReloadRefused \/ Reload
    \/ UserNext \/ OutsideNext

Spec == Init /\ [][Next]_vars

-----------------------------------------------------------------------------

TypeOK ==
    /\ status \in {"closed", "available", "unreadable", "corrupt"}
    /\ \A f \in DOMAIN folders : f \in Folders /\ folders[f].parent \in Folders \cup {Root}
    /\ \A r \in DOMAIN saved : r \in Requests /\ saved[r].parent \in Folders \cup {Root}
    /\ \A r \in DOMAIN drafts : r \in DOMAIN saved /\ drafts[r].text \in Texts
    /\ \A id \in DOMAIN paths : id \in Folders \cup Requests
    /\ settled \subseteq Requests
    /\ edits \in 0..MaxEdits /\ externals \in 0..MaxExternal /\ starts \in 0..MaxStarts

\* A save, or the one that ends a start, that changes a directory the session
\* has seen as it is.
Writes ==
    /\ disk' # disk /\ externals' = externals
    /\ starts' # starts \/ {snapshot, cache} = {disk}

\* The resources that were not given the path of another.
Alone(at) == {id \in DOMAIN at : \A other \in DOMAIN at \ {id} : at[other] # at[id]}

ReadsBack(back, fs, rs, alone) ==
    /\ ValidTree(back.folders, back.saved)
    /\ DOMAIN back.folders = DOMAIN fs
    /\ \A f \in DOMAIN fs :
         /\ back.folders[f].parent = fs[f].parent
         /\ back.folders[f].name \in {fs[f].name, DirectoryName(fs[f].name)}
    /\ \A r \in DOMAIN rs \cap alone :
         r \in DOMAIN back.saved /\ back.saved[r] = rs[r]

\* Reading the directory gives back what was written: every request says what
\* it said and is in the folder it was in, and every folder is where it was,
\* under its name if a directory can have that name.  Folders given the same
\* directory are the exception, and requests given the same path, which take
\* nothing else with them.
SavedIsReadBack ==
    [][Writes =>
         LET alone == Alone(Places(folders', saved', paths'))
         IN  DOMAIN folders' \subseteq alone =>
               ReadsBack(ReadProject(disk'), folders', saved', alone)]_vars

\* "Directory hierarchy is canonical" (docs/persistence-architecture.md): once
\* opened or reloaded without changes of its own, the editor has every request
\* in the folder of the directory it was found in.
Opens ==
    \/ starts' # starts
    \/ /\ disk # snapshot /\ snapshot' = disk /\ disk' = disk
       /\ paths' = Found(disk) /\ project' = ReadProject(disk)
       /\ project = [folders |-> folders, saved |-> saved]
DirectoriesRule ==
    [][Opens /\ status' = "available" =>
         \A r \in DOMAIN saved' :
             Directory(folders')[saved'[r].parent] = Found(disk)[r].dir]_vars

\* What the user does to a tree that can be saved leaves one that can.
EditsStaySavable ==
    [][edits' # edits /\ ValidTree(folders, saved) => ValidTree(folders', saved')]_vars

\* What the user is working on is not taken away by what other programs do:
\* no reload drops or changes an edited copy or the definition under it.
ReloadKeepsDrafts ==
    [][\A r \in DOMAIN drafts :
         status = "available" /\ starts' = starts /\ edits' = edits =>
             r \in DOMAIN drafts' /\ drafts'[r] = drafts[r] /\ r \in DOMAIN saved'
                /\ drafts[r].base = saved'[r].text]_vars

\* "Local edits and files are preserved" (workspace-persistence.ts:581): edits
\* that were stored stay stored until the user saves or gives them up.
StoredEditsSurvive ==
    [][\A r \in DOMAIN rows \ settled : r \in DOMAIN rows']_vars
=============================================================================
