------------------------------- MODULE MCSuite -------------------------------
(***************************************************************************)
(* Machines of storage whose properties are about safety alone, each       *)
(* checked by itself: the initial state says which of them runs, and the   *)
(* others stay as they are.                                                *)
(***************************************************************************)
EXTENDS BrowserStore, TLC

CONSTANTS
    Responses, Encrypted, Batches, Capacity,              \* of the response capture
    MaxEntries, MaxFaults, MaxCrashes,
    w1, p1, p2, old, new, v1, tokenA, tokenG, del         \* what the browser stores

ASSUME SuiteAssumption ==
    /\ Encrypted \subseteq Responses
    /\ {Batches, Capacity, MaxEntries, MaxFaults, MaxCrashes} \subseteq Nat
    /\ Capacity > 0

VARIABLES
    part,
    client, aborted, cancels, closed, entry, signal, pc, handle, received, enqueued,
    awaited, wrote, reported, queue, current, row, unlocked, faults, crashes, network,
    revoked, body, leaked,
    working, savedCopy, vault, written, saving, wanted, settled, reverted, edits,
    folders, definitions, copies, standing, opened, baseline, lastSeen, adapter, foundAt,
    kept, directory, givenUp, changes, outside, starts

captureVars == <<client, aborted, cancels, closed, entry, signal, pc, handle, received,
    enqueued, awaited, wrote, reported, queue, current, row, unlocked, faults, crashes,
    network, revoked, body, leaked>>
credentialVars == <<working, savedCopy, vault, written, saving, wanted, settled, reverted,
    edits>>
fileVars == <<folders, definitions, copies, standing, opened, baseline, lastSeen, adapter,
    foundAt, kept, directory, givenUp, changes, outside, starts>>
allVars == <<part, vars, captureVars, credentialVars, fileVars>>

-----------------------------------------------------------------------------

Edit(path, content, expected) ==
    [path |-> path, content |-> content, expected |-> expected]
Secret(ref, value, expected) == [ref |-> ref, value |-> value, expected |-> expected]
Save(scope, edited, sealed, mutations) ==
    [kind |-> "commit", scope |-> scope, files |-> edited, record |-> v1,
     sealed |-> sealed, mutations |-> mutations]
Saves ==
    {Save(w1, <<Edit(p1, old, Absent)>>, TRUE, {Secret(tokenA, v1, 0)}),
     Save(w1, <<Edit(p1, new, old), Edit(p2, new, Absent)>>, FALSE, {}),
     Save(Global, <<>>, FALSE, {Secret(tokenG, v1, 0)}),
     [kind |-> "secrets", scope |-> w1, files |-> <<>>, record |-> Keep,
      sealed |-> FALSE, mutations |-> {Secret(tokenA, Absent, 1)}]}

Owners == (tokenA :> w1) @@ (tokenG :> Global)
DrawnBy == w1 :> del

Capture == INSTANCE ResponseCapture WITH outcome <- reported, Requests <- Responses

Credentials == INSTANCE CredentialFields
    WITH req <- working, saved <- savedCopy, disk <- written, asked <- wanted,
         overtaken <- reverted, events <- edits, Typed <- {"x", "y"},
         Template <- "{{v}}", Blank <- "", Gone <- "gone", MaxEvents <- 4

\* A request in a folder and one beside it, and the directories of an older
\* release without markers.
At(base, dir, file) == [base |-> base, dir |-> dir, file |-> file]
Defines(id, name, parent, text) ==
    [id |-> id, name |-> name, parent |-> parent, text |-> text, broken |-> FALSE]
Root == "no folder"
Marker == ".purr-folder.yaml"
Current ==
    (At("documents", <<"a">>, Marker) :> Defines("f", "a", Root, 0))
    @@ (At("documents", <<"a">>, "get") :> Defines("r", Marker, "f", 1))
    @@ (At("documents", <<>>, "get") :> Defines("s", Marker, Root, 1))
Older ==
    (At("requests", <<"a">>, "get") :> Defines("r", Marker, Root, 1))
    @@ (At("graphql", <<>>, "post") :> Defines("s", Marker, Root, 1))

Files == INSTANCE ProjectFiles
    WITH saved <- definitions, drafts <- copies, status <- standing, loaded <- opened,
         project <- baseline, snapshot <- lastSeen, cache <- adapter, paths <- foundAt,
         rows <- kept, disk <- directory, settled <- givenUp, edits <- changes,
         externals <- outside, Folders <- {"f", "g", "h", "i", "j"},
         Generated <- {"h", "i", "j"}, Requests <- {"r", "s"}, Names <- {"a", ".x"},
         Hidden <- {".x"}, Texts <- {1, 2}, Layouts <- {Current, Older},
         Elsewhere <- {At("documents", <<"b">>, "post")},
         MaxEdits <- 2, MaxExternal <- 1, MaxStarts <- 2

-----------------------------------------------------------------------------

\* The machines that stand still have one state to stand in.
SuiteInit ==
    /\ part \in {"pair", "browser", "credentials", "files"}
    /\ Init /\ Capture!Init /\ (part # "pair" => ~unlocked)
    /\ Credentials!Init
    /\ part # "credentials" => savedCopy = Credentials!NoCopy
    /\ Files!Init /\ (part # "files" => directory = Older)

\* One of the machines takes a step, and the others stand still.
Only(machine, A, others) == part = machine /\ A /\ UNCHANGED <<part, others>>

OfPair == Only("pair", Capture!Next, <<vars, credentialVars, fileVars>>)
OfBrowser == Only("browser", Next, <<captureVars, credentialVars, fileVars>>)
OfCredentials == Only("credentials", Credentials!Next, <<vars, captureVars, fileVars>>)
OfFiles == Only("files", Files!Next, <<vars, captureVars, credentialVars>>)

SuiteNext == OfPair \/ OfBrowser \/ OfCredentials \/ OfFiles

\* The files alone, for what the repository says of them.
FilesAlone == SuiteInit /\ part = "files" /\ [][OfFiles]_allVars

Suite == SuiteInit /\ [][SuiteNext]_allVars

-----------------------------------------------------------------------------
(* The properties, under their names in the modules; the steps of a machine *)
(* that stands still are not looked at.                                    *)

SuiteTypeOK ==
    /\ part = "browser" => TypeOK
    /\ part = "credentials" => Credentials!TypeOK
    /\ part = "files" => Files!TypeOK

ResponsesAreGuarded == part = "pair" => Capture!ResponsesAreGuarded

\* KeepsLedger and OneKeyPerScope.
TabsAgree ==
    /\ Ledger!Init
    /\ [][part = "browser" /\ <<files, records, secrets, outcome>>'
                                # <<files, records, secrets, outcome>> =>
            Ledger!Next]_<<files, records, secrets, outcome>>
    /\ []AnswersHaveReceipts
    /\ [](part = "browser" => OneKeyPerScope)

CredentialsAreKept ==
    /\ [](part = "credentials" => Credentials!LoadedIsCurrent)
    /\ [][part = "credentials" =>
            Credentials!SendsKeepTheirCredential /\ Credentials!DefinitionIsWhatWasSaved]_credentialVars

FilesAreKept ==
    /\ Files!SavedIsReadBack
    /\ Files!DirectoriesRule
    /\ Files!ReloadKeepsDrafts
    /\ Files!EditsStaySavable

\* "Local edits and files are preserved" (workspace-persistence.ts:581): edits
\* that were stored stay stored until the user saves or gives them up.
StoredEditsSurvive == Files!StoredEditsSurvive

=============================================================================
