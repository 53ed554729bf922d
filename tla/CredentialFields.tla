--------------------------- MODULE CredentialFields ---------------------------
(***************************************************************************)
(* The credentials of one request, in every copy the application keeps of  *)
(* them: the working copy and the saved one in the editor (auth-editor.tsx *)
(* and workspace.ts), the definition, the draft and the session in storage *)
(* (project-projection.ts), and the values themselves, which are only ever *)
(* in the vault (storage/secrets.ts).                                      *)
(*                                                                         *)
(* A copy holds a text and a state per credential: the reference it is     *)
(* kept under, what is known of the value there, and whether the text was  *)
(* edited since.  Each stored copy keeps its values under references of    *)
(* its own, its home.  A save is prepared on the copies as they are and    *)
(* acknowledged on the same objects once it is committed; the user goes on *)
(* typing meanwhile.  The commit itself is CommitCoordinator's.            *)
(***************************************************************************)
EXTENDS Naturals

CONSTANTS
    Typed,      \* texts typed for a credential
    Template,   \* a text that names a variable and nothing else
    Blank, Gone,
    MaxEvents   \* a bound

VARIABLES
    req,        \* document.request.auth
    saved,      \* document.savedRequest.auth, or NoCopy
    vault,      \* values by credential and home
    disk,       \* the definition, the draft and the session of the document
    saving,     \* the copies a save in flight was prepared on
    asked,      \* a credential being resolved for the editor
    settled,    \* nothing changed since the last commit (of the properties)
    overtaken,  \* the request was reverted while a save of it was in flight
    events

vars == <<req, saved, vault, disk, saving, asked, settled, overtaken, events>>

\* The credential of Bearer and of Basic; each form keeps its text while the
\* other is chosen.
Slots == {"bearer", "password"}
Homes == {"saved", "draft", "draftSaved", "editor"}
Texts == Typed \cup {Template, Blank}

State(ref, status, edit) == [ref |-> ref, status |-> status, edit |-> edit]
NoState == State("none", "none", "none")
Loaded(ref) == State(ref, "available", "keep")
Unresolved(ref) == State(ref, "unresolved", "keep")

Copy(type, val, st) == [type |-> type, val |-> val, st |-> st]
BlankCopy(type) == Copy(type, [s \in Slots |-> Blank], [s \in Slots |-> NoState])
NoCopy == BlankCopy("absent")

Keeps(auth, s) == auth.st[s].edit = "keep"
Present(auth, s) == auth.val[s] # Blank \/ auth.st[s] # NoState
IsTemplate(auth, s) == auth.val[s] = Template /\ ~Keeps(auth, s)

\* resolveSecretField: what a send of the copy would use.
Meaning(auth, s) ==
    IF Keeps(auth, s) /\ auth.st[s].status # "available"
    THEN vault[s][auth.st[s].ref] ELSE auth.val[s]

\* comparableDefinitionState and isDocumentDirty
Comparable(auth) ==
    [type |-> auth.type,
     fields |-> [s \in Slots |->
        IF Keeps(auth, s) THEN <<"keep", auth.st[s].ref>>
        ELSE <<IF auth.st[s] = NoState THEN "text" ELSE "set", auth.val[s]>>]]
Dirty(working, other) == Comparable(working) # Comparable(other)

-----------------------------------------------------------------------------
(* Writing a credential under a reference.                                 *)

\* Mutant: a credential that is kept is written as the text the copy shows.
StoreShown(values, ref, text, state) ==
    IF state.edit = "keep" /\ state.ref = ref THEN values ELSE [values EXCEPT ![ref] = text]

\* storeCredential: a value kept under another reference is copied, if it can
\* be read; one that cannot leaves what is there.
StoreCredential(values, ref, text, state) ==
    IF state.edit # "keep" THEN [values EXCEPT ![ref] = text]
    ELSE IF state.ref = ref \/ values[state.ref] = Gone THEN values
    ELSE [values EXCEPT ![ref] = values[state.ref]]

\* envelope of protectRuntime: a loaded one is copied as it shows.
Envelope(values, ref, text, state) ==
    IF state.edit = "keep" /\ state.status = "available" /\ state.ref # ref
    THEN [values EXCEPT ![ref] = text]
    ELSE StoreCredential(values, ref, text, state)

\* authToDefinition writes the credential of the type that is chosen.
ToDefinition(values, auth) ==
    [s \in Slots |->
        IF s # auth.type \/ IsTemplate(auth, s) THEN values[s]
        ELSE StoreCredential(values[s], "saved", auth.val[s], auth.st[s])]

\* protectRuntime writes those of both forms.
ProtectRuntime(values, auth, home) ==
    [s \in Slots |->
        IF ~Present(auth, s) \/ IsTemplate(auth, s) THEN values[s]
        ELSE Envelope(values[s], home, auth.val[s], auth.st[s])]

Mark(auth, s) ==
    IF IsTemplate(auth, s) THEN "template" ELSE IF Present(auth, s) THEN "secret" ELSE "none"
Marks(auth) == [type |-> auth.type, marks |-> [s \in Slots |-> Mark(auth, s)]]
NoMarks == Marks(NoCopy)
\* requestDefinition names a credential even when none was typed.
Defined(auth) ==
    [type |-> auth.type,
     marks |-> [s \in Slots |->
        IF s # auth.type THEN "none" ELSE IF IsTemplate(auth, s) THEN "template" ELSE "secret"]]

-----------------------------------------------------------------------------
(* What a commit leaves in the copies it was prepared on.                  *)

\* authToDefinition, on commit: the chosen credential is now the saved one.
AcknowledgeDefinition(auth) ==
    IF auth.type \notin Slots THEN auth
    ELSE [auth EXCEPT !.st[auth.type] =
            IF IsTemplate(auth, auth.type) THEN NoState
            ELSE IF @.edit = "keep" /\ @.status # "available" THEN State("saved", @.status, "keep")
            ELSE Loaded("saved")]

\* Mutant: the reference is taken over whatever the copy keeps.
TakeOver(auth, home, slots) ==
    [auth EXCEPT !.st = [s \in Slots |->
        IF s \notin slots \/ ~Present(auth, s) THEN @[s]
        ELSE IF IsTemplate(auth, s) THEN NoState ELSE Loaded(home)]]

\* protectRuntime, on commit: what was edited is now kept under the home.
AcknowledgeRuntime(auth, home, slots) ==
    [auth EXCEPT !.st = [s \in Slots |->
        IF s \notin slots \/ ~Present(auth, s) \/ Keeps(auth, s) THEN @[s]
        ELSE IF IsTemplate(auth, s) THEN NoState ELSE Loaded(home)]]

\* persist hands the saved credential to a clean working copy.
Synchronize(working, other) ==
    LET s == other.type IN
    IF s \notin Slots THEN working
    ELSE [working EXCEPT !.st[s] =
            IF other.st[s].status = "unresolved" /\ other.st[s].ref = @.ref THEN @
            ELSE other.st[s]]

\* projectWorkspace and persist of one document.
Persisted(working, other) ==
    LET isSaved == other # NoCopy
        draft == ~isSaved \/ Dirty(working, other)
        defined == IF isSaved THEN ToDefinition(vault, other) ELSE vault
        written == ProtectRuntime(defined, working, IF draft THEN "draft" ELSE "editor")
        canonical == AcknowledgeDefinition(other)
        mine == AcknowledgeRuntime(working, IF draft THEN "draft" ELSE "editor", Slots) IN
    [vault |-> IF draft /\ isSaved THEN ProtectRuntime(written, other, "draftSaved") ELSE written,
     disk |-> [definition |-> IF isSaved THEN Defined(other) ELSE NoMarks,
               draft |-> IF draft THEN Marks(working) ELSE NoMarks,
               draftSaved |-> IF draft /\ isSaved THEN Marks(other) ELSE NoMarks,
               session |-> IF draft THEN NoMarks ELSE Marks(working)],
     saved |-> IF ~isSaved THEN NoCopy
               ELSE IF draft THEN AcknowledgeRuntime(canonical, "draftSaved", Slots \ {other.type})
               ELSE canonical,
     req |-> IF draft THEN mine ELSE Synchronize(mine, canonical)]

-----------------------------------------------------------------------------
(* Reading the copies back; secrets are left to be resolved when needed.   *)

\* resolveRuntime
FromMarks(m, home) ==
    Copy(m.type,
         [s \in Slots |-> IF m.marks[s] = "template" THEN Template ELSE Blank],
         [s \in Slots |-> IF m.marks[s] = "secret" THEN Unresolved(home) ELSE NoState])

\* restoreWorkspace of a clean document: the chosen credential is the
\* definition's, the other form's the session's.
WithSession(definition, session) ==
    LET canonical == FromMarks(definition, "saved")
        editor == FromMarks(session, "editor") IN
    Copy(definition.type,
         [s \in Slots |-> IF s = definition.type THEN canonical.val[s] ELSE editor.val[s]],
         [s \in Slots |-> IF s = definition.type THEN canonical.st[s] ELSE editor.st[s]])

Restored ==
    LET clean == WithSession(disk.definition, disk.session) IN
    IF disk.draft # NoMarks
    THEN [req |-> FromMarks(disk.draft, "draft"),
          saved |-> IF disk.draftSaved = NoMarks THEN NoCopy
                    ELSE FromMarks(disk.draftSaved, "draftSaved")]
    ELSE [req |-> clean, saved |-> clean]

-----------------------------------------------------------------------------

Idle == saving.kind = "none"
NotSaving == [kind |-> "none", req |-> NoCopy, saved |-> NoCopy]
NotAsked == [slot |-> "none", auth |-> NoCopy, text |-> Blank, fresh |-> FALSE]

Init ==
    /\ \E first \in Typed :
        \/ /\ saved = NoCopy /\ req = BlankCopy("none")
           /\ vault = [s \in Slots |-> [h \in Homes |-> Gone]]
           /\ disk = [definition |-> NoMarks, draft |-> Marks(req), draftSaved |-> NoMarks,
                      session |-> NoMarks]
        \/ /\ saved = [BlankCopy("bearer") EXCEPT !.st["bearer"] = Unresolved("saved")]
           /\ req = saved
           /\ vault = [s \in Slots |-> [h \in Homes |->
                IF s = "bearer" /\ h \in {"saved", "editor"} THEN first ELSE Gone]]
           /\ disk = [definition |-> Defined(saved), draft |-> NoMarks, draftSaved |-> NoMarks,
                      session |-> Marks(saved)]
    /\ saving = NotSaving /\ asked = NotAsked
    /\ settled = TRUE /\ overtaken = FALSE /\ events = 0

Happens == events < MaxEvents /\ events' = events + 1
Overtaken == asked' = [asked EXCEPT !.fresh = FALSE]
Edited(auth) == req' = auth /\ settled' = FALSE /\ Overtaken

\* onAuthChange: a text typed over a credential that is known is an edit of it.
Type(s, text) ==
    /\ Happens /\ req.type = s /\ text # req.val[s]
    /\ Edited([req EXCEPT !.val[s] = text,
               !.st[s] = IF @ = NoState THEN @ ELSE State(@.ref, "available", "set")])
    /\ UNCHANGED <<saved, vault, disk, saving, overtaken>>

SwitchType(type) ==
    /\ Happens /\ type # req.type
    /\ Edited([req EXCEPT !.type = type])
    /\ UNCHANGED <<saved, vault, disk, saving, overtaken>>

\* discardDocument
Discard ==
    /\ Happens /\ saved # NoCopy /\ Dirty(req, saved)
    /\ Edited(saved)
    /\ overtaken' = (overtaken \/ saving.kind = "explicit")
    /\ UNCHANGED <<saved, vault, disk, saving>>

\* The editor asks for a credential it shows and has not loaded.
Ask ==
    /\ req.type \in Slots /\ Keeps(req, req.type) /\ req.st[req.type].status = "unresolved"
    /\ ~asked.fresh
    /\ asked' = [slot |-> req.type, auth |-> req, text |-> Meaning(req, req.type), fresh |-> TRUE]
    /\ UNCHANGED <<req, saved, vault, disk, saving, settled, overtaken, events>>

\* Mutant: a value that is missing is put into the field.
ResolvedAsRead(auth, s, text) ==
    [auth EXCEPT !.val[s] = text,
                 !.st[s] = State(@.ref, IF text = Gone THEN "missing" ELSE "available", "keep")]

Resolved(auth, s, text) ==
    [auth EXCEPT !.val[s] = IF text = Gone THEN @ ELSE text,
                 !.st[s] = State(@.ref, IF text = Gone THEN "missing" ELSE "available", "keep")]

\* Mutant: the answer is shown whatever was typed since.
ShownLate == req' = Resolved(asked.auth, asked.slot, asked.text)

\* The answer belongs to the copy it was asked for, as a save left it.
Shown == req' = IF asked.fresh THEN Resolved(req, asked.slot, asked.text) ELSE req
Answer ==
    /\ asked # NotAsked
    /\ Shown /\ asked' = NotAsked
    /\ UNCHANGED <<saved, vault, disk, saving, settled, overtaken, events>>

\* A save is prepared on the copies as they are; one the user asks for makes
\* the working copy the saved one.
BeginSave(kind) ==
    /\ Idle /\ Happens
    /\ kind = "explicit" => saved = NoCopy \/ Dirty(req, saved)
    /\ saving' = [kind |-> kind, req |-> req, saved |-> IF kind = "explicit" THEN req ELSE saved]
    /\ UNCHANGED <<req, saved, vault, disk, asked, settled, overtaken>>

\* Copies with the same content behave alike, so that the object a save was
\* prepared on is told by its content.
FinishSave ==
    /\ ~Idle
    /\ LET done == Persisted(saving.req, saving.saved)
           same == \/ req = saving.req
                   \/ saving.kind = "explicit" /\ Comparable(req) = Comparable(done.req) IN
       /\ vault' = done.vault /\ disk' = done.disk /\ saved' = done.saved
       /\ req' = IF same THEN done.req ELSE req
       /\ asked' = [asked EXCEPT !.fresh = @ /\ (same => req = saving.req)]
       /\ settled' = same
    /\ saving' = NotSaving
    /\ UNCHANGED <<overtaken, events>>

\* Mutant: the buffers that were loaded stay.
StaleBuffers(auth, s, home) == auth

\* invalidateSecretBuffers
Invalidated(auth, s, home) ==
    IF Keeps(auth, s) /\ auth.st[s].ref = home
    THEN [auth EXCEPT !.val[s] = Blank, !.st[s] = Unresolved(home)] ELSE auth

Listed(s, home) ==
    \/ home = "saved" /\ disk.definition.marks[s] = "secret"
    \/ \E auth \in {req, saved} : auth.st[s].ref = home
\* The local secrets panel sets or removes a value (setSecretValue).
SetSecretValue(s, home, value) ==
    /\ Idle /\ Happens /\ Listed(s, home) /\ value # vault[s][home]
    /\ vault' = [vault EXCEPT ![s][home] = value]
    /\ req' = Invalidated(req, s, home) /\ saved' = Invalidated(saved, s, home)
    /\ settled' = FALSE /\ Overtaken
    /\ UNCHANGED <<disk, saving, overtaken>>

\* The program ends and starts again; load saves what it restored.
Restart ==
    /\ Happens
    /\ LET done == Persisted(Restored.req, Restored.saved) IN
       /\ vault' = done.vault /\ disk' = done.disk
       /\ req' = done.req /\ saved' = done.saved
    /\ saving' = NotSaving /\ asked' = NotAsked /\ settled' = TRUE
    /\ overtaken' = FALSE

Next ==
    \/ \E s \in Slots :
        \/ \E text \in Texts : Type(s, text)
        \/ \E home \in Homes, value \in Typed \cup {Gone} : SetSecretValue(s, home, value)
    \/ \E type \in Slots \cup {"none"} : SwitchType(type)
    \/ \E kind \in {"automatic", "explicit"} : BeginSave(kind)
    \/ Discard \/ Ask \/ Answer \/ FinishSave \/ Restart

Spec == Init /\ [][Next]_vars

-----------------------------------------------------------------------------

TypeOK ==
    /\ \A auth \in {req, saved} :
        /\ auth.type \in Slots \cup {"none", "absent"}
        /\ auth.val \in [Slots -> Texts]
        /\ \A s \in Slots : auth.st[s].ref \in Homes \cup {"none"}
    /\ vault \in [Slots -> [Homes -> Texts \cup {Gone}]]
    /\ events \in 0..MaxEvents

\* A buffer that counts as loaded shows what the vault holds for it, in both
\* copies: the panel, a save or an answer never leaves it behind.
LoadedIsCurrent ==
    ~overtaken => \A auth \in {req, saved}, s \in Slots :
        Keeps(auth, s) /\ auth.st[s].status = "available" => auth.val[s] = vault[s][auth.st[s].ref]

\* What the saved definition of a credential stands for.
DefinedValue(s) ==
    CASE disk.definition.marks[s] = "secret" -> vault[s]["saved"]
      [] disk.definition.marks[s] = "template" -> Template
      [] OTHER -> Blank

\* No save, answer or restart changes what a send of the working copy would
\* use.  A credential that was removed is left out: its old value may come back
\* (RemovedStaysRemoved).
SendsKeepTheirCredential ==
    LET kept == Answer \/ FinishSave \/ (Restart /\ settled) IN
    kept /\ ~overtaken => \A s \in Slots : Meaning(req, s) \in {Gone, Meaning(req, s)'}

\* A save the user asked for makes the definition stand for what the working
\* copy did, and nothing else changes what it stands for.
DefinitionIsWhatWasSaved ==
    /\ (FinishSave /\ saving.kind = "explicit") =>
        \A s \in Slots \cap {saving.req.type} : Meaning(saving.req, s) \in {Gone, DefinedValue(s)'}
    /\ (FinishSave /\ saving.kind = "automatic") \/ (Restart /\ settled) =>
        \A s \in Slots : DefinedValue(s) \in {Gone, DefinedValue(s)'}

\* A value removed in the panel, with everything saved since, does not come
\* back.  The code does not promise it: the copy of it that a draft keeps of
\* the saved request is written over the removed one when the project is next
\* loaded.
RemovedStaysRemoved ==
    Restart /\ settled => \A s \in Slots : DefinedValue(s) = Gone => DefinedValue(s)' = Gone
=============================================================================
