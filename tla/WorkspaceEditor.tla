--------------------------- MODULE WorkspaceEditor ---------------------------
(***************************************************************************)
(* The documents, tabs and history tabs of one open workspace              *)
(* (features/workspaces/model/workspace.ts, history-working-copy.ts and    *)
(* the handlers of workspace-workbench.tsx).                               *)
(*                                                                         *)
(* A handler is one step: the code's functions from a workspace to the     *)
(* next are operators on a workspace record here, with the same names, and *)
(* an action applies the ones its handler calls.  Only opening a history   *)
(* entry waits (for the record to be read), and only the question about    *)
(* replacing a dirty document stays open.                                  *)
(*                                                                         *)
(* A draft keeps what the handlers tell apart: whether anything is typed,  *)
(* where its authentication comes from and which schema connection it is   *)
(* bound to.  HTTP and GraphQL requests are one kind, which may be bound.  *)
(* Saving is one step here; WorkspaceSession is about its interleavings.   *)
(***************************************************************************)
EXTENDS FiniteSets, Sequences, SequencesExt, FiniteSetsExt, Functions

CONSTANTS
    Requests,   \* identifiers of request documents
    Schemas,    \* identifiers of schema connections
    Profiles,   \* shared authentication profiles that can be selected
    Entries,    \* identifiers of history entries
    Panels,     \* <<"cookies", "variables", "settings">>, or some of them
    None,
    MaxSteps    \* bound: what the user does

\* The identifier of the tab of a history entry, in place of the tab of its
\* document or beside it.
HistoryTabs == Entries \X BOOLEAN
Ids == Requests \cup Schemas \cup HistoryTabs

Auths == {"none", "own", "schema"} \cup Profiles
Drafts == [text : {"blank", "typed"}, auth : Auths, schema : Schemas \cup {None}]
Documents == [saved : BOOLEAN, sent : BOOLEAN, request : Drafts,
              savedRequest : Drafts \cup {None}, source : Requests \cup {None}]

\* Identifiers are of one kind each, and there is one for a first request.
ASSUME EditorAssumption ==
    /\ None \notin Ids \cup Drafts \cup Documents \cup Profiles \cup Range(Panels)
    /\ Requests # {} /\ Requests \cap Schemas = {}
    /\ (Requests \cup Schemas) \cap HistoryTabs = {}
    /\ Panels \in Seq(Range(Panels))
    /\ Profiles \cap {"none", "own", "schema"} = {}
    /\ MaxSteps \in Nat

VARIABLES
    workspace,  \* the workspace shown
    entries,    \* the history: entry -> the historical document, or None
    removed,    \* entries whose removal has yet to reach their tabs
    opening,    \* a history entry being read, or None
    conflict,   \* the history tab "This document has unsaved changes" is about
    made,       \* identifiers handed out; they are never used again
    steps

vars == <<workspace, entries, removed, opening, conflict, made, steps>>

-----------------------------------------------------------------------------
(* Documents.                                                              *)

IsRequest(id) == id \in Requests \cup HistoryTabs
IsHistorical(id) == id \in HistoryTabs
BlankDraft == [text |-> "blank", auth |-> "none", schema |-> None]

\* Mutant: a draft starts with a saved snapshot.
NewWithSnapshot(draft, saved) ==
    [saved |-> saved, sent |-> FALSE, request |-> draft,
     savedRequest |-> draft, source |-> None]

NewDocument(draft, saved) ==
    [saved |-> saved, sent |-> FALSE, request |-> draft,
     savedRequest |-> IF saved THEN draft ELSE None, source |-> None]

Reverted(doc) == [doc EXCEPT !.request = doc.savedRequest]

\* A request authenticated by nothing or by inheritance, unsent and empty, is
\* not worth keeping; a connection always is, it is saved when it is created.
IsMeaningfulDraft(id, doc) ==
    id \in Schemas \/ doc.sent \/ doc.request.text # "blank" \/ doc.request.auth = "own"

IsDocumentDirty(id, doc) ==
    /\ id \in Requests
    /\ IF doc.saved THEN doc.request # doc.savedRequest ELSE IsMeaningfulDraft(id, doc)

Dirty(w, id) == id \in DOMAIN w.documents /\ IsDocumentDirty(id, w.documents[id])

\* An inherited authentication is replaced by the connection's own.
DetachGraphqlSchema(draft, authOfSchema) ==
    [draft EXCEPT !.schema = None,
                  !.auth = IF @ = "schema" THEN authOfSchema ELSE @]

BindGraphqlSchema(draft, id, inherit) ==
    [draft EXCEPT !.schema = id, !.auth = IF inherit THEN "schema" ELSE @]

\* Connections of the workspace, the default one before the last one used.
DefaultGraphqlSchema(w) ==
    IF w.default # None THEN w.default ELSE w.last

WithWorkspaceAuthDefault(draft, profiles) ==
    [draft EXCEPT !.auth =
        IF @ = "none" /\ profiles # {} THEN CHOOSE p \in profiles : TRUE ELSE @]

-----------------------------------------------------------------------------
(* Tabs.                                                                   *)

WithDocument(docs, id, doc) ==
    [other \in DOMAIN docs \cup {id} |-> IF other = id THEN doc ELSE docs[other]]
Put(w, id, doc) == [w EXCEPT !.documents = WithDocument(@, id, doc)]
Drop(w, ids) == [w EXCEPT !.documents = Restrict(@, DOMAIN @ \ ids)]
Replaced(tabs, id, by) == [i \in DOMAIN tabs |-> IF tabs[i] = id THEN by ELSE tabs[i]]
Without(tabs, id) ==
    FoldLeft(LAMBDA kept, other : IF other = id THEN kept ELSE Append(kept, other), <<>>, tabs)
WithTab(tabs, id) == IF id \in Range(tabs) THEN tabs ELSE Append(tabs, id)

LastUsed(w, id) ==
    IF id \in Schemas THEN id
    ELSE IF w.documents[id].request.schema # None THEN w.documents[id].request.schema
    ELSE w.last

OpenDocument(w, id) ==
    IF id \notin DOMAIN w.documents THEN w
    ELSE [w EXCEPT !.tabs = WithTab(@, id), !.active = id, !.panel = None,
                   !.last = LastUsed(w, id)]

\* Mutant: the preview tab is reused whatever was typed into it.
PreviewReused(w) == w.preview \in DOMAIN w.documents /\ w.preview \in Range(w.tabs)

\* A preview that became dirty keeps its tab.
CanReplacePreview(w) ==
    /\ w.preview \in DOMAIN w.documents /\ w.preview \in Range(w.tabs)
    /\ w.documents[w.preview].saved /\ ~Dirty(w, w.preview)

PreviewDocument(w, id) ==
    IF id \in Range(w.tabs) \/ ~w.documents[id].saved \/ Dirty(w, id)
    THEN OpenDocument(w, id)
    ELSE [w EXCEPT !.tabs = IF CanReplacePreview(w) THEN Replaced(@, w.preview, id)
                            ELSE Append(@, id),
                   !.active = id, !.preview = id, !.panel = None]

PinDocument(w, id) == [w EXCEPT !.preview = IF @ = id THEN None ELSE @]

\* The tab that stands at i goes to j.
ReorderOpenDocuments(w, i, j) ==
    [w EXCEPT !.tabs = InsertAt(RemoveAt(@, i), j, w.tabs[i]),
              !.preview = IF @ = w.tabs[i] THEN None ELSE @]

\* When neither a panel nor an open document is active, the first tab is, or
\* else a panel that is open.
ActivateRemainingTab(w) ==
    LET first == IF w.tabs = <<>> THEN None ELSE Head(w.tabs) IN
    IF w.panel # None \/ w.active \in Range(w.tabs) THEN w
    ELSE [w EXCEPT !.active = first,
                   !.panel = IF first # None \/ w.panels = {} THEN None
                             ELSE Panels[SelectInSeq(Panels, LAMBDA p : p \in w.panels)]]

\* Mutant: closing a tab leaves it the active one.
KeepsActive(w, id) == w.active

\* The tab that moves up to the place of the closed one, or the last.
NextActive(w, id) ==
    LET rest == Without(w.tabs, id) IN
    IF w.active # id THEN w.active
    ELSE IF rest = <<>> THEN None
    ELSE rest[Min({SelectInSeq(w.tabs, LAMBDA t : t = id), Len(rest)})]

\* History tabs and blank drafts disappear with their tab; a saved request goes
\* back to what was saved, a connection stays as it is.
CloseDocument(w, id, keep) ==
    LET known == id \in DOMAIN w.documents
        doc == w.documents[id]
        remove == ~keep /\ known
                  /\ (IsHistorical(id) \/ ~(doc.saved \/ IsMeaningfulDraft(id, doc)))
        closed ==
            IF remove THEN Drop(w, {id})
            ELSE IF known /\ doc.saved /\ IsRequest(id)
            THEN Put(w, id, Reverted(doc))
            ELSE w
    IN  ActivateRemainingTab(
            [closed EXCEPT !.tabs = Without(@, id), !.preview = IF @ = id THEN None ELSE @,
                           !.active = NextActive(w, id)])

-----------------------------------------------------------------------------
(* Removing documents.                                                     *)

\* Mutant: what was saved of a bound request keeps the binding.
WorkingCopiesUnbound(w, id) ==
    [other \in DOMAIN w.documents |->
        IF IsRequest(other) /\ w.documents[other].request.schema = id
        THEN [w.documents[other] EXCEPT !.request =
                DetachGraphqlSchema(@, w.documents[id].request.auth)]
        ELSE w.documents[other]]

\* Every bound request, and what was saved of it, goes on without the schema.
Unbound(w, id) ==
    LET detach(draft) ==
            IF draft # None /\ draft.schema = id
            THEN DetachGraphqlSchema(draft, w.documents[id].request.auth) ELSE draft
    IN  [other \in DOMAIN w.documents |->
            IF IsHistorical(other) THEN w.documents[other]
            ELSE [w.documents[other] EXCEPT !.request = detach(@),
                                            !.savedRequest = detach(@)]]

DeleteDocument(w, id) ==
    IF id \notin DOMAIN w.documents THEN w
    ELSE LET closed == CloseDocument(w, id, TRUE)
             unbound == IF id \in Schemas THEN Unbound(closed, id) ELSE closed.documents
         IN  Drop([closed EXCEPT !.documents = unbound,
                                 !.default = IF @ = id THEN None ELSE @,
                                 !.last = IF @ = id THEN None ELSE @], {id})

DiscardDocument(w, id) ==
    IF id \notin DOMAIN w.documents THEN w
    ELSE IF w.documents[id].saved /\ IsRequest(id)
    THEN Put(w, id, Reverted(w.documents[id]))
    ELSE DeleteDocument(w, id)

DiscardAllDrafts(w) ==
    FoldSet(LAMBDA id, current : DiscardDocument(current, id), w,
        {id \in DOMAIN w.documents :
            ~w.documents[id].saved /\ IsMeaningfulDraft(id, w.documents[id])})

-----------------------------------------------------------------------------
(* History tabs.                                                           *)

\* The document a history tab was an execution of, if it still exists.
HistorySource(w, doc) ==
    IF doc.source \in DOMAIN w.documents THEN doc.source ELSE None

\* Mutant: only saved documents are asked about.
AsksForSaved(w, doc) ==
    LET source == HistorySource(w, doc)
    IN  source # None /\ w.documents[source].saved /\ Dirty(w, source)

HistoryNeedsReplacement(w, doc) == Dirty(w, HistorySource(w, doc))

\* The tab of an entry: in the place of the tab it was chosen from, or beside.
OpenHistoricalTab(w, tab, doc, replace) ==
    LET previous == replace \in DOMAIN w.documents
        left == IF previous /\ IsHistorical(replace) /\ replace # tab
                THEN Drop(w, {replace}) ELSE w
        next == IF tab \in DOMAIN left.documents THEN left ELSE Put(left, tab, doc)
        once == IF replace = tab THEN w.tabs ELSE Without(w.tabs, tab)
    IN  IF previous
        THEN OpenDocument([next EXCEPT !.tabs = Replaced(once, replace, tab),
                                       !.preview = None], tab)
        ELSE OpenDocument(next, tab)

ReturnFromHistory(w, tab) ==
    LET source == HistorySource(w, w.documents[tab])
    IN  IF ~tab[2] THEN OpenDocument(w, source)
        ELSE OpenDocument([Drop(w, {tab}) EXCEPT
                 !.tabs = Replaced(Without(@, source), tab, source), !.preview = None],
                 source)

\* The draft a history tab turns into: what it shows, with the source's own
\* authentication of today unless it was edited in the tab.
Promoted(w, doc) ==
    LET source == HistorySource(w, doc)
    IN  IF doc.request.auth = doc.savedRequest.auth /\ source # None
        THEN [doc.request EXCEPT !.auth = w.documents[source].request.auth]
        ELSE doc.request

\* It replaces the working copy of its source or becomes a draft, named new.
HistoryWorkingCopy(w, tab, doc, mode, replaceTab, new) ==
    LET source == HistorySource(w, doc)
        reuse == mode = "replace" /\ source # None
        id == IF reuse THEN source ELSE new
        next == Put(w, id, IF reuse
                           THEN [w.documents[source] EXCEPT !.request = Promoted(w, doc)]
                           ELSE NewDocument(Promoted(w, doc), FALSE))
    IN  IF ~replaceTab THEN OpenDocument(next, id)
        ELSE OpenDocument([Drop(next, {tab}) EXCEPT
                 !.tabs = Replaced(Without(@, id), tab, id), !.preview = None], id)

-----------------------------------------------------------------------------
(* Handlers.                                                               *)

Acts == conflict = None /\ steps < MaxSteps /\ steps' = steps + 1
Update(w) == workspace' = w
History == <<entries, removed, opening, conflict>>

\* The document on screen.
Current == IF workspace.panel = None THEN workspace.active ELSE None
Known == DOMAIN workspace.documents
AddedAs(id, doc) == /\ made' = made \cup {id}
                    /\ Update(OpenDocument(Put(workspace, id, doc), id))

AddRequest(id, bound) ==
    LET schema == DefaultGraphqlSchema(workspace)
        draft == WithWorkspaceAuthDefault(BlankDraft, workspace.profiles)
    IN  /\ Acts /\ id \in Requests \ made
        /\ AddedAs(id, NewDocument(IF bound /\ schema # None
                                   THEN BindGraphqlSchema(draft, schema, TRUE) ELSE draft,
                                   FALSE))
        /\ UNCHANGED History

AddSchema(id) ==
    /\ Acts /\ id \in Schemas \ made
    /\ AddedAs(id, NewDocument(BlankDraft, TRUE))
    /\ UNCHANGED History

ImportCurlAsDocument(id, auth) ==
    LET draft == [BlankDraft EXCEPT !.text = "typed", !.auth = auth]
    IN  /\ Acts /\ id \in Requests \ made
        /\ AddedAs(id, NewDocument(WithWorkspaceAuthDefault(draft, workspace.profiles), FALSE))
        /\ UNCHANGED History

\* Typing into the document on screen, which may be a history tab; a preview
\* that becomes dirty is pinned.
SetRequestDraft(draft) ==
    /\ Acts /\ Current \in Known /\ IsRequest(Current)
    /\ LET doc == workspace.documents[Current]
           edited == [doc EXCEPT !.request = draft]
       IN  /\ draft # doc.request /\ draft.schema = doc.request.schema
           /\ draft.auth \in {"none", "own", doc.request.auth} \cup workspace.profiles
                             \cup (IF draft.schema = None THEN {} ELSE {"schema"})
           /\ Update(LET next == Put(workspace, Current, edited)
                     IN  IF IsDocumentDirty(Current, edited)
                         THEN PinDocument(next, Current) ELSE next)
    /\ UNCHANGED <<History, made>>

SetSchemaAuth(auth) ==
    /\ Acts /\ Current \in Schemas
    /\ auth \in {"none", "own"} \cup workspace.profiles
    /\ Update([workspace EXCEPT !.documents[Current].request.auth = auth])
    /\ UNCHANGED <<History, made>>

\* Choose another connection for the request on screen, or none.
SelectSchema(id) ==
    /\ Acts /\ Current \in Requests /\ id \in (Schemas \cap Known) \cup {None}
    /\ LET draft == workspace.documents[Current].request
           linked == draft.schema
           next == IF id = None THEN workspace ELSE [workspace EXCEPT !.last = id]
       IN  /\ id # linked
           /\ Update([next EXCEPT !.documents[Current].request =
                  IF id # None THEN BindGraphqlSchema(draft, id, FALSE)
                  ELSE DetachGraphqlSchema(draft, workspace.documents[linked].request.auth)])
    /\ UNCHANGED <<History, made>>

\* The connection takes the authentication of the request it is made from,
\* which inherits it from now on.
NewSchemaConnection(id) ==
    /\ Acts /\ Current \in Requests /\ id \in Schemas \ made
    /\ LET draft == workspace.documents[Current].request
           connection == NewDocument([BlankDraft EXCEPT !.auth = draft.auth], TRUE)
           bound == [workspace EXCEPT !.documents[Current].request =
                        BindGraphqlSchema(draft, id, TRUE)]
       IN  /\ draft.schema = None
           /\ made' = made \cup {id}
           /\ Update(OpenDocument(Put(bound, id, connection), id))
    /\ UNCHANGED History

CreateRequestFromSchema(id) ==
    LET typed == [BlankDraft EXCEPT !.text = "typed"]
    IN  /\ Acts /\ Current \in Schemas /\ id \in Requests \ made
        /\ AddedAs(id, NewDocument(BindGraphqlSchema(typed, Current, TRUE), FALSE))
        /\ UNCHANGED History

SetDefaultSchema(id) ==
    /\ Acts /\ id \in (Schemas \cap Known) \cup {None} /\ id # workspace.default
    /\ Update([workspace EXCEPT !.default = id])
    /\ UNCHANGED <<History, made>>

\* A dynamic variable takes its value from the response of a saved request.
SetVariableSource(id) ==
    /\ Acts /\ id \in Requests \cap Known /\ workspace.documents[id].saved
    /\ id # workspace.variable
    /\ Update([workspace EXCEPT !.variable = id])
    /\ UNCHANGED <<History, made>>

Open(id) ==
    /\ Acts /\ id \in Range(workspace.tabs) /\ id # Current
    /\ Update(OpenDocument(workspace, id))
    /\ UNCHANGED <<History, made>>

\* Selecting a document in the sidebar or the command palette.
Preview(id) ==
    /\ Acts /\ id \in Known \ HistoryTabs /\ id # Current
    /\ Update(PreviewDocument(workspace, id))
    /\ UNCHANGED <<History, made>>

Pin == /\ Acts /\ workspace.preview # None
       /\ Update(PinDocument(workspace, workspace.preview))
       /\ UNCHANGED <<History, made>>

Reorder(i, j) ==
    /\ Acts /\ {i, j} \subseteq DOMAIN workspace.tabs /\ i # j
    /\ Update(ReorderOpenDocuments(workspace, i, j))
    /\ UNCHANGED <<History, made>>

Close(id) ==
    /\ Acts /\ id \in Range(workspace.tabs)
    /\ Update(CloseDocument(workspace, id, FALSE))
    /\ UNCHANGED <<History, made>>

ClosedAll(w, tabs) == FoldLeft(LAMBDA next, id : CloseDocument(next, id, FALSE), w, tabs)

CloseOthers(id) ==
    /\ Acts /\ id \in Range(workspace.tabs)
    /\ LET closed == ClosedAll(workspace, Without(workspace.tabs, id))
       IN  Update([OpenDocument(closed, id) EXCEPT !.panels = {}, !.panel = None])
    /\ UNCHANGED <<History, made>>

CloseAll ==
    /\ Acts /\ (workspace.tabs # <<>> \/ workspace.panels # {})
    /\ Update([ClosedAll(workspace, workspace.tabs) EXCEPT !.panels = {}, !.panel = None])
    /\ UNCHANGED <<History, made>>

\* Revert a saved document that is dirty, or discard a draft.
Discard(id) ==
    /\ Acts /\ id \in Known /\ Dirty(workspace, id)
    /\ Update(DiscardDocument(workspace, id))
    /\ UNCHANGED <<History, made>>

DiscardAll ==
    /\ Acts
    /\ Update(DiscardAllDrafts(workspace))
    /\ workspace' # workspace
    /\ UNCHANGED <<History, made>>

\* A variable that read the document's response has no source any more.
Delete(id) ==
    /\ Acts /\ id \in Known \ HistoryTabs
    /\ Update([DeleteDocument(workspace, id) EXCEPT
                  !.variable = IF @ = id THEN None ELSE @])
    /\ UNCHANGED <<History, made>>

\* The copy of a request is a draft, the copy of a connection is saved.
Duplicate(id, copy) ==
    /\ Acts /\ id \in Known \ HistoryTabs /\ copy \notin made
    /\ copy \in IF IsRequest(id) THEN Requests ELSE Schemas
    /\ AddedAs(copy, NewDocument(workspace.documents[id].request, ~IsRequest(id)))
    /\ UNCHANGED History

Save ==
    /\ Acts /\ Current \in Requests
    /\ LET doc == workspace.documents[Current] IN
       /\ ~doc.saved \/ Dirty(workspace, Current)
       /\ Update([workspace EXCEPT !.documents[Current] =
                     [doc EXCEPT !.saved = TRUE, !.savedRequest = doc.request]])
    /\ UNCHANGED <<History, made>>

OpenPanel(p) ==
    /\ Acts /\ p \in Range(Panels) /\ workspace.panel # p
    /\ Update([workspace EXCEPT !.panels = @ \cup {p}, !.panel = p])
    /\ UNCHANGED <<History, made>>

CloseWorkspaceTab(p) ==
    /\ Acts /\ p \in workspace.panels
    /\ Update(ActivateRemainingTab(
          [workspace EXCEPT !.panels = @ \ {p}, !.panel = IF @ = p THEN None ELSE @]))
    /\ UNCHANGED <<History, made>>

\* Shared profiles change in the settings: requests that inherit from one
\* that is gone inherit from another or are not authenticated, and drafts
\* without authentication take the default.
WithRequestConfig(profiles) ==
    LET fallback(draft) ==
            IF draft # None /\ draft.auth \in Profiles \ profiles
            THEN [draft EXCEPT !.auth = WithWorkspaceAuthDefault(BlankDraft, profiles).auth]
            ELSE draft
        reconcile(doc) ==
            [doc EXCEPT !.savedRequest = fallback(@),
                        !.request = fallback(IF doc.saved THEN @
                                             ELSE WithWorkspaceAuthDefault(@, profiles))]
    IN  /\ Acts /\ profiles # workspace.profiles
        /\ Update([workspace EXCEPT !.profiles = profiles,
              !.documents = [id \in Known |-> IF id \in Requests THEN reconcile(@[id])
                                              ELSE @[id]]])
        /\ UNCHANGED <<History, made>>

-----------------------------------------------------------------------------
(* Executions and history.                                                 *)

\* What history keeps of an execution: the editor with the authentication
\* resolved and without the binding.
Recorded(id) ==
    LET sent == [workspace.documents[id].request EXCEPT
                    !.schema = None, !.auth = IF @ = "none" THEN "none" ELSE "own"]
    IN  [saved |-> TRUE, sent |-> TRUE, request |-> sent, savedRequest |-> sent,
         source |-> id]

Send(entry) ==
    /\ Acts /\ Current \in Requests /\ entry \in Entries \ made
    /\ made' = made \cup {entry}
    /\ entries' = [entries EXCEPT ![entry] = Recorded(Current)]
    /\ Update([workspace EXCEPT !.documents[Current].sent = TRUE])
    /\ UNCHANGED <<removed, opening, conflict>>

\* A later choice takes the place of one whose record is still being read.
OpenHistory(entry, inPlace) ==
    /\ Acts /\ entries[entry] # None
    /\ inPlace => /\ Current \in Known /\ IsRequest(Current)
                  /\ entries[entry].source \in {Current, workspace.documents[Current].source}
    /\ opening' = [tab |-> <<entry, inPlace>>, doc |-> entries[entry],
                   replace |-> IF inPlace THEN Current ELSE None]
    /\ UNCHANGED <<workspace, entries, removed, conflict, made>>

HistoryRead ==
    /\ opening # None /\ opening' = None
    /\ \/ entries[opening.tab[1]] = None /\ UNCHANGED workspace
       \/ Update(OpenHistoricalTab(workspace, opening.tab, opening.doc, opening.replace))
    /\ UNCHANGED <<entries, removed, conflict, made, steps>>

\* Removed from the list or by retention; open tabs learn of it later.
RemoveEntry(entry) ==
    /\ Acts /\ entries[entry] # None
    /\ entries' = [entries EXCEPT ![entry] = None]
    /\ removed' = removed \cup ({entry} \cap {tab[1] : tab \in Known \cap HistoryTabs})
    /\ UNCHANGED <<workspace, opening, conflict, made>>

ClosedTabsOf(w, gone) ==
    FoldSet(LAMBDA tab, next : CloseDocument(next, tab, FALSE), w,
            DOMAIN w.documents \cap (gone \X BOOLEAN))

CloseRemoved ==
    /\ removed # {} /\ removed' = {}
    /\ Update(ClosedTabsOf(workspace, removed))
    /\ UNCHANGED <<entries, opening, conflict, made, steps>>

Return ==
    /\ Acts /\ Current \in Known \cap HistoryTabs
    /\ HistorySource(workspace, workspace.documents[Current]) # None
    /\ Update(ReturnFromHistory(workspace, Current))
    /\ UNCHANGED <<History, made>>

\* The new identifier is used only when no source is replaced.
Promote(tab, doc, mode, replaceTab, new) ==
    /\ Update(HistoryWorkingCopy(workspace, tab, doc, mode, replaceTab, new))
    /\ IF mode = "replace" /\ HistorySource(workspace, doc) # None
       THEN UNCHANGED made
       ELSE new \in Requests \ made /\ made' = made \cup {new}

\* Send in a history tab works on its source; if that is dirty, after asking.
Replay(new) ==
    /\ Acts /\ Current \in Known \cap HistoryTabs
    /\ LET doc == workspace.documents[Current] IN
       IF HistoryNeedsReplacement(workspace, doc)
       THEN /\ conflict' = [tab |-> Current, doc |-> doc]
            /\ UNCHANGED <<workspace, made>>
       ELSE Promote(Current, doc, "replace", TRUE, new) /\ UNCHANGED conflict
    /\ UNCHANGED <<entries, removed, opening>>

DuplicateHistory(new) ==
    /\ Acts /\ Current \in Known \cap HistoryTabs
    /\ Promote(Current, workspace.documents[Current], "draft", FALSE, new)
    /\ UNCHANGED History

\* The question is modal, but an entry being read or removed is not held up.
Decide(new) ==
    /\ conflict # None /\ conflict' = None
    /\ \E mode \in {"replace", "draft"} :
           Promote(conflict.tab, conflict.doc, mode, TRUE, new)
    /\ UNCHANGED <<entries, removed, opening, steps>>

Cancel ==
    /\ conflict # None /\ conflict' = None
    /\ UNCHANGED <<workspace, entries, removed, opening, made, steps>>

-----------------------------------------------------------------------------
(* Closing the application and opening it again.                           *)

\* A history tab in the place of a document's is saved as that document's.
CurrentTab(w, id) ==
    IF id \notin HistoryTabs THEN id
    ELSE IF id[2] THEN HistorySource(w, w.documents[id]) ELSE None

Distinctly(kept, ids) ==
    FoldLeft(LAMBDA tabs, id : IF id \in kept THEN WithTab(tabs, id) ELSE tabs, <<>>, ids)

Projected(w) ==
    LET kept == DOMAIN w.documents \ HistoryTabs
        distinct == Distinctly(kept, [i \in DOMAIN w.tabs |-> CurrentTab(w, w.tabs[i])])
        active == CurrentTab(w, w.active)
    IN  [Drop(w, HistoryTabs) EXCEPT
            !.tabs = distinct,
            !.active = IF active \in Range(distinct) THEN active
                       ELSE IF distinct = <<>> THEN None ELSE Head(distinct),
            !.preview = IF @ \in Range(distinct) /\ w.documents[@].saved /\ ~Dirty(w, @)
                        THEN @ ELSE None]

\* What is refused of a workspace that is read back.
ProfilesExist(w) ==
    \A id \in DOMAIN w.documents \cap Requests :
        \A draft \in {w.documents[id].request, w.documents[id].savedRequest} \ {None} :
            draft.auth \in Profiles => draft.auth \in w.profiles

Restart ==
    /\ Acts /\ ProfilesExist(workspace)
    /\ Update(ActivateRemainingTab(Projected(workspace)))
    /\ opening' = None /\ removed' = {}
    /\ UNCHANGED <<entries, conflict, made>>

-----------------------------------------------------------------------------

\* A first start with an untitled request, or a project with a saved request,
\* which may have been sent before, and a connection it may be bound to.
Init ==
    /\ \E auth \in {"schema"} \cup Profiles, first \in BOOLEAN, schema \in Schemas :
        LET id == CHOOSE id \in Requests : TRUE
            draft == IF first THEN BlankDraft
                     ELSE [text |-> "typed", auth |-> auth,
                           schema |-> IF auth = "schema" THEN schema ELSE None]
            connection == NewDocument([BlankDraft EXCEPT !.auth = "own"], TRUE)
        IN  /\ first => auth = "schema"
            /\ workspace =
                 [documents |-> [other \in IF first THEN {id} ELSE {id, schema} |->
                                    IF other = id THEN NewDocument(draft, ~first)
                                    ELSE connection],
                  tabs |-> <<id>>, active |-> id, preview |-> None,
                  panels |-> {}, panel |-> None, last |-> None, default |-> None,
                  profiles |-> IF first THEN {} ELSE Profiles, variable |-> None]
            /\ \E sent \in {{}} \cup (IF first THEN {} ELSE {{e} : e \in Entries}) :
                  /\ entries = [e \in Entries |-> IF e \in sent THEN Recorded(id) ELSE None]
                  /\ made = DOMAIN workspace.documents \cup sent
    /\ removed = {} /\ opening = None /\ conflict = None /\ steps = 0

DocumentStep ==
    \/ \E id \in Requests : \/ \E bound \in BOOLEAN : AddRequest(id, bound)
                             \/ \E auth \in {"none", "own"} : ImportCurlAsDocument(id, auth)
                             \/ CreateRequestFromSchema(id)
    \/ \E id \in Schemas : AddSchema(id) \/ NewSchemaConnection(id)
    \/ \E draft \in Drafts : SetRequestDraft(draft)
    \/ \E auth \in Auths : SetSchemaAuth(auth)
    \/ \E id \in Schemas \cup {None} : SelectSchema(id) \/ SetDefaultSchema(id)
    \/ \E id \in Requests : SetVariableSource(id)
    \/ \E id \in Requests \cup Schemas : Discard(id) \/ Delete(id)
    \/ \E id, copy \in Requests \cup Schemas : Duplicate(id, copy)
    \/ DiscardAll \/ Save
    \/ \E profiles \in SUBSET Profiles : WithRequestConfig(profiles)

TabStep ==
    \/ \E id \in Ids : Open(id) \/ Preview(id) \/ Close(id) \/ CloseOthers(id)
    \/ Pin \/ CloseAll
    \/ \E i, j \in DOMAIN workspace.tabs : Reorder(i, j)
    \/ \E p \in Range(Panels) : OpenPanel(p) \/ CloseWorkspaceTab(p)

HistoryStep ==
    \/ \E entry \in Entries : \/ Send(entry) \/ RemoveEntry(entry)
                              \/ \E inPlace \in BOOLEAN : OpenHistory(entry, inPlace)
    \/ HistoryRead \/ CloseRemoved \/ Return \/ Cancel
    \/ \E new \in Requests : Replay(new) \/ DuplicateHistory(new) \/ Decide(new)

Next == DocumentStep \/ TabStep \/ HistoryStep \/ Restart

Spec == Init /\ [][Next]_vars

-----------------------------------------------------------------------------
(* What working with documents, tabs and history must guarantee.           *)

\* Type invariant of WorkspaceEditor; a document is saved exactly when there
\* is a snapshot to revert it to.
TypeOK ==
    /\ DOMAIN workspace.documents \subseteq Ids
    /\ \A id \in DOMAIN workspace.documents : 
          /\ workspace.documents[id] \in Documents
          /\ workspace.documents[id].saved <=> workspace.documents[id].savedRequest # None
    /\ workspace.tabs \in Seq(Ids)
    /\ {workspace.active, workspace.preview} \subseteq Ids \cup {None}
    /\ workspace.panels \subseteq Range(Panels)
    /\ workspace.panel \in Range(Panels) \cup {None}
    /\ {workspace.last, workspace.default} \subseteq Schemas \cup {None}
    /\ workspace.profiles \subseteq Profiles
    /\ workspace.variable \in Requests \cup {None}
    /\ entries \in [Entries -> Documents \cup {None}]
    /\ removed \subseteq Entries
    /\ opening # None => opening.tab \in HistoryTabs /\ opening.doc \in Documents
    /\ conflict # None => conflict.tab \in HistoryTabs /\ conflict.doc \in Documents
    /\ made \subseteq Requests \cup Schemas \cup Entries
    /\ steps \in 0..MaxSteps

-----------------------------------------------------------------------------

\* Each tab stands once for a document there is; while anything is open one
\* tab is on screen, and it is an open one.
OneTabShown ==
    LET w == workspace IN
    /\ Range(w.tabs) \subseteq DOMAIN w.documents
    /\ Cardinality(Range(w.tabs)) = Len(w.tabs)
    /\ w.active \in Range(w.tabs) \cup {None} /\ w.panel \in w.panels \cup {None}
    /\ (w.tabs # <<>> \/ w.panels # {}) => (w.active # None \/ w.panel # None)
    /\ w.preview \in Range(w.tabs) \cup {None}
    /\ Known \cap HistoryTabs \subseteq Range(w.tabs)

\* Deleting a connection detaches "saved and working copies of all linked
\* requests, and clears default/last-used references" (docs/graphql.md), and
\* a deleted request is no variable's source: whatever was opened, replayed,
\* copied and reverted before, no reference is left to a document that is gone.
BindingsResolve ==
    LET w == workspace IN
    /\ \A id \in Known \cap Requests :
          \A draft \in {w.documents[id].request, w.documents[id].savedRequest} \ {None} :
              draft.schema \in Known \cup {None}
    /\ {w.default, w.last, w.variable} \subseteq Known \cup {None}

\* No tab, panel or reference leads nowhere.
NothingDangles == OneTabShown /\ BindingsResolve

-----------------------------------------------------------------------------

Standing(w, id) ==
    \/ id \in Range(w.tabs)
    \/ \E tab \in Range(w.tabs) \cap HistoryTabs : w.documents[tab].source = id

\* Moving about, looking at history and starting the application again never
\* cost the user work: what was typed into a document stays, and so does the
\* tab of a dirty one, unless a history tab of its own was put in its place.
Navigation ==
    \/ \E id \in Ids : Open(id) \/ Preview(id)
    \/ Pin \/ (\E i, j \in DOMAIN workspace.tabs : Reorder(i, j))
    \/ \E p \in Range(Panels) : OpenPanel(p) \/ CloseWorkspaceTab(p)
    \/ HistoryRead \/ CloseRemoved \/ Return \/ Restart

WorkLost(id) ==
    /\ Dirty(workspace, id)
    /\ \/ id \notin Known'
       \/ workspace'.documents[id] # workspace.documents[id]
       \/ id \in Range(workspace.tabs) /\ ~Standing(workspace', id)

NavigationKeepsWork ==
    [][\A id \in Known \cap Requests : WorkLost(id) => ~Navigation]_vars

\* "Dirty saved sources and existing unsaved drafts require an explicit
\* Replace current changes / Create new draft / Cancel choice at Send [...]
\* The source's saved snapshot is never changed by this operation"
\* (docs/workspaces.md): replaying, duplicating and answering the question.
Overwritten(id) ==
    \/ id \notin Known'
    \/ workspace'.documents[id].savedRequest # workspace.documents[id].savedRequest
    \/ /\ workspace'.documents[id].request # workspace.documents[id].request
       /\ Dirty(workspace, id) /\ (conflict = None \/ conflict.doc.source # id)

ReplayAsksFirst ==
    [][\A id \in Known \cap Requests : Overwritten(id) => ~HistoryStep]_vars

\* Unsaved work ends only where the user was asked or said so.
WorkIsKept == NavigationKeepsWork /\ ReplayAsksFirst

-----------------------------------------------------------------------------

\* "Cycles and missing/incompatible selected profiles fail before transport"
\* (docs/auth.md): a request whose profile is gone may fail when it is sent,
\* but the workspace it is in still opens.
WorkspaceReloads == ProfilesExist(workspace)
=============================================================================
