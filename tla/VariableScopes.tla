---------------------------- MODULE VariableScopes ----------------------------
(***************************************************************************)
(* The definitions of variables and the templates that name them           *)
(* (variables-explorer.tsx, rename-variable.ts, the namespace of           *)
(* model/workspace.ts, and the handlers of workspace-workbench.tsx).       *)
(*                                                                         *)
(* A definition lives in the global scope, in the base of a workspace or   *)
(* in one of its environments.  A workspace is its definitions and one     *)
(* request, as it is edited and as it was saved, each naming one variable; *)
(* the value of a static definition may name one too.  Rows are edited at  *)
(* once; the detail form saves the workspace, which takes a while, and     *)
(* what came back is merged with what was edited meanwhile.                *)
(***************************************************************************)
EXTENDS Naturals, FiniteSets

CONSTANTS
    Definitions,    \* identifiers of definitions
    Home,           \* each one's scope: [workspace, environment], or Everywhere
    Workspaces,
    Environments,   \* environments a workspace may have, "base" not among them
    Names,
    None,
    MaxEdits        \* bound: edits of the user

Everywhere == [workspace |-> None, environment |-> "base"]

VARIABLES
    defined,    \* definition -> its name (None: there is none), switch and value
    requests,   \* workspace -> the name its request uses, live and saved
    saving,     \* the save of the detail form under way
    locked,     \* the rows wait for it
    typed,      \* workspaces whose request was edited under it
    overlapped, \* history: definitions were edited under a save
    edits

vars == <<defined, requests, saving, locked, typed, overlapped, edits>>

-----------------------------------------------------------------------------
(* Scopes and what a name means.                                           *)

Is(d, v) == d[v].name # None
Globals == {v \in Definitions : Home[v] = Everywhere}
Of(w) == {v \in Definitions : Home[v].workspace = w}
In(w, e) == {v \in Of(w) : Home[v].environment = e}
Siblings(v) == {u \in Definitions \ {v} : Home[u] = Home[v]}

\* getVariableNamespace and getEffectiveVariables: an enabled definition of the
\* environment before the base's, and that before the global one.
Enabled(d, scope, n) == {v \in scope : d[v].name = n /\ d[v].on}
Effective(d, w, e, n) ==
    LET of(scope) == Enabled(d, scope, n) IN
    IF e # "base" /\ of(In(w, e)) # {} THEN of(In(w, e))
    ELSE IF of(In(w, "base")) # {} THEN of(In(w, "base"))
    ELSE of(Globals)

\* Mutant: a name is only looked for among the definitions shown.
ValidInScope(v, n) == \A u \in Siblings(v) : defined[u].name # n

\* validateVariableName and validateName: no sibling has the name, a workspace's
\* definition has no global one's, and a global one has none of any workspace.
ValidName(v, n) ==
    LET others == {u \in IF v \in Globals THEN Definitions ELSE Siblings(v) \cup Globals : u # v} IN
    \A u \in others : defined[u].name # n

\* Mutant: the overrides in other scopes are not looked at.
CanRenameHere(v, n) == n # defined[v].name /\ ValidName(v, n)

\* variableRenameError: nor has any other scope a rename reaches.
CanRename(v, n) ==
    /\ n # defined[v].name
    /\ ValidName(v, n)
    /\ \A u \in Definitions \ {v} :
           (v \in Globals /\ u \notin Globals) \/ (v \notin Globals /\ Home[u].workspace = Home[v].workspace)
               => defined[u].name # n

-----------------------------------------------------------------------------
(* Renaming.                                                               *)

Renamed(n, from, to) == IF n = from THEN to ELSE n

\* Mutant: only the definition that was edited gets the new name.
RenamedOne(d, vs, from, to) ==
    [v \in Definitions |-> IF v \notin vs THEN d[v] ELSE [d[v] EXCEPT !.text = Renamed(@, from, to)]]

\* renameVariableDefinitions: the overrides with the same name and the values.
RenamedDefinitions(d, vs, from, to) ==
    [v \in Definitions |->
        IF v \notin vs \/ ~Is(d, v) THEN d[v]
        ELSE [d[v] EXCEPT !.name = Renamed(@, from, to), !.text = Renamed(@, from, to)]]

\* Mutant: the saved snapshot is left as it is.
RenamedWorking(r, from, to) == [r EXCEPT !.live = Renamed(@, from, to)]

\* renameWorkspaceReferences, of the request.
RenamedReferences(r, from, to) ==
    [live |-> Renamed(r.live, from, to), saved |-> Renamed(r.saved, from, to)]

\* The workspaces with a definition renamed: its own, or all of them and the
\* global definitions with it.
AfterRename(d, rs, v, from, to) ==
    LET ws == IF v \in Globals THEN Workspaces ELSE {Home[v].workspace}
        vs == UNION {Of(w) : w \in ws} \cup (IF v \in Globals THEN Globals ELSE {}) IN
    [defined |-> RenamedDefinitions([d EXCEPT ![v].name = to], vs, from, to),
     requests |-> [w \in Workspaces |->
                      IF w \in ws THEN RenamedReferences(rs[w], from, to) ELSE rs[w]]]

-----------------------------------------------------------------------------
(* Rows.                                                                   *)

Gone == [name |-> None, on |-> FALSE, text |-> None]
NoSnapshot == [defined |-> [v \in Definitions |-> Gone],
               requests |-> [w \in Workspaces |-> [live |-> None, saved |-> None]]]
Idle == [step |-> "none", variable |-> None, from |-> None, to |-> None, workspace |-> None,
         candidate |-> NoSnapshot, before |-> NoSnapshot]
Saving == saving.step # "none"

Counted == edits < MaxEdits /\ edits' = edits + 1
Edited ==
    /\ Counted /\ overlapped' = (overlapped \/ Saving)
    /\ UNCHANGED <<saving, locked, typed>>

\* The quick row, and a name typed into a row; both wait for a save that this
\* showing of the explorer began.
Add(v, n) ==
    /\ ~locked /\ ~Is(defined, v) /\ ValidName(v, n)
    /\ defined' = [defined EXCEPT ![v] = [name |-> n, on |-> TRUE, text |-> None]]
    /\ Edited /\ UNCHANGED requests

InlineRename(v, n) ==
    /\ ~locked /\ Is(defined, v) /\ CanRename(v, n)
    /\ LET next == AfterRename(defined, requests, v, defined[v].name, n) IN
       /\ defined' = next.defined
       /\ requests' = next.requests
    /\ Edited

\* The switch and the bin of the detail form do not wait.
Toggle(v) ==
    /\ Is(defined, v)
    /\ defined' = [defined EXCEPT ![v].on = ~@]
    /\ Edited /\ UNCHANGED requests
Remove(v) ==
    /\ Is(defined, v)
    /\ defined' = [defined EXCEPT ![v] = Gone]
    /\ Edited /\ UNCHANGED requests

DeleteEnvironment(w, e) ==
    /\ \E v \in In(w, e) : Is(defined, v)
    /\ defined' = [v \in Definitions |-> IF v \in In(w, e) THEN Gone ELSE defined[v]]
    /\ Edited /\ UNCHANGED requests

\* The request is edited, and saved while no explicit save runs.
Type(w, n) ==
    /\ requests[w].live # n
    /\ requests' = [requests EXCEPT ![w].live = n]
    /\ typed' = IF Saving THEN typed \cup {w} ELSE typed
    /\ Counted /\ UNCHANGED <<defined, saving, locked, overlapped>>
SaveRequest(w) ==
    /\ ~Saving /\ requests[w].saved # requests[w].live
    /\ requests' = [requests EXCEPT ![w].saved = requests[w].live]
    /\ Counted /\ UNCHANGED <<defined, saving, locked, typed, overlapped>>

-----------------------------------------------------------------------------
(* The detail form (saveDraft and onSaveVariables).                        *)

\* The name in the form is saved from the workspace w that is open: with the
\* workspace, or, when it is global, after the workspace was saved as it is.
SaveDraft(v, n, w) ==
    /\ ~locked /\ ~Saving /\ Is(defined, v) /\ CanRename(v, n)
    /\ v \in Globals \/ w = Home[v].workspace
    /\ LET now == [defined |-> defined, requests |-> requests] IN
       saving' = [step |-> IF v \in Globals THEN "first" ELSE "workspace",
                  variable |-> v, from |-> defined[v].name, to |-> n, workspace |-> w,
                  candidate |-> IF v \in Globals THEN now
                                ELSE AfterRename(defined, requests, v, defined[v].name, n),
                  before |-> now]
    /\ locked' = TRUE /\ typed' = {}
    /\ Counted /\ UNCHANGED <<defined, requests, overlapped>>

\* saveExplicitWorkspace: definitions edited meanwhile are kept, all of the base
\* or all of the environments; so is the request, whose saved form is the saved one.
MergedDefinitions(d) ==
    LET w == saving.workspace
        base == In(w, "base")
        key(v) == IF v \in base THEN base ELSE Of(w) \ base
        edited(vs) == \E v \in vs : d[v] # saving.before.defined[v] IN
    [v \in Definitions |->
        IF v \notin Of(w) \/ edited(key(v)) THEN d[v] ELSE saving.candidate.defined[v]]
MergedRequest(live) ==
    LET saved == saving.candidate.requests[saving.workspace]
        before == saving.before.requests[saving.workspace] IN
    IF live.live # before.live THEN [saved EXCEPT !.live = live.live] ELSE saved

Merge ==
    /\ defined' = MergedDefinitions(defined)
    /\ requests' = [requests EXCEPT ![saving.workspace] = MergedRequest(@)]

FinishSave ==
    /\ saving.step = "workspace"
    /\ Merge
    /\ saving' = Idle /\ locked' = FALSE
    /\ UNCHANGED <<typed, overlapped, edits>>

\* The store with the renamed global definition is saved next.
FinishFirst ==
    /\ saving.step = "first"
    /\ Merge
    /\ saving' = [saving EXCEPT !.step = "second"]
    /\ UNCHANGED <<locked, typed, overlapped, edits>>

\* Every workspace is renamed as it is by then, and the global definitions are
\* those the form was saved with.
FinishGlobal ==
    /\ saving.step = "second"
    /\ LET v == saving.variable
           globals == [u \in Definitions |->
                          IF u \in Globals THEN saving.before.defined[u] ELSE defined[u]]
           next == AfterRename(globals, requests, v, saving.from, saving.to) IN
       /\ defined' = next.defined
       /\ requests' = next.requests
    /\ saving' = Idle /\ locked' = FALSE
    /\ UNCHANGED <<typed, overlapped, edits>>

SaveFails ==
    /\ Saving
    /\ saving' = Idle /\ locked' = FALSE
    /\ UNCHANGED <<defined, requests, typed, overlapped, edits>>

\* Another tab and back: the explorer that waits is gone.
Leave ==
    /\ locked
    /\ locked' = FALSE
    /\ UNCHANGED <<defined, requests, saving, typed, overlapped, edits>>

-----------------------------------------------------------------------------

\* Definitions a user can have made: enabled, each name once where the rules of
\* ValidName look; a value may name any variable, and so may a request.
Init ==
    /\ defined \in [Definitions -> [name : Names, on : {TRUE}, text : Names \cup {None}] \cup {Gone}]
    /\ \A v \in Definitions : Is(defined, v) => ValidName(v, defined[v].name)
    /\ requests \in [Workspaces -> [live : Names, saved : Names]]
    /\ saving = Idle /\ locked = FALSE
    /\ typed = {} /\ overlapped = FALSE /\ edits = 0

Next ==
    \/ \E v \in Definitions, n \in Names : Add(v, n) \/ InlineRename(v, n)
    \/ \E v \in Definitions : Toggle(v) \/ Remove(v)
    \/ \E v \in Definitions, n \in Names, w \in Workspaces : SaveDraft(v, n, w)
    \/ \E w \in Workspaces, e \in Environments : DeleteEnvironment(w, e)
    \/ \E w \in Workspaces, n \in Names : Type(w, n)
    \/ \E w \in Workspaces : SaveRequest(w)
    \/ FinishSave \/ FinishFirst \/ FinishGlobal \/ SaveFails \/ Leave

Spec == Init /\ [][Next]_vars

-----------------------------------------------------------------------------

\* Types of the state.
TypeOK ==
    /\ defined \in [Definitions ->
          [name : Names \cup {None}, on : BOOLEAN, text : Names \cup {None}]]
    /\ requests \in [Workspaces -> [live : Names, saved : Names]]
    /\ saving.step \in {"none", "workspace", "first", "second"}
    /\ locked => Saving
    /\ typed \subseteq Workspaces /\ overlapped \in BOOLEAN /\ edits \in 0..MaxEdits

\* A name means one definition (docs/environments-and-variables.md): no scope has
\* it twice, and none is both global and a workspace's.
NamesAreUnique ==
    overlapped \/ \A v, u \in {t \in Definitions : Is(defined, t)} :
        u = v \/ defined[u].name # defined[v].name
              \/ (Home[u] # Home[v] /\ {u, v} \cap Globals = {})

\* A rename is followed by what it names: whatever environment is chosen, a name
\* that meant a definition before means it after, in the edited request, in its
\* saved form and in the values of the definitions a rename reaches.  A request
\* edited while the form was being saved keeps the text typed, and definitions
\* edited under a save are not looked at.
RenameFollowed ==
    LET moved == {v \in Definitions : defined[v].name \notin {None, defined'[v].name} /\ Is(defined', v)}
        same(w, old, new) ==
            \A e \in Environments \cup {"base"} :
                LET meant == Effective(defined, w, e, old) IN
                meant = {} \/ Effective(defined', w, e, new) = meant IN
    moved # {} /\ ~overlapped' =>
        \A w \in Workspaces :
            /\ w \in typed \/ same(w, requests[w].live, requests'[w].live)
            /\ same(w, requests[w].saved, requests'[w].saved)
            /\ \A v \in Of(w) \cup (IF moved \cap Globals # {} THEN Globals ELSE {}) :
                   defined[v].text # None => same(w, defined[v].text, defined'[v].text)
=============================================================================
