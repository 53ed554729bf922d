------------------------------- MODULE CookieJar -------------------------------
(***************************************************************************)
(* The session's cookie jars, one to a workspace (model/cookie-jar.ts),    *)
(* the panel that edits the one on display (components/                    *)
(* cookie-jar-editor.tsx), and the copies made of a jar: the cookies of    *)
(* the workspace in the store (workspace-workbench.tsx) and the encrypted  *)
(* records these are saved as (project-projection.ts,                      *)
(* workspace-persistence.ts).                                              *)
(*                                                                         *)
(* A jar is made once, when its workspace is first shown, and is the       *)
(* source of the other copies from then on, but only while its workspace   *)
(* is the one on display is anybody listening to it, and what is heard of  *)
(* a workspace that cannot be written is dropped.  Files that change       *)
(* outside, and the retry of a save, put another list under the jar.       *)
(* Executions keep the jar they started with.  Of a cookie's attributes    *)
(* only its expiry matters here; its name, domain and path are its         *)
(* identity.  The files of a project are readable when the store is        *)
(* loaded, and no load is answered degraded (CommitCoordinator).           *)
(***************************************************************************)
EXTENDS FiniteSets, Naturals

CONSTANTS
    Workspaces,
    Cookies,    \* identities
    MaxEvents   \* a bound

VARIABLES
    jar,        \* per workspace, identity -> what was set last, or Gone
    disabled,   \* per workspace: identities switched off
    built,      \* workspaces with a jar
    available,  \* those of them that executions may be started with
    listed,     \* Workspace.cookies of the store, per workspace
    records,    \* rows of the table cookie_jar, per workspace
    locked,     \* the records could not be read when they were loaded
    readOnly,   \* workspaces with a file that could not be read when it changed
    reloading,  \* the lists a reload started from, or NoReload
    late,       \* dated cookies have expired
    current,    \* the workspace on display
    form,       \* the cookie being edited, or NoForm
    underway,   \* workspaces with an execution that waits for its answer
    gone,       \* history: <<workspace, identity>> that something ended
    behind,     \* history: workspaces whose jar has gone on without the store
    undone,     \* history: workspaces whose list was put back by a reload
    blind,      \* history: workspaces whose jar was made from records not read
    act,        \* history: what was done last, to which cookie of which workspace
    events

sessionVars == <<jar, disabled, built, available, underway>>
loadVars == <<locked, readOnly, reloading>>
heardVars == <<listed, behind, undone>>
historyVars == <<gone, blind, act>>
vars == <<sessionVars, heardVars, records, loadVars, late, current, form, historyVars, events>>

\* A cookie lasts, has a date, or was sent to be forgotten.
Kinds == {"lasting", "dated", "ended"}
Gone == "gone"
Past(kind) == kind = "ended" \/ (kind = "dated" /\ late)

Off == [kind |-> Gone, enabled |-> FALSE]
SessionCookie == {Off} \cup [kind : Kinds, enabled : BOOLEAN]
NoCookies == [c \in Cookies |-> Off]

New == "new"
NoForm == [previous |-> "none"]
NoReload == <<>>

Does(kind, w, c) == events < MaxEvents /\ events' = events + 1 /\ act' = <<kind, w, c>>
Did(kinds, w, c) == act' \in kinds \X {w} \X {c}

\* SessionCookieJar.list: the cookies that have not expired.
List(cookies, off) ==
    [c \in Cookies |->
        IF cookies[c] = Gone \/ Past(cookies[c]) THEN Off
        ELSE [kind |-> cookies[c], enabled |-> c \notin off]]
Has(list, c) == list[c] # Off
Shown == List(jar[current], disabled[current])

-----------------------------------------------------------------------------
(* Making a jar, and listening to it.                                      *)

\* Mutant: the constructor takes every cookie for one in use.
RestoredInUse(list) == {}

\* The constructor switches off what was off.
Restored(list) == {c \in Cookies : list[c].kind # Gone /\ ~list[c].enabled}

Made(w, list) ==
    /\ jar' = [jar EXCEPT ![w] = [c \in Cookies |-> list[c].kind]]
    /\ disabled' = [disabled EXCEPT ![w] = Restored(list)]
    /\ built' = built \cup {w}
    /\ blind' = IF locked THEN blind \cup {w} ELSE blind

\* A workspace comes on display: its jar is the one it has, or a new one of
\* the cookies in the store; the form of the panel goes with the other one.
\* Whether the jar can be used is decided here.
Show(w) ==
    /\ w # current /\ Does("show", w, New)
    /\ current' = w /\ form' = NoForm
    /\ IF w \in built THEN UNCHANGED <<jar, disabled, built, blind>> ELSE Made(w, listed[w])
    /\ available' = IF locked THEN available \ {w} ELSE available \cup {w}
    /\ UNCHANGED <<underway, heardVars, records, loadVars, late, gone>>

\* Mutant: the jars of other workspaces are heard of, and none of this one.
TakesElsewhere(w) == w # current

\* The workspace on display listens; updateWorkspace drops what cannot be written.
Takes(w) == w = current /\ w \notin readOnly

Heard(w, list) ==
    /\ listed' = IF Takes(w) THEN [listed EXCEPT ![w] = list] ELSE listed
    /\ behind' = IF Takes(w) THEN behind \ {w} ELSE behind \cup {w}
    /\ undone' = IF Takes(w) THEN undone \ {w} ELSE undone

\* What an operation leaves in the jar, told to whoever listens (changed).
Changed(w, cookies, off) ==
    /\ jar' = [jar EXCEPT ![w] = cookies] /\ disabled' = [disabled EXCEPT ![w] = off]
    /\ Heard(w, List(cookies, off))

-----------------------------------------------------------------------------
(* Executions.                                                             *)

\* assertAvailable, after sending is refused where nothing can be written; looking
\* the cookies up for the header drops expired ones.
Send ==
    /\ current \in available \ (underway \cup readOnly)
    /\ Does("send", current, New)
    /\ underway' = underway \cup {current}
    /\ jar' = [jar EXCEPT ![current] =
                  [c \in Cookies |-> IF Past(@[c]) THEN Gone ELSE @[c]]]
    /\ UNCHANGED <<disabled, built, available, heardVars, records, loadVars, late, current, form,
                   gone, blind>>

\* Mutant: a cookie that is set again is switched on again.
ReceivedOn(w, set) == disabled[w] \ DOMAIN set

\* A cookie that is set again stays off.
ReceivedOff(w, set) == disabled[w]

\* receive: what the policy accepts of the headers; foreign and malformed
\* cookies are passed over.
Receive(w) ==
    /\ w \in underway
    /\ underway' = underway \ {w}
    /\ \E set \in [Cookies -> Kinds \cup {Gone}] :
        /\ Cardinality({c \in Cookies : set[c] # Gone}) <= 1
        /\ Does("receive", w, New)
        /\ LET accepted == [c \in {d \in Cookies : set[d] # Gone} |-> set[c]] IN
           /\ Changed(w, [c \in Cookies |-> IF set[c] # Gone THEN set[c] ELSE jar[w][c]],
                      ReceivedOff(w, accepted))
           /\ gone' = gone \cup {<<w, c>> : c \in {d \in DOMAIN accepted : Past(set[d])}}
    /\ UNCHANGED <<built, available, records, loadVars, late, current, form, blind>>

\* Dates pass.  The list is made up anew with the next change.
Expire ==
    /\ ~late /\ Does("expire", current, New)
    /\ late' = TRUE
    /\ gone' = gone \cup {x \in Workspaces \X Cookies :
                   "dated" \in {jar[x[1]][x[2]], listed[x[1]][x[2]].kind, records[x[1]][x[2]].kind}}
    /\ UNCHANGED <<sessionVars, heardVars, records, loadVars, current, form, blind>>

-----------------------------------------------------------------------------
(* The panel.                                                              *)

StaysOpen == UNCHANGED <<built, available, underway, records, loadVars, late, current, blind>>

Switched(off, c) == IF c \in off THEN off \ {c} ELSE off \cup {c}
Toggle(c) ==
    /\ Has(Shown, c) /\ Does("toggle", current, c)
    /\ Changed(current, jar[current], Switched(disabled[current], c))
    /\ StaysOpen /\ UNCHANGED <<form, gone>>

Without(w, c) == Changed(w, [jar[w] EXCEPT ![c] = Gone], disabled[w] \ {c})

\* The form of a cookie that is deleted closes.
Remove(c) ==
    /\ Has(Shown, c) /\ Does("remove", current, c)
    /\ Without(current, c)
    /\ form' = IF form # NoForm /\ form.previous = c THEN NoForm ELSE form
    /\ gone' = gone \cup {<<current, c>>}
    /\ StaysOpen

\* A new cookie, or a copy of one in the list; the form has no switch of its
\* own, and keeps that of the copy.
Open(previous, cookie) ==
    /\ form = NoForm /\ Does("open", current, New)
    /\ form' = [previous |-> previous, id |-> cookie[1], kind |-> cookie[2],
                enabled |-> cookie[3], valid |-> previous # New, error |-> FALSE]
    /\ UNCHANGED <<sessionVars, heardVars, records, loadVars, late, current, gone, blind>>
Add == \E c \in Cookies : Open(New, <<c, "lasting", TRUE>>)
Edit(c) == Has(Shown, c) /\ Open(c, <<c, Shown[c].kind, Shown[c].enabled>>)

\* Fields are typed in: of a cookie that save accepts, or of one it refuses.
Type ==
    /\ form # NoForm /\ Does("type", current, New)
    /\ \E c \in Cookies, kind \in {"lasting", "dated"}, valid \in BOOLEAN :
        /\ form' = [form EXCEPT !.id = c, !.kind = kind, !.valid = valid]
        /\ form' # form
    /\ UNCHANGED <<sessionVars, heardVars, records, loadVars, late, current, gone, blind>>

Cancel ==
    /\ form # NoForm /\ Does("cancel", current, New)
    /\ form' = NoForm
    /\ UNCHANGED <<sessionVars, heardVars, records, loadVars, late, current, gone, blind>>

\* save throws: the form stays, with the message.
Refuse ==
    /\ form # NoForm /\ ~form.valid /\ ~form.error /\ Does("refuse", current, New)
    /\ form' = [form EXCEPT !.error = TRUE]
    /\ UNCHANGED <<sessionVars, heardVars, records, loadVars, late, current, gone, blind>>

\* Mutant: the cookie that was edited goes, whatever it is now.
ReplacedAlways == {form.previous}

\* A cookie that was given another name, domain or path is another one.
Replaced == {form.previous} \ {form.id}

\* save: set, remove what the form was opened for, then the switch.
Stored(w, cookie) ==
    LET others == disabled[w] \ (Replaced \cup {cookie.id}) IN
    Changed(w,
            [c \in Cookies |-> IF c \in Replaced THEN Gone
                               ELSE IF c = cookie.id THEN cookie.kind ELSE jar[w][c]],
            IF cookie.enabled THEN others ELSE others \cup {cookie.id})

Save ==
    /\ form # NoForm /\ form.valid /\ Does("save", current, form.id)
    /\ Stored(current, form)
    /\ form' = NoForm
    /\ gone' = gone \cup {<<current, c>> : c \in Replaced \cap Cookies}
                    \cup IF Past(form.kind) THEN {<<current, form.id>>} ELSE {}
    /\ StaysOpen

-----------------------------------------------------------------------------
(* The records.                                                            *)

\* Mutant: rows that could not be read are taken for rows that went.
UnavailableNone(w) == {}

\* Rows that could not be read are neither written nor removed.
Unavailable(w) == {c \in Cookies : locked /\ Has(records[w], c)}

\* persist: the rows that differ from those last read.
Desired(w) ==
    [c \in Cookies |-> IF c \in Unavailable(w) THEN records[w][c] ELSE listed[w][c]]

\* Rows are sealed, so that none is written without the keys.
Persist(w) ==
    /\ w \notin readOnly /\ Desired(w) # records[w]
    /\ locked => \A c \in Cookies : Desired(w)[c] \in {records[w][c], Off}
    /\ Does("persist", w, New)
    /\ records' = [records EXCEPT ![w] = Desired(w)]
    /\ gone' = gone \ {<<w, c>> : c \in {d \in Cookies : Desired(w)[d].kind # Gone /\ ~Past(Desired(w)[d].kind)}}
    /\ UNCHANGED <<sessionVars, heardVars, loadVars, late, current, form, blind>>

\* What a load finds, with the keys at hand or without.
Loaded(withKeys) ==
    /\ locked' = ~withKeys /\ readOnly' = {} /\ undone' = {} /\ reloading' = NoReload
    /\ listed' = IF withKeys THEN records ELSE [w \in Workspaces |-> NoCookies]

\* Retry / Unlock, offered while the keys or some secret are away: the store is
\* loaded again, and the jars are those there are.
RetryProtectedStorage ==
    /\ reloading = NoReload /\ Does("retry", current, New)
    /\ \E withKeys \in BOOLEAN :
        /\ Loaded(withKeys)
        /\ available' = IF withKeys THEN available \cup {current} ELSE available \ {current}
    /\ behind' = behind \cup built
    /\ UNCHANGED <<jar, disabled, built, underway, records, late, current, form, gone, blind>>

\* Files of a workspace changed outside, or a save is retried: a reload starts from
\* the cookies in the store, of that workspace or of all.  One reload at a time is
\* the queue's, and the last event is left for what happens before it ends.
Reload ==
    /\ reloading = NoReload /\ events + 1 < MaxEvents
    /\ \E some \in {{w} : w \in Workspaces} \cup {Workspaces} :
        reloading' = [w \in some |-> listed[w]]
    /\ UNCHANGED <<sessionVars, heardVars, records, locked, readOnly, late, current, form,
                   historyVars, events>>

\* It throws: a file cannot be read, which takes the workspace's writing away, or
\* edits conflict.
ReloadFails ==
    /\ reloading # NoReload /\ Does("reload", current, New)
    /\ \E w \in DOMAIN reloading : readOnly' \in {readOnly, readOnly \cup {w}}
    /\ reloading' = NoReload
    /\ UNCHANGED <<sessionVars, heardVars, records, locked, late, current, form, gone, blind>>

\* The cookies it gives back are those it started from; where no file changed that
\* is of a retry.  Without the keys the records last read may come instead, of which
\* none could be.
Reloaded ==
    /\ reloading # NoReload /\ Does("reload", current, New)
    /\ \E changed \in SUBSET DOMAIN reloading :
        /\ changed = DOMAIN reloading \/ DOMAIN reloading = Workspaces
        /\ readOnly' = readOnly \ changed
        /\ \E unread \in SUBSET (IF locked THEN changed ELSE {}) :
            LET restored(w) == IF w \in unread THEN NoCookies ELSE reloading[w]
                replaced == {w \in DOMAIN reloading : restored(w) # listed[w]} IN
            /\ listed' = [w \in Workspaces |-> IF w \in replaced THEN restored(w) ELSE listed[w]]
            /\ behind' = behind \cup (replaced \cap built)
            /\ undone' = undone \cup replaced
    /\ reloading' = NoReload
    /\ UNCHANGED <<sessionVars, records, locked, late, current, form, gone, blind>>

\* The application ends, whatever it had saved, and starts again.
Restart ==
    /\ Does("restart", current, New)
    /\ \E withKeys \in BOOLEAN :
        /\ Loaded(withKeys)
        /\ LET list == IF withKeys THEN records[current] ELSE NoCookies IN
           /\ jar' = [w \in Workspaces |-> [c \in Cookies |-> IF w = current THEN list[c].kind ELSE Gone]]
           /\ disabled' = [w \in Workspaces |-> IF w = current THEN Restored(list) ELSE {}]
        /\ blind' = IF withKeys THEN {} ELSE {current}
        /\ available' = IF withKeys THEN {current} ELSE {}
    /\ built' = {current} /\ underway' = {} /\ behind' = {} /\ form' = NoForm
    /\ UNCHANGED <<records, late, current, gone>>

-----------------------------------------------------------------------------

Init ==
    /\ records \in [Workspaces -> [Cookies -> {Off} \cup [kind : {"lasting", "dated"}, enabled : BOOLEAN]]]
    /\ current \in Workspaces /\ locked \in BOOLEAN
    /\ listed = IF locked THEN [w \in Workspaces |-> NoCookies] ELSE records
    /\ jar = [w \in Workspaces |-> [c \in Cookies |-> IF w = current THEN listed[w][c].kind ELSE Gone]]
    /\ disabled = [w \in Workspaces |-> IF w = current THEN Restored(listed[w]) ELSE {}]
    /\ built = {current} /\ blind = IF locked THEN {current} ELSE {}
    /\ available = IF locked THEN {} ELSE {current}
    /\ late = FALSE /\ form = NoForm /\ underway = {}
    /\ readOnly = {} /\ reloading = NoReload
    /\ gone = {} /\ behind = {} /\ undone = {} /\ act = <<"start", current, New>> /\ events = 0

Next ==
    \/ \E w \in Workspaces : Show(w) \/ Receive(w) \/ Persist(w)
    \/ \E c \in Cookies : Toggle(c) \/ Remove(c) \/ Edit(c)
    \/ Send \/ Expire \/ Add \/ Type \/ Cancel \/ Refuse \/ Save
    \/ RetryProtectedStorage \/ Reload \/ ReloadFails \/ Reloaded \/ Restart

-----------------------------------------------------------------------------
(* What is promised.                                                       *)

\* The variables stay of their types, and only a workspace that was shown has
\* a jar.
TypeOK ==
    /\ jar \in [Workspaces -> [Cookies -> Kinds \cup {Gone}]]
    /\ disabled \in [Workspaces -> SUBSET Cookies]
    /\ listed \in [Workspaces -> [Cookies -> SessionCookie]]
    /\ records \in [Workspaces -> [Cookies -> SessionCookie]]
    /\ current \in built /\ available \subseteq built /\ underway \subseteq built
    /\ built \subseteq Workspaces /\ behind \subseteq built /\ blind \subseteq built
    /\ readOnly \subseteq Workspaces /\ undone \subseteq Workspaces
    /\ form # NoForm => form.id \in Cookies /\ form.previous \in Cookies \cup {New}

\* The store has the cookies of a jar as the jar has them, whoever changed it,
\* except those that expired since; unless an answer came while another
\* workspace was on display, the workspace could not be written when its jar
\* changed, or the store was loaded again, or put back by a reload, under the jar.
StoreHasJar ==
    \A w \in built \ behind : \A c \in Cookies :
        LET inJar == List(jar[w], disabled[w])[c] IN
        IF inJar # Off THEN listed[w][c] = inJar
        ELSE listed[w][c] = Off \/ Past(listed[w][c].kind)

\* A cookie is switched on or off by the user alone, in its row or by saving
\* it: not by a server that sets it again.
SwitchesHold ==
    \A w \in built \cap built' : \A c \in Cookies :
        (/\ act'[1] # "restart" /\ List(jar[w], disabled[w])[c] # Off
         /\ List(jar[w], disabled[w])'[c] # Off
         /\ (c \in disabled[w]) # (c \in disabled'[w])) =>
            Did({"toggle", "save"}, w, c)

\* A cookie leaves its jar by being removed, saved under another identity, by
\* a server or by its date; never by a change of another one, and not by
\* saving it as what it is.
CookiesStay ==
    \A w \in built \cap built' : \A c \in Cookies :
        (act'[1] # "restart" /\ List(jar[w], disabled[w])[c] # Off
            /\ List(jar[w], disabled[w])'[c] = Off) =>
                /\ <<w, c>> \in gone'
                /\ act'[1] = "save" /\ ~Past(form.kind) => form.id # c /\ jar'[w][form.id] = form.kind

\* A cookie that was saved stays saved until something ended it: locked
\* storage, a restart or a workspace nobody shows take none away.  The jar
\* made while storage was locked is excepted: it is the source of the records
\* after Retry as well, although it never had what they hold; and so is a list that
\* a reload has put back behind what was heard, and saved, in the meantime.
SavedCookiesStay ==
    \A w \in Workspaces \ (blind \cup undone) : \A c \in Cookies :
        Has(records[w], c) /\ ~Has(records'[w], c) => <<w, c>> \in gone
=============================================================================
