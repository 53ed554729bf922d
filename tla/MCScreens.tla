------------------------------ MODULE MCScreens ------------------------------
(***************************************************************************)
(* The machines behind the screens, each checked by itself: the initial    *)
(* state says which of them runs, and the others stay as they are.         *)
(***************************************************************************)
EXTENDS WorkspaceEditor, FiniteSets, TLC

CONSTANTS
    d1, d2, d3, s1, p1, e1, cookies, preferences, none,      \* the workspace
    n1, n2, a,                                            \* parameters and a value
    w1, w2,                                               \* workspaces with variables
    f1, f2                                                \* folders

VARIABLES
    part,
    draft, profile, section, pending, headerEdits,
    url, params, pathParams, auth, queryEdits,
    index, entryRows, entrySecrets, days, now, sent, fifo, listing, calls, overtaken, drifted,
    pages, pageEvents, viewer, viewerEvents,
    jsonBody, graphql, mode, language, query, menu,
    written, notice, origin, bodyEvents,
    form, formData, urlEncoded, sentRows, formEdits,
    defined, uses, saving, locked, typed, underSave, scopeEdits,
    config, vault, unlocked, statuses, inspections, epoch, managing, job, revealed, owned,
    unsure, commits, elsewhere,
    rows, inFolder, order, hidden, selected, drag, tabs, openPanels, shown, preview, hold, moves,
    jars, switchedOff, jarsMade, usable, underway, listed, cookieRows, keysAway, unwritable, fromLists,
    late, onDisplay, cookieForm, ended, behind, undone, blind, act, cookieEvents,
    composed, answers, codeDialog, preparing, overdue, execution, codeEvents

headerVars == <<draft, profile, section, pending, headerEdits>>
queryVars == <<url, params, pathParams, auth, queryEdits>>
historyVars == <<index, entryRows, entrySecrets, days, now, sent, fifo, listing, calls,
    overtaken, drifted>>
contentVars == <<pages, pageEvents>>
viewerVars == <<viewer, viewerEvents>>
bodyVars == <<jsonBody, graphql, mode, language, query, menu>>
conversionVars == <<written, notice, origin, bodyEvents>>
formVars == <<form, formData, urlEncoded, sentRows, formEdits>>
scopeVars == <<defined, uses, saving, locked, typed, underSave, scopeEdits>>
inventoryVars == <<config, vault, unlocked, statuses, inspections, epoch, managing, job, revealed,
    owned, unsure, commits, elsewhere>>
navigationVars == <<rows, inFolder, order, hidden, selected, drag, tabs, openPanels, shown,
    preview, hold, moves>>
cookieVars == <<jars, switchedOff, jarsMade, usable, underway, listed, cookieRows, keysAway, unwritable,
    fromLists, late, onDisplay, cookieForm, ended, behind, undone, blind, act, cookieEvents>>
codeVars == <<composed, answers, codeDialog, preparing, overdue, execution, codeEvents>>
requestVars == <<headerVars, queryVars, conversionVars, formVars, scopeVars, inventoryVars>>
responseVars == <<contentVars, viewerVars, bodyVars>>
listVars == <<historyVars, navigationVars, cookieVars, codeVars>>
allVars == <<part, vars, requestVars, listVars, responseVars>>

-----------------------------------------------------------------------------
(* Values of a JSON body and documents an XML body is typed as.            *)

Json3(type, text, items) == [type |-> type, text |-> text, items |-> items]
Nothing == Json3("null", "", <<>>)
Counts == {Nothing, Json3("string", "", <<>>), Json3("integer", "1", <<>>)}
Lists(S) == {Json3("list", "", q) : q \in UNION {[1..i -> S] : i \in 0..2}}
Objects(S, keys) == {Json3("object", "", q) : q \in UNION {[k -> S] : k \in SUBSET keys}}
Flat == Counts \union Lists(Counts) \union Objects(Counts, {"item", "root"})
Marked ==
    Objects({Json3("string", "x", <<>>), Json3("integer", "1", <<>>)}, {"@_n", "#text"})
      \union Objects({Json3("string", "x", <<>>)}, {"@_n", "item"})
      \union Objects({Json3("string", "x", <<>>)}, {"#text", "item"})
StartBodies ==
    LET ones == {v \in Flat : v \notin Counts /\ Cardinality(DOMAIN v.items) <= 1} IN
    Flat \union Lists(ones \union {Nothing})
         \union Objects(ones \union {Nothing}, {"item", "root"})
         \union Objects(Counts, {"1"})
         \union Lists(Lists({Json3("list", "", <<>>), Nothing}))
         \union Marked \union Objects(Marked, {"root"}) \union Objects(Marked, {"item"})
Markup(text, children) ==
    [nil |-> FALSE, type |-> "", text |-> text, attributes |-> <<>>, children |-> children]
TypedPages ==
    {[root |-> "root", element |-> Markup("", <<>>), declared |-> FALSE, mixed |-> FALSE],
     [root |-> "root", element |-> Markup("x", <<>>), declared |-> FALSE, mixed |-> TRUE],
     [root |-> "item", declared |-> FALSE, mixed |-> FALSE,
      element |-> Markup("", [n \in {"item"} |-> <<Markup("x", <<>>), Markup("y", <<>>)>>])]}

OnePanel == <<preferences>>

Rows == INSTANCE HeaderRows WITH edits <- headerEdits, MaxEdits <- 2

Query == INSTANCE QueryRows
    WITH edits <- queryEdits, Names <- {n1, n2}, Values <- {a}, KeyName <- n1,
         MaxEdits <- 2

Executions == INSTANCE ExecutionHistory
    WITH queue <- fifo, rows <- entryRows, secrets <- entrySecrets, panel <- listing,
         Newest <- 3, Found <- {1, 3}, PageSize <- 1, MaxTime <- 4, MaxCalls <- 2

StoredBody == INSTANCE ContentViewer
    WITH view <- pages, events <- pageEvents, Exchanges <- {"json", "page"},
         Small <- {"json"}, MatchesOf <- <<1, 2>>, MaxEvents <- 4

FoundIn(response, tab, as) ==
    CASE tab = "response" -> IF as = "raw" THEN 1 ELSE response + 1
      [] tab = "headers" -> 2
      [] OTHER -> 0
Viewer == INSTANCE ResponseViewer
    WITH view <- viewer, events <- viewerEvents, Responses <- {1, 2}, Stored <- {2},
         Graphql <- {1}, Found <- FoundIn, MaxEvents <- 6

Fields == {"data", "name"}
Json(type, items) == [type |-> type, items |-> items]
Number == Json("leaf", <<>>)
Grown(S) ==
    S \union {Json("list", q) : q \in UNION {[1..i -> S] : i \in 0..2}}
      \union {Json("object", q) : q \in UNION {[k -> S] : k \in SUBSET Fields}}
Panel == INSTANCE ResponseQuery
    WITH body <- jsonBody, Keys <- Fields, Bodies <- {Json("none", <<>>)} \union Grown(Grown({Number})),
         Later <- {Json("none", <<>>),
                   Json("list", <<Json("object", [k \in {"name"} |-> Number]), Number>>)}

Form == INSTANCE FormFields
    WITH type <- form, sent <- sentRows, edits <- formEdits, Files <- {"f", "g"}, Names <- {"n"},
         MaxEdits <- 3

\* A global definition, one of a workspace and one of its environment, and one
\* of another workspace.
HomeOf(v) ==
    [workspace |-> CASE v = "global" -> none [] v = "other" -> w2 [] OTHER -> w1,
     environment |-> IF v = "override" THEN e1 ELSE "base"]
Definitions == {"global", "base", "override", "other"}
Scopes == INSTANCE VariableScopes
    WITH requests <- uses, overlapped <- underSave, edits <- scopeEdits,
         Home <- [v \in Definitions |-> HomeOf(v)], Workspaces <- {w1, w2}, Environments <- {e1},
         Names <- {"x", "y", "z"}, None <- none, MaxEdits <- 2

\* Definitions with each of the overlaps a rename has to look for.
DefinedAs(n, text) == [name |-> n, on |-> TRUE, text |-> text]
SomeDefined ==
    {("global" :> g @@ "base" :> b @@ "override" :> o @@ "other" :> DefinedAs("y", "x")) :
        g \in {Scopes!Gone, DefinedAs("x", none)}, b \in {Scopes!Gone, DefinedAs("y", "x")},
        o \in {Scopes!Gone, DefinedAs("y", none), DefinedAs("z", none)}}
SomeUses ==
    {(w1 :> [live |-> n, saved |-> "y"] @@ w2 :> [live |-> "x", saved |-> "y"]) : n \in {"x", "y"}}

Secrets == INSTANCE SecretInventory
    WITH open <- managing, Names <- {n1, n2}, MaxCommits <- 1, MaxElsewhere <- 1, MaxEpoch <- 2

\* One secret, somewhere, and where the request comes to it: by a name in one of
\* its texts, by another variable, by the answer of a request.
Protected == [Secrets!Gone EXCEPT !.kind = "secret", !.on = TRUE]
Saying(names) == [kind |-> "text", on |-> TRUE, names |-> names]
Plain ==
    [defs |-> [l \in Secrets!Layers |-> [n \in {n1, n2} |-> Secrets!Gone]],
     active |-> FALSE, own |-> FALSE, url |-> {}, auth |-> "none", wantsAuth |-> TRUE,
     token |-> Secrets!Gone, profile |-> Secrets!Gone, header |-> Secrets!Gone,
     shared |-> Secrets!Gone, wantsShared |-> TRUE, sameName |-> FALSE, source |-> {}]
At(layer) == [Plain EXCEPT !.defs[layer][n1] = Protected]
Naming(c, names) ==
    {[c EXCEPT !.url = names], [c EXCEPT !.auth = "bearer", !.token = Saying(names)],
     [c EXCEPT !.header = Saying(names)], [c EXCEPT !.profile = Saying(names)],
     [c EXCEPT !.shared = Saying(names)]}
Chained(c, layer) ==
    {[c EXCEPT !.defs[layer][n2] = Saying({n1})],
     [c EXCEPT !.defs[layer][n2] = [Saying({}) EXCEPT !.kind = "dynamic"], !.source = {n1}]}
Managed == [At("workspace") EXCEPT !.url = {n1}, !.defs["environment"][n2] = Protected]
SomeConfigs ==
    LET environments == [active : BOOLEAN, own : BOOLEAN]
        within(c) == {[c EXCEPT !.active = e.active, !.own = e.own] : e \in environments} IN
    UNION {within(c) : c \in
        {Managed} \union UNION {Naming(At(l), {n1}) : l \in Secrets!Layers}
        \union UNION {Naming(c, {n2}) : c \in UNION {Chained(At(l), "workspace") : l \in {"global", "environment"}}}}

Tree == INSTANCE DocumentNavigation
    WITH items <- rows, folderId <- inFolder, panels <- openPanels, active <- shown, edits <- moves,
         Documents <- {d1, d2, d3}, Folders <- {f1, f2}, None <- none, MaxEdits <- 2

\* Nothing saved yet, a tree without depth, and one with a folder in a folder.
Trees ==
    {<<>>, [i \in Tree!Items |-> none],
     [i \in Tree!Items |-> CASE i \in {d1, f2} -> f1 [] i = d2 -> f2 [] OTHER -> none]}

Cookies == INSTANCE CookieJar
    WITH jar <- jars, disabled <- switchedOff, built <- jarsMade, available <- usable,
         records <- cookieRows, locked <- keysAway, readOnly <- unwritable,
         reloading <- fromLists, current <- onDisplay, form <- cookieForm,
         gone <- ended, events <- cookieEvents,
         Workspaces <- {w1, w2}, Cookies <- {n1, n2}, MaxEvents <- 5

\* A workspace with a cookie that is off and one with a date, or with none.
Kept(kind, on) == [kind |-> kind, enabled |-> on]
SomeCookies ==
    {w1 :> first @@ w2 :> (n1 :> Kept("lasting", TRUE) @@ n2 :> Cookies!Off) :
        first \in {Cookies!NoCookies, n1 :> Kept("lasting", FALSE) @@ n2 :> Kept("dated", TRUE)}}

\* Requests with a text in one place, alone; with a variable there, which may
\* come to another; or with an output there, of a request that may need one too.
\* The last has an output in both environments.
Says(kind, names) == [kind |-> kind, names |-> names]
Undefined == [kind |-> "none", names |-> {}, source |-> "editor", environment |-> "current"]
Meaning(kind, names) == [Undefined EXCEPT !.kind = kind, !.names = names]
From(d, e) == [Undefined EXCEPT !.kind = "output", !.source = d, !.environment = e]
AnyPlace == {"url", "header", "auth", "body"}
Bare ==
    [url |-> Says("public", {}), header |-> Says("none", {}), auth |-> Says("none", {}),
     body |-> Says("none", {}), valid |-> TRUE, cookies |-> FALSE]
Asking(q, kind, names) == [Bare EXCEPT ![q] = Says(kind, names)]
OfRequest(r) ==
    [request |-> [d \in {"editor"} |-> r],
     defined |-> [e \in {"base", e1} |-> [n \in {n1, n2} |-> Undefined]]]
Where(c, n, d) ==
    [c EXCEPT !.defined = [e \in {"base", e1} |-> [c.defined[e] EXCEPT ![n] = d]]]
Reading(c, d, r) == [c EXCEPT !.request = (d :> r) @@ @]
Alone ==
    {OfRequest([Asking(q, kind, {}) EXCEPT !.cookies = (kind = "typed")]) :
        q \in {"header", "auth"}, kind \in {"public", "typed", "stored", "deleted"}}
    \union {OfRequest([Bare EXCEPT !.valid = FALSE]), OfRequest(Asking("auth", "missing", {}))}
WithVariables ==
    {Where(OfRequest(Asking(q, "none", {n1})), n1, Meaning(k, {})) : q \in AnyPlace,
        k \in {"none", "typed", "stored", "deleted", "twice", "off"}}
    \union
    {Where(Where(OfRequest(Asking(q, "public", {n1})), n1, Meaning("public", {n2})), n2, d) :
        q \in AnyPlace,
        d \in {Meaning("typed", {}), Meaning("stored", {}), Meaning("public", {n1})}}
WithOutputs ==
    LET root(q) == Where(OfRequest(Asking(q, IF q = "body" THEN "public" ELSE "none", {n1})),
                         n1, From(d1, "current")) IN
    UNION {
        {root(q), Reading([root(q) EXCEPT !.request["editor"].valid = FALSE], d1, Bare),
         Reading(root(q), d1, Asking("auth", "typed", {})),
         Reading(root(q), d1, Asking("url", "none", {n1}))}
        \union {Where(Reading(root(q), d1, Asking(r, "public", {n2})), n2, Meaning(k, {})) :
            r \in {"url", "body"}, k \in {"typed", "stored"}}
        \union {Where(Reading(Reading(root(q), d1, Asking("url", "none", {n2})), d2, Bare),
                      n2, From(d2, e)) : e \in {"current", e1}} : q \in AnyPlace}
    \union {Reading(Reading(
        Where(Where(OfRequest(Asking("url", "none", {n1, n2})), n1, From(d1, "current")),
              n2, From(d2, e1)), d1, Bare), d2, Asking("body", "none", {n1}))}
SomeComposed == Alone \union WithVariables \union WithOutputs

\* A variable that is in use may become another text, or a secret.
Code == INSTANCE RequestCode
    WITH project <- composed, unlocked <- answers, dialog <- codeDialog, job <- preparing,
         late <- overdue, send <- execution, events <- codeEvents,
         Order <- <<n1, n2>>, Sources <- {d1, d2}, Environments <- {"base", e1},
         Current <- "current", Home <- "base", Projects <- SomeComposed,
         Edits <- {Meaning("public", {}), Meaning("typed", {})}, MaxFiles <- 2, MaxEvents <- 3

\* Values three deep: lists and objects of none, one and two, keys that name
\* what the conversion itself writes or writes as it is, and one key no element
\* can have.
Written == INSTANCE BodyConversion
    WITH body <- written, events <- bodyEvents, XmlNames <- {"root", "item"},
         Bodies <- StartBodies, Pages <- TypedPages, MaxEvents <- 4

-----------------------------------------------------------------------------

\* The machines that stand still have one state to stand in.
ScreensInit ==
    /\ part \in {"editor", "headers", "query", "history", "content", "viewer", "body",
                 "conversion", "form", "variables", "inventory", "navigation", "cookies",
                 "code"}
    /\ Init /\ (part # "editor" => workspace.profiles = {})
    /\ Rows!Init /\ (part # "headers" => draft.headers = Rows!NewHeaders)
    /\ Query!Init /\ Executions!Init /\ Form!Init
    /\ StoredBody!Init /\ (part # "content" => pages.exchange = "json")
    /\ Viewer!Init /\ (part # "viewer" => viewer.response = 1)
    /\ Panel!Init /\ (part # "body" => jsonBody = Number /\ graphql = FALSE)
    /\ defined \in SomeDefined /\ uses \in SomeUses /\ Scopes!Init
    /\ part # "variables" => defined["global"] = Scopes!Gone /\ defined["base"] = Scopes!Gone
                              /\ defined["override"] = Scopes!Gone /\ uses[w1].live = "x"
    /\ config \in IF part = "inventory" THEN SomeConfigs ELSE {Plain}
    /\ vault = [r \in Secrets!Refs |-> Secrets!Empty(r)] /\ Secrets!Start
    /\ unlocked \in {TRUE, part = "inventory" => config # Managed}
    /\ inFolder \in Trees /\ Tree!Init
    /\ part # "navigation" => rows = <<>>
    /\ cookieRows \in SomeCookies /\ onDisplay = w1 /\ Cookies!Init
    /\ part # "cookies" => ~keysAway /\ cookieRows[w1] = Cookies!NoCookies
    /\ composed \in IF part = "code" THEN SomeComposed ELSE {OfRequest(Bare)}
    /\ answers \in {TRUE, part # "code"} /\ Code!Begun
    /\ Written!Init /\ (part # "conversion" => written.json = Written!Text(Nothing))

\* One of the machines takes a step, and the others stand still.
Only(machine, A, others) == part = machine /\ A /\ UNCHANGED <<part, others>>

OfEditor == Only("editor", Next, <<requestVars, listVars, responseVars>>)
OfHeaders ==
    Only("headers", Rows!Next,
         <<vars, queryVars, conversionVars, formVars, scopeVars, inventoryVars, listVars,
           responseVars>>)
OfQuery ==
    Only("query", Query!Next,
         <<vars, headerVars, conversionVars, formVars, scopeVars, inventoryVars, listVars,
           responseVars>>)
OfConversion ==
    Only("conversion", Written!Next,
         <<vars, headerVars, queryVars, formVars, scopeVars, inventoryVars, listVars,
           responseVars>>)
OfForm ==
    Only("form", Form!Next,
         <<vars, headerVars, queryVars, conversionVars, scopeVars, inventoryVars, listVars,
           responseVars>>)
OfVariables ==
    Only("variables", Scopes!Next,
         <<vars, headerVars, queryVars, conversionVars, formVars, inventoryVars, listVars, responseVars>>)
OfInventory ==
    Only("inventory", Secrets!Next /\ (managing' => config.defs["environment"][n2] = Protected),
         <<vars, headerVars, queryVars, conversionVars, formVars, scopeVars, listVars,
           responseVars>>)
OfHistory ==
    Only("history", Executions!Next,
         <<vars, requestVars, navigationVars, cookieVars, codeVars, responseVars>>)
OfTree ==
    Only("navigation", Tree!Next,
         <<vars, requestVars, historyVars, cookieVars, codeVars, responseVars>>)
\* Bound: reloads are of w1, with a file that may be unreadable, or of both; no cookie
\* is edited under one, and no date has passed.
ReloadsOfInterest ==
    /\ DOMAIN fromLists' # {w2} /\ w2 \notin unwritable'
    /\ fromLists' # Cookies!NoReload => cookieForm' = Cookies!NoForm /\ ~late'
OfCookies ==
    Only("cookies", Cookies!Next /\ ReloadsOfInterest,
         <<vars, requestVars, historyVars, navigationVars, codeVars, responseVars>>)
OfCode ==
    Only("code", Code!Next,
         <<vars, requestVars, historyVars, navigationVars, cookieVars, responseVars>>)
OfContent ==
    Only("content", StoredBody!Next, <<vars, requestVars, listVars, viewerVars, bodyVars>>)
OfViewer ==
    Only("viewer", Viewer!Next, <<vars, requestVars, listVars, contentVars, bodyVars>>)
OfBody ==
    Only("body", Panel!Next, <<vars, requestVars, listVars, contentVars, viewerVars>>)

ScreensNext ==
    \/ OfEditor \/ OfHeaders \/ OfQuery \/ OfHistory
    \/ OfContent \/ OfViewer \/ OfBody \/ OfConversion \/ OfForm
    \/ OfVariables \/ OfInventory \/ OfTree \/ OfCookies \/ OfCode

\* The editor alone, for what the repository says of it.
EditorAlone == part = "editor" /\ ScreensInit /\ [][OfEditor]_allVars

Screens == ScreensInit /\ [][ScreensNext]_allVars

-----------------------------------------------------------------------------
(* The properties, under their names in the modules; the steps of a machine *)
(* that stands still are not looked at.                                    *)

\* Each machine's variables are of their types.
ScreensTypeOK ==
    /\ TypeOK
    /\ part = "headers" => Rows!TypeOK
    /\ part = "query" => Query!TypeOK
    /\ part = "history" => Executions!TypeOK
    /\ part = "content" => StoredBody!TypeOK
    /\ part = "viewer" => Viewer!TypeOK
    /\ part = "body" => Panel!TypeOK
    /\ part = "conversion" => Written!TypeOK
    /\ part = "form" => Form!TypeOK
    /\ part = "variables" => Scopes!TypeOK
    /\ part = "inventory" => Secrets!TypeOK
    /\ part = "navigation" => Tree!TypeOK
    /\ part = "cookies" => Cookies!TypeOK
    /\ part = "code" => Code!TypeOK

\* What is shown or sent of a request is what was made of it: its rows, its
\* address, its body, its fields, its code and its staged files.
RequestIsKept ==
    /\ [](part = "query" => Query!AddressShowsRows)
    /\ [](part = "conversion" => Written!RoundTrip)
    /\ [](part = "form" => Form!Identified)
    /\ [](part = "code" =>
            Code!CodeIsCurrent /\ Code!StepsReadTheirOwn /\ Code!NothingStaysStaged)
    /\ [][part = "headers" => Rows!RowsKept]_headerVars
    /\ [][part = "query" => Query!PathValuesKept]_queryVars
    /\ [][part = "form" => Form!SentAsShown /\ Form!OneRowChanges]_formVars

\* What the panel says of secrets is so and suffices to send, and the code of a
\* request has none of them unless they were revealed.
SecretsAreEnough ==
    /\ part = "inventory" =>
        Secrets!NeededIsListed /\ Secrets!ShownIsWritten /\ Secrets!ShownSuffices
    /\ part = "code" => Code!HiddenIsMasked /\ Code!RevealedIsWhole

\* Names are unique in their scope, and a rename takes every reference along.
NamesKeepMeaning ==
    /\ [](part = "variables" => Scopes!NamesAreUnique)
    /\ [][part = "variables" => Scopes!RenameFollowed]_scopeVars

\* Executions, documents and cookies are listed as they are, and what one
\* operation leaves alone stays where it is.
ListsAreWhole ==
    /\ [](part = "history" => Executions!RowsAreListed /\ Executions!PanelShowsIndex)
    /\ [](part = "navigation" => Tree!TreeShowsAll)
    /\ [](part = "cookies" => Cookies!StoreHasJar)
    /\ [][part = "history" => Executions!PinnedKept]_historyVars
    /\ [][part = "navigation" =>
            Tree!DropLandsAtLine /\ Tree!TabLandsAsShown]_navigationVars
    /\ [][part = "cookies" =>
            Cookies!SwitchesHold /\ Cookies!CookiesStay /\ Cookies!SavedCookiesStay]_cookieVars

\* Pages, matches and selectors are of the response on display.
ResponseIsShown ==
    /\ part = "content" => StoredBody!ViewIsSound
    /\ part = "viewer" => Viewer!FindCountsWhatIsShown
    /\ part = "body" => Panel!SelectorsAnswer
=============================================================================
