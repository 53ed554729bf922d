------------------------------ MODULE QueryRows ------------------------------
(***************************************************************************)
(* The address of a request and the tables beside it (components/          *)
(* request-composer.tsx, query-params-editor.tsx; model/request.ts).  The  *)
(* query is written in the address and as rows, path parameters have their *)
(* values in rows, and either side is rewritten after an edit of the other.*)
(* An API key that goes into the query owns the row of its name.           *)
(***************************************************************************)
EXTENDS KeyValueRows, FiniteSets

CONSTANTS
    Names, Values,  \* of parameters, Blank not among them
    KeyName,        \* the name an API key is sent under
    MaxEdits        \* a bound

\* A pair may lack its name; one that lacks its value as well is left out.
Pair == [key : Names, value : Values \union {Blank}] \union [key : {Blank}, value : Values]
Queries == {<<>>} \union {<<p>> : p \in Pair}
           \union {<<p, q>> : p \in Pair, q \in [key : Names, value : {Blank}]}
Paths == {<<>>} \union {<<m>> : m \in Names}
         \union {<<m, n>> : m, n \in Names}

VARIABLES
    url,         \* [scheme, path, query]: whether it says how, names of the path, pairs
    params,      \* rows of the query
    pathParams,  \* rows of the path
    auth,        \* "none", or "query": an API key there
    edits

vars == <<url, params, pathParams, auth, edits>>

Init ==
    /\ url = [scheme |-> FALSE, path |-> <<>>, query |-> <<>>]
    /\ params = << [EmptyEntry(<<>>) EXCEPT !.id = 1] >>
    /\ pathParams = <<>>
    /\ auth = "none"
    /\ edits = 0

-----------------------------------------------------------------------------
(* Address to rows and back.                                               *)

Highest(rows) == Max({Unnumbered} \union {rows[i].id : i \in DOMAIN rows})
EntryOf(id, key, value) ==
    [id |-> id, key |-> key, value |-> value, enabled |-> TRUE, secret |-> "no",
     file |-> TextField]

\* getRequestQueryParamsFromUrl: the pairs of the address under the identifiers of
\* the rows that had content, in order, and the blank row.
ParamsFromUrl(query, rows) ==
    LET full == SelectSeq(rows, HasContent)
        found == [i \in DOMAIN query |->
            EntryOf(IF i \in DOMAIN full THEN full[i].id ELSE Highest(rows) + i,
                    query[i].key, query[i].value)]
        blanks == SelectSeq(rows, IsBlank) IN
    Append(found, IF blanks = <<>> THEN EmptyEntry(rows \o found)
                  ELSE [Head(blanks) EXCEPT !.enabled = FALSE])

\* Mutant: switched off or not, a row is in the address.
QueryOfAll(rows) ==
    LET sent == SelectSeq(rows, LAMBDA e : e.key # Blank) IN
    [i \in DOMAIN sent |-> [key |-> sent[i].key, value |-> sent[i].value]]

\* applyRequestQueryParamsToUrl.
QueryOf(rows) ==
    LET sent == SelectSeq(rows, LAMBDA e : e.enabled /\ e.key # Blank) IN
    [i \in DOMAIN sent |-> [key |-> sent[i].key, value |-> sent[i].value]]

\* How many of the first i names of a path are the name at i.
Nth(path, i) == Cardinality({j \in 1..i : path[j] = path[i]})

\* Mutant: rows of the path go by their place.
PathByPlace(path, rows) ==
    [i \in DOMAIN path |->
        IF i \in DOMAIN rows THEN [rows[i] EXCEPT !.key = path[i]]
        ELSE EntryOf(Highest(rows) + i, path[i], Blank)]

\* getRequestPathParamsFromUrl: the n-th place of a name has the n-th row of it.
PathFromUrl(path, rows) ==
    [i \in DOMAIN path |->
        LET same == SelectSeq(rows, LAMBDA e : e.key = path[i])  n == Nth(path, i) IN
        IF n \in DOMAIN same THEN same[n] ELSE EntryOf(Highest(rows) + i, path[i], Blank)]

\* getRequestQueryParams and updateRequestQueryParams: the rows of the key's name
\* are not shown and are put back in front.
OwnedNames == IF auth = "query" THEN {KeyName} ELSE {}
Shown == SelectSeq(params, LAMBDA e : e.key \notin OwnedNames)
UpdateParams(rows) ==
    LET next == SelectSeq(params, LAMBDA e : e.key \in OwnedNames)
                \o SelectSeq(rows, LAMBDA e : e.key \notin OwnedNames) IN
    /\ params' = next
    /\ url' = [url EXCEPT !.query = QueryOf(next)]

-----------------------------------------------------------------------------

Edited == edits < MaxEdits /\ edits' = edits + 1

EditUrl ==
    /\ Edited
    /\ \E query \in Queries, path \in Paths, scheme \in BOOLEAN :
        /\ url' = [scheme |-> scheme, path |-> path, query |-> query]
        /\ params' = ParamsFromUrl(query, params)
        /\ pathParams' = PathFromUrl(path, pathParams)
    /\ UNCHANGED auth

EditParams ==
    /\ Edited
    /\ \E rows \in Edits(Shown, Names \union {Blank}, Values \union {Blank}) : UpdateParams(rows)
    /\ UNCHANGED <<pathParams, auth>>

\* updateRequestPathParams: a name cannot be changed and no row be deleted.
EditPathParams ==
    LET rows == PathFromUrl(url.path, pathParams)
        ids == {rows[i].id : i \in DOMAIN rows} IN
    /\ Edited /\ rows # <<>>
    /\ \/ \E id \in ids, value \in Values \union {Blank} :
            pathParams' = UpdateEntry(rows, id, "value", value)
       \/ \E id \in ids :
            pathParams' = UpdateEntry(rows, id, "enabled", ~rows[IndexOf(rows, id)].enabled)
    /\ UNCHANGED <<url, params, auth>>

ChooseAuth ==
    /\ Edited
    /\ auth' = IF auth = "none" THEN "query" ELSE "none"
    /\ UNCHANGED <<url, params, pathParams>>

\* send completes an address that does not say how it is to be reached.
Send ==
    /\ ~url.scheme
    /\ url' = [url EXCEPT !.scheme = TRUE]
    /\ params' = ParamsFromUrl(url.query, params)
    /\ pathParams' = PathFromUrl(url.path, pathParams)
    /\ UNCHANGED <<auth, edits>>

Next == EditUrl \/ EditParams \/ EditPathParams \/ ChooseAuth \/ Send

Spec == Init /\ [][Next]_vars

-----------------------------------------------------------------------------

Row == [id : 0..(2 + 3 * MaxEdits), key : Names \union {Blank},
        value : Values \union {Blank}, enabled : BOOLEAN, secret : {"no"}, file : {TextField}]

\* The state is of the expected shape, and the table of the query ends in the one
\* blank row.
TypeOK ==
    /\ \A i \in DOMAIN params : IsBlank(params[i]) <=> i = Len(params)
    /\ url.query \in Seq(Pair) /\ url.path \in Paths
    /\ \A i \in DOMAIN params : params[i] \in Row
    /\ \A i \in DOMAIN pathParams : pathParams[i] \in Row
    /\ auth \in {"none", "query"} /\ edits \in 0..MaxEdits

\* The named pairs of the address are what the rows that are switched on and named
\* say, whichever of them was edited last and whatever an API key hides of
\* them, so that what is sent never depends on which side the user looked at.
\* (The handlers of the composer and of the table, and the completion by send.)
AddressShowsRows ==
    LET on == SelectSeq(params, LAMBDA e : e.enabled /\ e.key # Blank) IN
    SelectSeq(url.query, LAMBDA p : p.key # Blank)
        = [i \in DOMAIN on |-> [key |-> on[i].key, value |-> on[i].value]]

\* "Rows retain enabled state and values by parameter name as the URL changes"
\* (docs/request-lifecycle.md:87), wherever in the path the name moves to.
PathValuesKept ==
    url' # url => \A name \in Names :
        LET Of(rows) == SelectSeq(rows, LAMBDA e : e.key = name)
            Uses(path) == Cardinality({i \in DOMAIN path : path[i] = name}) IN
        \A n \in 1..Min({Uses(url.path), Uses(url'.path), Len(Of(pathParams))}) :
            Of(pathParams')[n] = Of(pathParams)[n]
PathValuesStay == [][PathValuesKept]_vars

\* So the address and the two tables say the same, and keep saying it.
AddressAndRowsAgree == []AddressShowsRows /\ PathValuesStay
=============================================================================
