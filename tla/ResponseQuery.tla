----------------------------- MODULE ResponseQuery -----------------------------
(***************************************************************************)
(* The body of a response that is held as a whole (ResponseBodyPanel of    *)
(* components/response-viewer.tsx): the ways to look at it, the jq and     *)
(* JSONPath selectors that filter it (model/response.ts) with the          *)
(* selectors that are suggested, and the menu of a field.                  *)
(*                                                                         *)
(* A JSON value is a leaf, a list or an object; a selector is what parsing *)
(* makes of its text, a path of segments and, for jq, what is piped        *)
(* behind it.  Keys are words without a "|".                               *)
(***************************************************************************)
EXTENDS Naturals, Sequences, SequencesExt, FiniteSets

CONSTANTS
    Keys,               \* the keys of objects
    Bodies, Later       \* bodies of responses, NotJson among them, and of a later response

Leaf == [type |-> "leaf", items |-> <<>>]
List(items) == [type |-> "list", items |-> items]
Object(at) == [type |-> "object", items |-> at]
NotJson == [type |-> "none", items |-> <<>>]
Error == [type |-> "error", items |-> <<>>]

KeysOf(value) == IF value.type = "object" THEN DOMAIN value.items ELSE {}
\* Object.values: what a list or an object is made of, in the order of the keys.
Children(value) ==
    CASE value.type = "list" -> value.items
      [] value.type = "object" -> [i \in 1..Cardinality(KeysOf(value)) |->
                                      value.items[SetToSeq(KeysOf(value))[i]]]
      [] OTHER -> <<>>

Property(key) == [by |-> "property", key |-> key, at |-> 0]
Recursive(key) == [by |-> "recursive", key |-> key, at |-> 0]
Index(at) == [by |-> "index", key |-> "", at |-> at]
Wildcard == [by |-> "wildcard", key |-> "", at |-> 0]
Selector(path, pipe) == [path |-> path, pipe |-> pipe]

VARIABLES
    body,       \* the response
    graphql,    \* its data is shown by itself
    mode, language, query,
    menu        \* the field whose menu is open

vars == <<body, graphql, mode, language, query, menu>>

NoQuery == Selector(<<>>, "none")
NoMenu == [path |-> <<>>, value |-> NotJson, of |-> NotJson]

-----------------------------------------------------------------------------
(* queryResponseJson.                                                      *)

\* The values of a key wherever it is, for "..key".
RECURSIVE RecursivelyRead(_, _)
RecursivelyRead(value, key) ==
    (IF key \in KeysOf(value) THEN <<value.items[key]>> ELSE <<>>)
        \o FlattenSeq([i \in DOMAIN Children(value) |-> RecursivelyRead(Children(value)[i], key)])

\* What a segment reads of one value.
Read(value, segment) ==
    CASE segment.by = "property" ->
             IF segment.key \in KeysOf(value) THEN <<value.items[segment.key]>> ELSE <<>>
      [] segment.by = "index" ->
             IF value.type = "list" /\ segment.at \in DOMAIN value.items THEN <<value.items[segment.at]>>
             ELSE <<>>
      [] segment.by = "wildcard" -> Children(value)
      [] segment.by = "recursive" -> RecursivelyRead(value, segment.key)

\* One value is the result itself, several are a list, none is an error.
ApplySegments(root, path) ==
    LET Apply(values, segment) ==
            FlattenSeq([i \in DOMAIN values |-> Read(values[i], segment)])
        values == FoldLeft(Apply, <<root>>, path)
    IN CASE values = <<>> -> Error
         [] Len(values) = 1 -> values[1]
         [] OTHER -> List(values)

Piped(value, operation) ==
    CASE operation = "none" -> value
      [] value.type = "error" -> Error
      [] operation = "length" -> IF value.type \in {"list", "object"} THEN Leaf ELSE Error
      [] operation = "keys" ->
             IF value.type = "list" THEN List([i \in DOMAIN value.items |-> Leaf])
             ELSE IF value.type = "object" THEN List([i \in 1..Cardinality(KeysOf(value)) |-> Leaf])
             ELSE Error

QueryResponseJson(root, selector) == Piped(ApplySegments(root, selector.path), selector.pipe)

-----------------------------------------------------------------------------
(* getResponseQuerySuggestions.                                            *)

\* Mutant: a list is walked into as if every value were like the last one.
IntoLast(value) == IF value.items = <<>> THEN <<>> ELSE <<Last(value.items)>>

\* What a list offers to walk into: its first value, if there is one.
Into(value) == IF value.items = <<>> THEN <<>> ELSE <<value.items[1]>>

\* The selectors of a value that was found at a path, and of what is in it.
RECURSIVE Walk(_, _, _)
Walk(value, path, lang) ==
    LET piped == IF lang # "jq" THEN {}
                 ELSE {Selector(path, "length") : t \in {value.type} \cap {"list", "object"}}
                        \union {Selector(path, "keys") : t \in {value.type} \cap {"object"}}
    IN {Selector(path, "none")} \union piped
         \union (IF value.type = "list" /\ Into(value) # <<>>
                 THEN Walk(Into(value)[1], Append(path, Index(1)), lang)
                        \union Walk(Into(value)[1], Append(path, Wildcard), lang)
                 ELSE {})
         \union UNION {Walk(value.items[key], Append(path, Property(key)), lang) : key \in KeysOf(value)}

Suggestions(root, lang) == IF root = NotJson THEN {} ELSE Walk(root, <<>>, lang)

-----------------------------------------------------------------------------
(* findResponseField: the first field of that name, depth first.           *)

Nowhere == [found |-> FALSE, path |-> <<>>, value |-> NotJson]
\* Mutant: the path of a field leaves out where it was found.
Shallow(path, segment) == <<segment>>
Below(path, segment) == Append(path, segment)

\* An object is looked at before what is in it.
RECURSIVE FindResponseField(_, _, _)
FindResponseField(root, key, path) ==
    IF key \in KeysOf(root)
    THEN [found |-> TRUE, path |-> Below(path, Property(key)), value |-> root.items[key]]
    ELSE LET At(i) == IF root.type = "list" THEN Index(i) ELSE Property(SetToSeq(KeysOf(root))[i])
             inside == [i \in DOMAIN Children(root) |->
                           FindResponseField(Children(root)[i], key, Below(path, At(i)))]
             hits == {i \in DOMAIN inside : inside[i].found}
         IN IF hits = {} THEN Nowhere ELSE inside[CHOOSE i \in hits : \A j \in hits : i <= j]

-----------------------------------------------------------------------------
(* The panel.                                                              *)

\* What is shown instead of the body for its pretty view: the data of a GraphQL
\* response (an object always, here under the first key) or the body.
DataKey == CHOOSE key \in Keys : TRUE
Presented(root) ==
    IF graphql /\ DataKey \in KeysOf(root) THEN root.items[DataKey] ELSE root

QueryResult ==
    IF query = NoQuery \/ Presented(body) = NotJson THEN NotJson
    ELSE QueryResponseJson(Presented(body), query)

\* formatResponseBody: raw, or the filtered value, or all of it when there is no
\* filter or it has failed.
Content ==
    CASE mode # "pretty" -> body
      [] QueryResult \in {NotJson, Error} -> Presented(body)
      [] OTHER -> QueryResult

Init ==
    /\ body \in Bodies /\ graphql \in BOOLEAN
    /\ mode = "pretty" /\ language = "jq" /\ query = NoQuery /\ menu = NoMenu

\* Mutant: the selector of the last response is kept.
QueryOfBefore == query
QueryOfNew == NoQuery

\* Another response: the effect on body, kind and start.
Replace ==
    /\ body' \in Later \ {body}
    /\ mode' = "pretty" /\ query' = QueryOfNew
    /\ UNCHANGED <<graphql, language, menu>>

View == mode' \in {"pretty", "raw"} \ {mode} /\ UNCHANGED <<body, graphql, language, query, menu>>

ChooseLanguage ==
    /\ Presented(body) # NotJson /\ language' \in {"jq", "jsonpath"} \ {language} /\ query' = NoQuery
    /\ UNCHANGED <<body, graphql, mode, menu>>

Filter ==
    /\ Presented(body) # NotJson
    /\ query' \in Suggestions(Presented(body), language)
                      \union {Selector(<<Recursive(key)>>, "none") : key \in Keys} \union {NoQuery}
    /\ mode' = IF query' = NoQuery THEN mode ELSE "pretty"
    /\ UNCHANGED <<body, graphql, language, menu>>

\* The menu of a line that begins with a key.
OpenFieldMenu ==
    /\ mode = "pretty" /\ body # NotJson
    /\ \E key \in Keys :
          LET field == FindResponseField(body, key, <<>>) IN
          /\ field.found
          /\ menu' = [path |-> field.path, value |-> field.value, of |-> body]
    /\ UNCHANGED <<body, graphql, mode, language, query>>
CloseFieldMenu == menu # NoMenu /\ menu' = NoMenu /\ UNCHANGED <<body, graphql, mode, language, query>>

Next == Replace \/ View \/ ChooseLanguage \/ Filter \/ OpenFieldMenu \/ CloseFieldMenu

Spec == Init /\ [][Next]_vars

-----------------------------------------------------------------------------

TypeOK ==
    /\ body \in Bodies /\ mode \in {"pretty", "raw"} /\ language \in {"jq", "jsonpath"}
    /\ Content.type # "error"

\* Every selector that is suggested for a response selects something of it, also when the
\* values of a list differ; so does a selector in force, which is never that of an earlier
\* response.  And the path that the menu of a field offers leads to the value that it
\* offers, so that a variable which extracts by the path begins with that value.
SelectorsAnswer ==
    /\ \A s \in Suggestions(Presented(body), language) :
          QueryResponseJson(Presented(body), s) # Error
    /\ QueryResult = Error => query.path # <<>> /\ query.path[1].by = "recursive"
    /\ menu.of = body => QueryResponseJson(body, Selector(menu.path, "none")) = menu.value
=============================================================================
