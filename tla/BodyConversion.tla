---------------------------- MODULE BodyConversion ----------------------------
(***************************************************************************)
(* The JSON and XML drafts of a request's body, and what switching between *)
(* them makes of one and the other (model/request-body.ts, components/     *)
(* body-editor.tsx).                                                       *)
(*                                                                         *)
(* A text is empty, broken or what parsing makes of it.  A JSON value is a *)
(* scalar, a list or an object.  An XML element has the two attributes the *)
(* conversion writes, one of the user's, text, and its children by their   *)
(* name, as the parser gives them; layout and declarations are left out,   *)
(* and so are numbers a double cannot hold or writes with an exponent.     *)
(* What JSON calls "@_n" and "#text" is that attribute and the text of the *)
(* element, written as it is; it holds a string or a number here.          *)
(***************************************************************************)
EXTENDS Naturals, Sequences, FiniteSets, TLC

CONSTANTS
    XmlNames,       \* keys that are names in XML, "root" and "item" among them
    Bodies,         \* JSON values a draft starts with
    Pages,          \* XML documents typed by hand
    MaxEvents       \* a bound

Json(type, text, items) == [type |-> type, text |-> text, items |-> items]
Null == Json("null", "", <<>>)
String(text) == Json("string", text, <<>>)
List(items) == Json("list", "", items)
Object(at) == Json("object", "", at)
IsObject(value) == value.type = "object"
KeysOf(value) == IF IsObject(value) THEN DOMAIN value.items ELSE {}

Attribute == "@_n"
TextNode == "#text"
Reserved == {Attribute, TextNode}

Nothing == [name \in {} |-> <<>>]
Element(nil, type, text) ==
    [nil |-> nil, type |-> type, text |-> text, attributes |-> Nothing, children |-> Nothing]
EmptyElement == Element(FALSE, "", "")
Parent(children) == [EmptyElement EXCEPT !.children = children]
\* A document: its outermost element, which has declarations if it was written
\* by the conversion, and whether text, comments or the like stand between elements.
Page(root, element, declared, mixed) ==
    [root |-> root, element |-> element, declared |-> declared, mixed |-> mixed]

Empty == [state |-> "empty"]
Broken == [state |-> "broken"]
Text(content) == [state |-> "ok", content |-> content]

NoConversion == [known |-> FALSE]

VARIABLES
    body,      \* the type, both drafts, and how the XML was made
    notice,    \* "none", "converted", "cleared" or "refused"
    origin,    \* history: the JSON of what stands in the XML draft, or Empty
    events

vars == <<body, notice, origin, events>>

-----------------------------------------------------------------------------
(* writeXml.                                                               *)

RECURSIVE KeysAreNames(_)
KeysAreNames(value) ==
    /\ KeysOf(value) \subseteq XmlNames \union Reserved
    /\ value.type \in {"list", "object"} =>
          \A at \in DOMAIN value.items : KeysAreNames(value.items[at])

\* encodeJsonValue: a list is an element for each item, inside a list they are
\* called "item"; a scalar says what it is, unless its key is reserved.
RECURSIVE Encode(_)
Encode(value) ==
    LET Each(items) == [i \in DOMAIN items |-> Encode(items[i])]
        Named(entry) ==
            CASE entry.type # "list" -> <<Encode(entry)>>
              [] entry.items = <<>> -> <<EmptyElement>>
              [] OTHER -> Each(entry.items)
        Raw(keys) == [key \in KeysOf(value) \intersect keys |-> value.items[key].text]
    IN CASE value.type = "null" -> Element(TRUE, "", "")
         [] value.type = "list" ->
                IF value.items = <<>> THEN EmptyElement
                ELSE Parent([name \in {"item"} |-> Each(value.items)])
         [] value.type = "object" ->
                [Parent([name \in KeysOf(value) \ Reserved |-> Named(value.items[name])])
                    EXCEPT !.attributes = Raw({Attribute}),
                           !.text = IF TextNode \in KeysOf(value) THEN Raw({TextNode})[TextNode]
                                    ELSE ""]
         [] OTHER -> Element(FALSE, value.type, value.text)

\* getJsonShape
RECURSIVE ShapeOf(_)
ShapeOf(value) ==
    IF value.type \in {"list", "object"}
    THEN [value EXCEPT !.items = [at \in DOMAIN value.items |-> ShapeOf(value.items[at])]]
    ELSE Json("scalar", "", <<>>)

\* An object of one object is the outermost element itself, anything else is
\* wrapped in one.
HasRoot(value) ==
    /\ Cardinality(KeysOf(value)) = 1 /\ KeysOf(value) \subseteq XmlNames
    /\ \A key \in KeysOf(value) : IsObject(value.items[key])
RootOf(value) == IF HasRoot(value) THEN CHOOSE key \in KeysOf(value) : TRUE ELSE "root"
WriteXml(value) ==
    Page(RootOf(value),
         Encode(IF HasRoot(value) THEN value.items[RootOf(value)] ELSE value), TRUE, FALSE)
Context(value) == [known |-> TRUE, wrapped |-> ~HasRoot(value), shape |-> ShapeOf(value)]

-----------------------------------------------------------------------------
(* readXml.                                                                *)

\* decodeXmlValue, of what the parser makes of an element: text alone is a
\* string, children of one name are a list when there are several.  Beside
\* attributes the text is an entry, and each of them is one.
RECURSIVE Decode(_, _)
Decode(element, declared) ==
    LET children == element.children
        Of(list) == IF Len(list) = 1 THEN Decode(list[1], FALSE)
                    ELSE List([i \in DOMAIN list |-> Decode(list[i], FALSE)])
        entries == [name \in DOMAIN children |-> Of(children[name])]
        attributes == [key \in DOMAIN element.attributes |-> String(element.attributes[key])]
        text == IF element.text = "" THEN Nothing
                ELSE [key \in {TextNode} |-> String(element.text)]
    IN CASE element.nil -> Null
         [] element.type # "" -> Json(element.type, element.text, <<>>)
         [] DOMAIN (entries @@ attributes) = {} /\ ~declared -> String(element.text)
         [] OTHER -> Object(entries @@ attributes @@ text)

\* The outermost element of a document that was written here has attributes
\* even when it is empty.
ReadXml(page) ==
    Object([name \in {page.root} |-> Decode(page.element, page.declared)])

\* Text between elements, at any depth, has no place in JSON.
RECURSIVE MixesText(_)
MixesText(element) ==
    /\ DOMAIN element.children # {}
    /\ \/ element.text # ""
       \/ \E name \in DOMAIN element.children :
             \E i \in DOMAIN element.children[name] : MixesText(element.children[name][i])

\* Mutant: a list of one is taken for the item it holds.
RECURSIVE RestoreLoosely(_, _, _)
RestoreLoosely(value, shape, container) ==
    IF shape.type # "object" \/ ~IsObject(value) THEN value
    ELSE Object([key \in KeysOf(value) |->
                    IF key \in DOMAIN shape.items
                    THEN RestoreLoosely(value.items[key], shape.items[key], FALSE)
                    ELSE value.items[key]])

\* Mutant: a list in a list is not unwrapped.
RECURSIVE RestoreOuter(_, _, _)
RestoreOuter(value, shape, container) ==
    LET items == IF ~container \/ ~IsObject(value) THEN value
                 ELSE IF "item" \in KeysOf(value) THEN value.items["item"] ELSE Null
        values == IF items.type = "list" THEN items.items ELSE <<items>>
        ItemShape(i) == shape.items[IF i \in DOMAIN shape.items THEN i ELSE Len(shape.items)]
    IN CASE shape.type = "scalar" -> value
         [] shape.type = "list" ->
                IF shape.items = <<>> THEN List(<<>>)
                ELSE List([i \in DOMAIN values |->
                        RestoreOuter(values[i], ItemShape(i), FALSE)])
         [] OTHER -> value

\* restoreJsonShape: what only the value it was written from can tell, lists
\* of one or none and empty objects; undefined is null here, as it is in the
\* list it can only appear in.
RECURSIVE RestoreShape(_, _, _)
RestoreShape(value, shape, container) ==
    LET items == IF ~container \/ ~IsObject(value) THEN value
                 ELSE IF "item" \in KeysOf(value) THEN value.items["item"] ELSE Null
        values == IF items.type = "list" THEN items.items ELSE <<items>>
        ItemShape(i) == shape.items[IF i \in DOMAIN shape.items THEN i ELSE Len(shape.items)]
        Entry(key) == IF key \in DOMAIN shape.items
                      THEN RestoreShape(value.items[key], shape.items[key], FALSE)
                      ELSE value.items[key]
    IN CASE shape.type = "scalar" -> value
         [] shape.type = "list" ->
                IF shape.items = <<>> THEN List(<<>>)
                ELSE List([i \in DOMAIN values |->
                        RestoreShape(values[i], ItemShape(i), ItemShape(i).type = "list")])
         [] IsObject(value) -> Object([key \in KeysOf(value) |-> Entry(key)])
         [] OTHER -> IF DOMAIN shape.items = {} THEN Object(Nothing) ELSE value

\* The value of an XML draft.
FromXml(page, conversion) ==
    LET read == ReadXml(page)
        value == IF conversion.known /\ conversion.wrapped /\ page.root = "root"
                 THEN read.items["root"] ELSE read
    IN IF conversion.known
       THEN RestoreShape(value, conversion.shape,
                         conversion.wrapped /\ conversion.shape.type = "list")
       ELSE value

-----------------------------------------------------------------------------
(* switchRequestBodyType.                                                  *)

Converts(type) == {body.type, type} = {"json", "xml"} /\ body.auto
Source == IF body.type = "json" THEN body.json ELSE body.xml

Cleared(type) ==
    IF type = "json" THEN [body EXCEPT !.type = type, !.json = Empty]
    ELSE [body EXCEPT !.type = type, !.xml = Empty, !.conversion = NoConversion]

Convertible ==
    /\ Source.state = "ok"
    /\ IF body.type = "json" THEN KeysAreNames(Source.content)
       ELSE ~Source.content.mixed /\ ~MixesText(Source.content.element)

Converted(type) ==
    LET content == Source.content IN
    IF type = "json"
    THEN [body EXCEPT !.type = type, !.json = Text(FromXml(content, body.conversion))]
    ELSE [body EXCEPT !.type = type, !.xml = Text(WriteXml(content)),
             !.conversion = Context(content)]

Result(next, said) == body' = next /\ notice' = said

SwitchRequestBodyType(type) ==
    CASE ~Converts(type) -> Result([body EXCEPT !.type = type], "none")
      [] Converts(type) /\ Source = Empty -> Result(Cleared(type), "cleared")
      [] Converts(type) /\ Convertible -> Result(Converted(type), "converted")
      [] OTHER -> Result(body, "refused")

-----------------------------------------------------------------------------
(* The editor of the body.                                                 *)

Acts == events < MaxEvents /\ events' = events + 1

\* The user picks another type.
SelectType(type) ==
    /\ Acts /\ type # body.type
    /\ SwitchRequestBodyType(type)
    /\ origin' = CASE type = "xml" /\ notice' = "converted" -> body.json
                   [] type = "xml" /\ notice' = "cleared" -> Empty
                   [] OTHER -> origin

ToggleAutoConvert ==
    /\ Acts /\ body.type \in {"json", "xml"}
    /\ body' = [body EXCEPT !.auto = ~@]
    /\ UNCHANGED <<notice, origin>>

\* Typing; the notice goes.  A number is changed where it stands.
Typed(next) == Acts /\ body' = next /\ notice' = "none"

RECURSIVE Counted(_)
Counted(value) ==
    IF value.type = "integer" THEN [value EXCEPT !.text = "2"]
    ELSE [value EXCEPT !.items = [at \in DOMAIN value.items |-> Counted(value.items[at])]]
RECURSIVE CountedXml(_)
CountedXml(element) ==
    IF element.type = "integer" THEN [element EXCEPT !.text = "2"]
    ELSE [element EXCEPT !.children =
             [name \in DOMAIN element.children |->
                 [i \in DOMAIN element.children[name] |-> CountedXml(element.children[name][i])]]]

TypeJson ==
    /\ body.type = "json"
    /\ \E text \in {Empty, Broken} \cup
           (IF body.json.state = "ok" THEN {Text(Counted(body.json.content))} ELSE {}) :
          Typed([body EXCEPT !.json = text])
    /\ UNCHANGED origin

TypeXml ==
    /\ body.type = "xml"
    /\ \E text \in {Empty, Broken} \cup {Text(page) : page \in Pages} :
          Typed([body EXCEPT !.xml = text])
    /\ origin' = Empty

EditXml ==
    /\ body.type = "xml" /\ body.xml.state = "ok"
    /\ Typed([body EXCEPT !.xml.content.element = CountedXml(@)])
    /\ origin' = IF origin.state = "ok" THEN Text(Counted(origin.content)) ELSE origin

Init ==
    /\ body \in [type : {"json"}, auto : {TRUE}, json : {Text(value) : value \in Bodies},
                 xml : {Empty}, conversion : {NoConversion}]
    /\ notice = "none" /\ origin = Empty /\ events = 0

Next ==
    \/ \E type \in {"json", "xml", "text"} : SelectType(type)
    \/ ToggleAutoConvert \/ TypeJson \/ TypeXml \/ EditXml

-----------------------------------------------------------------------------

\* Type invariant of BodyConversion.
TypeOK ==
    /\ body.type \in {"json", "xml", "text"} /\ body.auto \in BOOLEAN
    /\ {body.json.state, body.xml.state, origin.state} \subseteq {"empty", "broken", "ok"}
    /\ body.xml.state # "ok" \/ body.xml.content.root \in XmlNames
    /\ notice \in {"none", "converted", "cleared", "refused"}
    /\ events \in 0..MaxEvents

\* Reserved keys hold nothing but texts of attributes.
RECURSIVE KeepsTypes(_)
KeepsTypes(value) ==
    /\ TextNode \notin KeysOf(value)
    /\ Attribute \in KeysOf(value) => value.items[Attribute].type = "string"
    /\ value.type \in {"list", "object"} =>
          \A at \in DOMAIN value.items : KeepsTypes(value.items[at])

\* "JSON to XML round trip preserves numeric types, booleans, and arrays" and
\* "editing XML converts the new values instead of restoring stale JSON"
\* (tests/request-body.test.ts): whatever was converted, put aside, edited and
\* switched in between, a draft that says it was converted from XML is the JSON
\* that XML was made of, with the numbers that were changed in it.  What a
\* reserved key holds is written without its type, so that a number comes back as
\* text, and an element of text alone as its text: those are converted, not kept.
RoundTrip ==
    notice = "converted" /\ body.type = "json" /\ origin.state = "ok"
        /\ KeepsTypes(origin.content) => body.json = origin
=============================================================================
