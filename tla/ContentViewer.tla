----------------------------- MODULE ContentViewer -----------------------------
(***************************************************************************)
(* The viewer of a response whose content stays in the native store        *)
(* (features/request-workbench/components/large-response-viewer.tsx): it   *)
(* reads one page after the other, searches, formats and filters, and the  *)
(* formatted content is a content of its own that has to be released.      *)
(*                                                                         *)
(* What a handler does is a change of the view; React then runs the        *)
(* effects whose inputs have changed, which may change the view again,     *)
(* until nothing changes.  Pages, matches and results arrive later, unless *)
(* their call has been given up.                                           *)
(***************************************************************************)
EXTENDS Integers, Sequences

CONSTANTS
    Exchanges,          \* responses that the viewer may be given
    Small,              \* those that are JSON and short enough to be formatted at once
    MatchesOf,          \* the pages with a match of the search, one after the other
    MaxEvents           \* bound on the events of the user

RawPages == 3           \* pages of a response, of a formatted one, and how many
DerivedPages == 2       \* an appended one keeps of those before it
Retained == 1
NoContent == [of |-> "nothing", no |-> 0]
NoLoad == [ref |-> NoContent, page |-> 0, mode |-> "off", append |-> FALSE]

VARIABLES view, events

vars == <<view, events>>

-----------------------------------------------------------------------------
(* What is rendered.                                                       *)

Raw(v) == [of |-> v.exchange, no |-> 0]
Active(v) == IF v.derived = NoContent THEN Raw(v) ELSE v.derived
Size(v) == IF v.derived = NoContent THEN RawPages ELSE DerivedPages
PageOffset(v) == IF v.offset < Size(v) THEN v.offset ELSE Size(v) - 1
Selected(v) == IF v.matches = <<>> THEN [at |-> -1, of |-> v.exchange]
               ELSE [at |-> v.matches[(v.index % Len(v.matches)) + 1], of |-> v.exchange]
InLines(v) == v.mode \in {"text", "pretty"}

\* The inputs of the effect that loads.
Window(v) == <<Active(v), v.inline, v.mode, PageOffset(v)>>

-----------------------------------------------------------------------------
(* Steps that handlers and effects share.                                  *)

\* The signal of an operation under way: its result will find it raised.
CancelActiveOperation(v) == [v EXCEPT !.current = 0, !.pending = FALSE]

ActivateRaw(v, mode) ==
    [CancelActiveOperation(v) EXCEPT !.derived = NoContent, !.inline = NoContent, !.label = "Raw",
                                     !.offset = 0, !.append = FALSE, !.trimmed = FALSE, !.mode = mode]

\* runFormat and runQuery: not while another one is pending in the view they were
\* rendered with; an operation that is still running is given up.
Operate(v, rendered, label) ==
    IF rendered.pending THEN v
    ELSE [v EXCEPT !.made = @ + 1, !.current = v.made + 1, !.pending = TRUE, !.error = FALSE,
                   !.ops = @ \union {[no |-> v.made + 1, of |-> rendered.exchange, label |-> label]}]

\* Mutant: the content of a result that nobody waits for is kept.
AbandonKeeps(v, ref) == [v EXCEPT !.stored = @ \union {ref}]

\* A result whose signal is raised is released at once.
Abandon(v, ref) == v

\* Mutant: the derived content is left to the store when it is replaced.
NeverReleased(v, ref) == v

Release(v, ref) == [v EXCEPT !.stored = @ \ {ref}]

-----------------------------------------------------------------------------
(* The effects: p was rendered before, c is rendered now, v is what the    *)
(* effects before this one have made of it.                                *)

ReleaseEffect(p, c, v) == IF p.derived # c.derived THEN Release(v, p.derived) ELSE v

ResetEffect(p, c, v) ==
    IF p.exchange = c.exchange THEN v
    ELSE [ActivateRaw(v, "text") EXCEPT !.matches = <<>>, !.error = FALSE]

AutoFormatEffect(p, c, v) ==
    IF c.auto = c.exchange THEN v
    ELSE LET tried == [v EXCEPT !.auto = c.exchange] IN
         IF c.exchange \in Small /\ ~c.find THEN Operate(tried, c, "Pretty") ELSE tried

\* The page of now.
Wanted(v, c) == [ref |-> Active(c), page |-> PageOffset(c), mode |-> c.mode, append |-> v.append]

\* Mutant: a load goes on when its inputs have changed.
LoadStays(v, c) == IF v.load = NoLoad THEN Wanted(v, c) ELSE v.load

\* The load of it takes the place of the one under way, which is given up.
Started(v, c) == Wanted(v, c)

LoadEffect(p, c, v) ==
    IF Window(p) = Window(c) THEN v
    ELSE LET begun == [v EXCEPT !.append = FALSE, !.error = FALSE, !.next = 0, !.failed = FALSE,
                                !.trimmed = @ /\ v.append, !.shown = IF v.append THEN @ ELSE <<>>,
                                !.gap = @ /\ v.append]
         IN IF InLines(c) /\ c.inline # NoContent
            THEN [begun EXCEPT !.shown = <<[ref |-> c.inline, page |-> 0]>>, !.load = NoLoad, !.loading = FALSE]
            ELSE [begun EXCEPT !.load = Started(v, c), !.loading = TRUE]

FindEffect(p, c, v) ==
    IF <<p.exchange, p.find>> = <<c.exchange, c.find>> THEN v
    ELSE [IF c.find THEN ActivateRaw(v, "text") ELSE v
          EXCEPT !.matches = <<>>, !.searching = c.find]

SelectionEffect(p, c, v) ==
    IF Selected(p) = Selected(c) \/ Selected(c).at < 0 THEN v
    ELSE [v EXCEPT !.append = FALSE, !.trimmed = FALSE, !.offset = Selected(c).at]

Commit(p, c) ==
    SelectionEffect(p, c, FindEffect(p, c, LoadEffect(p, c, AutoFormatEffect(p, c,
        ResetEffect(p, c, ReleaseEffect(p, c, c))))))

\* A change is rendered, and what its effects change is rendered again.
Settle(p, c) ==
    LET second == Commit(p, c)
        third == Commit(c, second)
        fourth == Commit(second, third)
    IN Commit(third, fourth)
Change(c) == view' = Settle(view, c)

Unmounted(e) ==
    [exchange |-> e, find |-> FALSE, index |-> 0, mode |-> "text", offset |-> 0, label |-> "Raw",
     derived |-> NoContent, inline |-> NoContent, matches |-> <<>>, searching |-> FALSE,
     shown |-> <<>>, next |-> 0, trimmed |-> FALSE, append |-> FALSE, loading |-> TRUE,
     load |-> NoLoad, failed |-> FALSE, gap |-> FALSE, error |-> FALSE, pending |-> FALSE,
     current |-> 0, ops |-> {}, made |-> 0, stored |-> {}, auto |-> "none", asked |-> "Auto",
     open |-> TRUE]

Init ==
    /\ \E e \in Exchanges :
          view = Settle([Unmounted(e) EXCEPT !.exchange = "none", !.mode = "off"], Unmounted(e))
    /\ events = 0

-----------------------------------------------------------------------------
(* The user.  `asked' notes which view was chosen last.                    *)

OpenExchange ==
    \E e \in Exchanges \ {view.exchange} : Change([view EXCEPT !.exchange = e, !.asked = "Auto"])

Find == Change([view EXCEPT !.find = ~@, !.index = 0, !.asked = IF view.find THEN @ ELSE "Raw"])
Match == view.matches # <<>> /\ Change([view EXCEPT !.index = @ + 1])

ChooseRaw == \E mode \in {"text", "hex"} : Change([ActivateRaw(view, mode) EXCEPT !.asked = "Raw"])
Choose ==
    \E label \in {"Pretty", "Filtered"} :
        /\ ~view.pending
        /\ Change([Operate(view, view, label) EXCEPT !.asked = label])

MoveFirst == view.trimmed /\ Change([view EXCEPT !.append = FALSE, !.trimmed = FALSE, !.offset = 0])

LoadMore ==
    LET next == IF view.next > 0 THEN view.next ELSE PageOffset(view) + 1 IN
    /\ ~view.loading /\ view.inline = NoContent
    /\ next < Size(view) /\ next > PageOffset(view)
    /\ Change([view EXCEPT !.append = InLines(view), !.offset = next])

Close ==
    view' = Release([view EXCEPT !.open = FALSE, !.load = NoLoad, !.searching = FALSE, !.current = 0],
                    view.derived)

-----------------------------------------------------------------------------
(* What arrives.                                                           *)

Page ==
    LET load == view.load
        before == IF load.append
                  THEN SubSeq(view.shown, (IF Len(view.shown) > Retained THEN Len(view.shown) - Retained ELSE 0) + 1,
                              Len(view.shown))
                  ELSE <<>>
        lines == load.mode \in {"text", "pretty"} IN
    /\ load # NoLoad /\ (load.ref.no = 0 \/ load.ref \in view.stored)
    /\ Change([view EXCEPT !.load = NoLoad, !.loading = FALSE,
                           !.shown = Append(before, [ref |-> load.ref, page |-> load.page]),
                           !.trimmed = @ \/ (load.append /\ Len(view.shown) > Retained),
                           !.next = IF lines /\ load.page + 1 < Size(view) THEN load.page + 1 ELSE 0])

\* A page is refused, or its content is gone.
PageFails ==
    /\ view.load # NoLoad
    /\ Change([view EXCEPT !.load = NoLoad, !.loading = FALSE, !.error = TRUE, !.failed = TRUE,
                           !.gap = @ \/ view.load.append])

SearchEnds ==
    /\ view.searching
    /\ \/ Change([view EXCEPT !.searching = FALSE, !.matches = MatchesOf])
       \/ Change([view EXCEPT !.searching = FALSE, !.error = TRUE])

\* acceptOperationResult: a text, or a content of its own.
Accept(op, ref, inline) ==
    [view EXCEPT !.offset = 0, !.label = op.label, !.mode = "pretty", !.ops = @ \ {op},
                 !.pending = FALSE, !.current = 0,
                 !.derived = IF inline THEN NoContent ELSE ref,
                 !.inline = IF inline THEN ref ELSE NoContent,
                 !.stored = IF inline THEN @ ELSE @ \union {ref}]

OperationEnds ==
    \E op \in view.ops :
        LET ref == [of |-> op.of, no |-> op.no]
            rest == [view EXCEPT !.ops = @ \ {op}] IN
        IF op.no # view.current
        THEN view' \in {rest, Abandon(rest, ref)}
        ELSE \/ \E inline \in BOOLEAN : Change(Accept(op, ref, inline))
             \/ Change([rest EXCEPT !.error = TRUE, !.pending = FALSE, !.current = 0, !.asked = view.label])

User ==
    /\ view.open /\ events < MaxEvents /\ events' = events + 1
    /\ OpenExchange \/ Find \/ Match \/ ChooseRaw \/ Choose \/ MoveFirst \/ LoadMore \/ Close

Next ==
    \/ User
    \/ (Page \/ PageFails \/ SearchEnds \/ OperationEnds) /\ UNCHANGED events

Spec == Init /\ [][Next]_vars

-----------------------------------------------------------------------------

\* The view is of the expected shape, and no effect is left to run in it.
TypeOK ==
    /\ view.exchange \in Exchanges /\ view.mode \in {"text", "pretty", "hex"}
    /\ view.offset \in 0..RawPages - 1 /\ \A op \in view.ops : op.no \in 1..view.made
    /\ view.current # 0 <=> view.open /\ view.pending
    /\ view.open => Commit(view, view) = view

\* A content that was made for the view is released as soon as the view lets go of it,
\* and never before, whatever was pressed while it was made: nothing stays in the store
\* for a view that shows something else.
NothingIsLeftBehind == view.stored = IF view.open THEN {view.derived} \ {NoContent} ELSE {}

\* The pages on the screen are pages of what is being viewed, in one run that ends with
\* the page of now, whichever loads were overtaken (unless a page was refused).
PagesAreWhole ==
    view.open /\ ~view.loading /\ ~view.failed /\ ~view.gap =>
        /\ view.shown # <<>>
        /\ view.inline = NoContent =>
              \A i \in DOMAIN view.shown :
                  view.shown[i] = [ref |-> Active(view), page |-> PageOffset(view) + i - Len(view.shown)]

\* The view is the one that was chosen last, and of the response of now: a result that
\* comes late replaces nothing.
LastChoiceStands ==
    view.open =>
        /\ \A ref \in {view.derived, view.inline} \ {NoContent} : ref.of = view.exchange
        /\ ~view.pending /\ view.asked # "Auto" => view.label = view.asked
        /\ view.label # "Raw" <=> view.derived # NoContent \/ view.inline # NoContent

ViewIsSound == NothingIsLeftBehind /\ PagesAreWhole /\ LastChoiceStands
=============================================================================
