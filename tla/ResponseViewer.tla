----------------------------- MODULE ResponseViewer -----------------------------
(***************************************************************************)
(* The viewer of a response (components/response-viewer.tsx): its tabs,    *)
(* and the search in the tab that is open.  The response tab counts the    *)
(* matches itself, at once for a body that is at hand (response-code-      *)
(* viewer.tsx) and later for one in the native store; the other tabs are   *)
(* searched in the next frame.  What is searched for is kept with the      *)
(* document's tab, the number of matches is not.                           *)
(***************************************************************************)
EXTENDS Naturals, Integers

CONSTANTS
    Responses,      \* executions of the request, in the order of their start 1..n
    Stored,         \* those whose body is in the native store
    Graphql,        \* those that are GraphQL responses with errors
    Found(_, _, _), \* matches of the query in a response's tab in a mode
    MaxEvents       \* bound on the user's events

Modes == {"pretty", "raw"}
Searched == {"response", "headers", "timeline"}

VARIABLES view, events

vars == <<view, events>>

-----------------------------------------------------------------------------

Tabs(r) == {"response", "headers", "cookie", "timeline"} \union
           (IF r \in Graphql THEN {"errors"} ELSE {})
Searchable(v) == v.tab \in Searched

\* The matches of what a panel shows.
Matches(v) == IF v.query THEN Found(v.response, v.tab, v.mode) ELSE 0

CloseFind(v) == [v EXCEPT !.open = FALSE, !.query = FALSE, !.index = 0, !.count = 0]

\* The effects of a change from p to c: of the response tab, of the body panel, and of
\* the viewer.
InBody(v) == v.tab = "response"
Shown(v) == <<v.response, v.mode, v.query>>
CountEffect(p, c, v) ==
    CASE ~InBody(c) -> [v EXCEPT !.searching = FALSE]
      [] c.response \in Stored ->
             IF InBody(p) /\ Shown(p) = Shown(c) THEN v
             ELSE [v EXCEPT !.count = 0, !.searching = c.query]
      [] OTHER -> IF InBody(p) /\ Shown(p) = Shown(c) /\ p.index = c.index THEN v
                  ELSE [v EXCEPT !.count = Matches(c), !.searching = FALSE]
BodyEffect(p, c, v) == IF p.response # c.response THEN [v EXCEPT !.mode = "pretty"] ELSE v

\* Mutant: the search goes on in the response of another execution.
ExecutionNoted(c, v) == [v EXCEPT !.execution = c.response]
ExecutionEffect(c, v) ==
    IF c.execution = c.response THEN v ELSE CloseFind([v EXCEPT !.execution = c.response])

FindDeps(v) == <<v.open, v.query, Searchable(v), v.tab>>

\* Mutant: the frame of the search before is still run.
FrameStays(c, v) == v
FrameCancelled(c, v) == [v EXCEPT !.frame = FALSE]
FindEffect(p, c, v) ==
    IF FindDeps(p) = FindDeps(c) THEN v
    ELSE LET u == FrameCancelled(c, v) IN
         CASE ~c.open \/ ~Searchable(c) -> u
           [] c.tab = "response" -> [u EXCEPT !.index = 0]
           [] OTHER -> [u EXCEPT !.frame = TRUE]

Commit(p, c) == FindEffect(p, c, ExecutionEffect(c, BodyEffect(p, c, CountEffect(p, c, c))))
Settle(p, c) ==
    LET second == Commit(p, c)
        third == Commit(c, second)
        fourth == Commit(second, third)
    IN Commit(third, fourth)
Change(c) == view' = Settle(view, c)

\* The viewer as it is first rendered; before it there is nothing on the screen.
Mounted(v) == [v EXCEPT !.mode = "pretty", !.count = 0, !.frame = FALSE, !.searching = FALSE,
                        !.moved = FALSE, !.away = FALSE]
Nothing(v) == [v EXCEPT !.tab = "cookie", !.open = FALSE]

Init ==
    /\ \E r \in Responses :
          view = [response |-> r, tab |-> "response", open |-> FALSE, query |-> FALSE, index |-> 0,
                  count |-> 0, execution |-> r, mode |-> "pretty", frame |-> FALSE,
                  searching |-> FALSE, moved |-> FALSE, away |-> FALSE]
    /\ events = 0

-----------------------------------------------------------------------------

SetTab == \E tab \in Tabs(view.response) \ {view.tab} : Change([view EXCEPT !.tab = tab, !.moved = FALSE])

\* What the body panel shows is changed under the search.
SetMode ==
    InBody(view) /\ view.response \notin Stored
    /\ \E mode \in Modes \ {view.mode} : Change([view EXCEPT !.mode = mode, !.moved = TRUE])

OpenFind == Searchable(view) /\ ~view.open /\ Change([view EXCEPT !.open = TRUE])
EnterQuery ==
    view.open /\ Searchable(view) /\ Change([view EXCEPT !.query = ~@, !.index = 0, !.moved = FALSE])
Escape == view.open /\ Searchable(view) /\ Change(CloseFind(view))

\* selectPanelFindMatch: the panel is searched again, from the match that was asked for.
SelectPanelFindMatch(v, requested) ==
    LET n == Matches(v) IN
    [v EXCEPT !.count = n, !.index = IF n = 0 THEN 0 ELSE requested % n]
MoveFindMatch ==
    /\ view.open /\ Searchable(view) /\ view.count > 0
    /\ \E direction \in {-1, 1} :
          Change(IF InBody(view)
                 THEN [view EXCEPT !.index = (@ + direction + view.count) % view.count]
                 ELSE SelectPanelFindMatch(view, view.index + direction))

\* Another execution, or another response of the history, in the same viewer; or the
\* viewer goes, and comes back with what was searched for.
Respond ==
    \E r \in Responses \ {view.response} :
        IF view.away THEN view' = [view EXCEPT !.response = r]
        ELSE Change([view EXCEPT !.response = r])
Leave == ~view.away /\ view' = [view EXCEPT !.away = TRUE, !.frame = FALSE, !.searching = FALSE]
Return == view.away /\ view' = Settle(Nothing(Mounted(view)), Mounted(view))

Frame == view.frame /\ Change([SelectPanelFindMatch(view, 0) EXCEPT !.frame = FALSE])
SearchEnds ==
    view.searching /\ \E n \in {Matches(view), 0} :
        Change([view EXCEPT !.searching = FALSE, !.count = n, !.moved = @ \/ n # Matches(view)])

OnScreen == SetTab \/ SetMode \/ OpenFind \/ EnterQuery \/ Escape \/ MoveFindMatch \/ Leave

Next ==
    \/ events < MaxEvents /\ events' = events + 1 /\ ((~view.away /\ OnScreen) \/ Respond \/ Return)
    \/ (Frame \/ SearchEnds) /\ UNCHANGED events

Spec == Init /\ [][Next]_vars

-----------------------------------------------------------------------------

\* The view is of the expected shape, and no effect is left to run in it.
TypeOK ==
    /\ view.response \in Responses /\ view.mode \in Modes /\ view.index \in Nat /\ view.count \in Nat
    /\ ~view.away => Commit(view, view) = view

\* "3/7" in the search bar is about the panel that is open and what it shows, whatever was
\* switched while a search or a frame was under way: there are that many matches, and
\* the one that is marked is one of them.  (Not after the mode of the body was changed
\* under the search: the match that is marked is then kept, even beyond the count; nor
\* after a search that failed.)  And the search of one execution is not carried on in
\* another.
FindCountsWhatIsShown ==
    ~view.away =>
        /\ view.open /\ Searchable(view) /\ ~view.frame /\ ~view.searching /\ ~view.moved =>
              /\ view.count = Matches(view)
              /\ view.index < view.count \/ view.index = 0
        /\ view.query => view.open
        /\ view.execution = view.response
        /\ ~Searchable(view) => ~view.frame /\ ~view.searching
=============================================================================
