--------------------------- MODULE ExecutionHistory ---------------------------
(***************************************************************************)
(* The history of a workspace's executions: its store in the browser       *)
(* preview (storage/browser-history.ts over browser-backend.ts), the queue *)
(* of one tab's calls (application/request-history.ts) and the panel that  *)
(* lists them (features/history/history-panel.tsx), while another tab uses *)
(* the same store.                                                         *)
(*                                                                         *)
(* Executions are numbered in the order they were started.  An index says  *)
(* what there is and what is pinned; the rows of an execution and its      *)
(* secrets are stored beside it.  Every call reads the index, decides, and *)
(* publishes in one transaction that compares the index with what it read. *)
(* Only pinning writes the index without a comparison.                     *)
(***************************************************************************)
EXTENDS Naturals, FiniteSetsExt, SequencesExt

CONSTANTS
    Newest,             \* executions are 1..Newest
    Found,              \* those that the search term finds
    PageSize,           \* executions on a page of the list
    MaxTime, MaxCalls   \* bounds on the time and on the calls of the user

Executions == 1..Newest
Days == {1, 2}
Tabs == {"panel", "other"}

VARIABLES
    index,      \* [Executions -> "no", "plain" or "pinned"]
    rows,       \* executions whose entry and summary are stored
    secrets,    \* executions whose secrets are stored
    days,       \* the retention
    now,        \* the time
    sent,       \* the newest execution has been sent
    queue,      \* of each tab: its calls; the first is under way
    panel,      \* what the panel shows and holds
    calls,      \* calls made
    overtaken,  \* history: a pin was written over an index it had not read
    drifted     \* history: the index changed behind the panel's back

store == <<index, rows, secrets>>
settings == <<days, now, sent>>
vars == <<store, settings, queue, panel, calls, overtaken, drifted>>

\* A question of the panel: what is to be done, with which executions or days.
Nothing == [op |-> "none", about |-> {}]
Listed == {e \in Executions : index[e] # "no"}

Init ==
    /\ index = [e \in Executions |-> IF e < Newest THEN "plain" ELSE "no"]
    /\ rows = Listed /\ secrets = Listed
    /\ days = 2 /\ now = 2 /\ sent = FALSE
    /\ queue = [t \in Tabs |-> <<>>]
    /\ panel = [items |-> <<>>, more |-> FALSE, query |-> FALSE, timer |-> TRUE,
                search |-> FALSE, pages |-> 1, days |-> 2, due |-> TRUE, loading |-> TRUE,
                error |-> FALSE, busy |-> FALSE, asking |-> Nothing]
    /\ calls = 0 /\ overtaken = FALSE /\ drifted = FALSE

-----------------------------------------------------------------------------
(* Calls.                                                                  *)

\* A call of history: what for, which executions it is about, how far it is and
\* the index it has read.  A load of the panel also carries its pages, whether it
\* is the latest, and the search it was started with.
Call(op, about) ==
    [op |-> op, about |-> about, at |-> IF op \in {"list", "open"} THEN "prune" ELSE "read",
     seen |-> index, doomed |-> {}, live |-> TRUE, loaded |-> <<>>, page |-> 1,
     search |-> FALSE]

Now(t) == Head(queue[t])
At(t, op, at) == queue[t] # <<>> /\ Now(t).op = op /\ Now(t).at = at
Advance(t, call) == queue' = [queue EXCEPT ![t][1] = call]
Leaves(t) == queue' = [queue EXCEPT ![t] = Tail(@)]

\* RequestHistory.changed(): the panel of this tab loads again; the other tab's
\* changes are not noticed here.
Changed(t) == IF t = "panel" THEN [panel EXCEPT !.due = TRUE] ELSE panel

\* The end of an action of the panel (mutate): a success closes the question, and
\* the panel takes over the retention it has set.
Ended(p, call, ok) ==
    [p EXCEPT !.busy = FALSE, !.error = ~ok, !.asking = IF ok THEN Nothing ELSE @,
              !.days = IF ok /\ call.op = "settings" THEN CHOOSE d \in call.about : TRUE ELSE @]

\* A call is refused by its comparison, or by retention running before it.
Fail(t) ==
    LET call == Now(t) IN
    /\ panel' = CASE t = "panel" /\ call.op = "list" /\ call.live ->
                       [panel EXCEPT !.error = TRUE, !.loading = FALSE]
                  [] t = "panel" /\ call.op \in {"remove", "pin", "settings"} -> Ended(panel, call, FALSE)
                  [] OTHER -> panel
    /\ Leaves(t)
    /\ UNCHANGED <<store, settings, calls, overtaken, drifted>>

Succeed(t) ==
    /\ panel' = IF t = "panel" /\ Now(t).op # "append" THEN Ended(Changed(t), Now(t), TRUE)
                ELSE Changed(t)
    /\ Leaves(t)

-----------------------------------------------------------------------------
(* The store.                                                              *)

\* Mutant: publishes whatever became of the index.
UnmovedOrNot(t) == TRUE

\* historyChecks and the transaction of publish: the index is still the one read.
Unmoved(t) == index = Now(t).seen

ReadIndex(t, next) == Advance(t, [Now(t) EXCEPT !.at = next, !.seen = index])

\* append: entry, summary, index and secrets at once; then retention.
AppendRead(t) ==
    /\ At(t, "append", "read") /\ ReadIndex(t, "write")
    /\ UNCHANGED <<store, settings, panel, calls, overtaken, drifted>>
AppendWrite(t) ==
    /\ At(t, "append", "write")
    /\ IF Unmoved(t)
       THEN /\ index' = [e \in Executions |-> IF e \in Now(t).about THEN "plain" ELSE Now(t).seen[e]]
            /\ rows' = rows \union Now(t).about /\ secrets' = secrets \union Now(t).about
            /\ drifted' = (drifted \/ t = "other")
            /\ Advance(t, [Now(t) EXCEPT !.at = "prune"])
            /\ UNCHANGED <<settings, panel, calls, overtaken>>
       ELSE Fail(t)

\* removeItems: rows, index and secrets of the removed at once; nothing is compared
\* when nothing is removed.
RemoveItems(t, removed) ==
    /\ index' = [e \in Executions |-> IF e \in removed THEN "no" ELSE index[e]]
    /\ rows' = rows \ removed /\ secrets' = secrets \ removed

DeleteRead(t) ==
    /\ At(t, "remove", "read")
    /\ Advance(t, [Now(t) EXCEPT !.at = "write", !.seen = index,
                       !.doomed = {e \in @ \union Now(t).about : index[e] # "no"}])
    /\ UNCHANGED <<store, settings, panel, calls, overtaken, drifted>>
DeleteWrite(t) ==
    LET removed == Now(t).doomed IN
    /\ At(t, "remove", "write")
    /\ IF removed = {} \/ Unmoved(t)
       THEN /\ RemoveItems(t, removed) /\ Succeed(t)
            /\ drifted' = (drifted \/ t = "other")
            /\ UNCHANGED <<settings, calls, overtaken>>
       ELSE Fail(t)

\* pin: the index as it was read, with one flag turned.
PinRead(t) ==
    /\ At(t, "pin", "read") /\ ReadIndex(t, "write")
    /\ UNCHANGED <<store, settings, panel, calls, overtaken, drifted>>
Turned(flag) == CASE flag = "plain" -> "pinned" [] flag = "pinned" -> "plain" [] OTHER -> flag
PinWrite(t) ==
    /\ At(t, "pin", "write")
    /\ index' = [e \in Executions |->
                    IF e \in Now(t).about THEN Turned(Now(t).seen[e]) ELSE Now(t).seen[e]]
    /\ overtaken' = (overtaken \/ Now(t).seen # index)
    /\ drifted' = (drifted \/ t = "other")
    /\ Succeed(t)
    /\ UNCHANGED <<rows, secrets, settings, calls>>

\* settings: the retention, and what is older than it goes.
Settings(t) ==
    /\ At(t, "settings", "read")
    /\ days' \in Now(t).about
    /\ Advance(t, [Now(t) EXCEPT !.at = "prune"])
    /\ UNCHANGED <<store, now, sent, panel, calls, overtaken, drifted>>

\* prune: what is neither pinned nor as young as the retention asks.
PruneRead(t) ==
    /\ queue[t] # <<>> /\ Now(t).at = "prune"
    /\ Advance(t, [Now(t) EXCEPT !.at = "drop", !.seen = index,
                       !.doomed = {e \in Listed : index[e] = "plain" /\ e + days < now}])
    /\ UNCHANGED <<store, settings, panel, calls, overtaken, drifted>>
Drop(t) ==
    LET call == Now(t)
        fits == call.doomed = {} \/ Unmoved(t) IN
    /\ queue[t] # <<>> /\ call.at = "drop"
    /\ IF fits \/ call.op = "append"
       THEN /\ IF fits THEN RemoveItems(t, call.doomed) ELSE UNCHANGED <<index, rows, secrets>>
            /\ IF call.op \in {"append", "settings"} THEN Succeed(t)
               ELSE /\ Advance(t, [call EXCEPT !.at = "page"]) /\ UNCHANGED panel
            /\ drifted' = (drifted \/ (fits /\ call.doomed # {}
                               /\ (t = "other" \/ call.op \in {"list", "open"})))
            /\ UNCHANGED <<settings, calls, overtaken>>
       ELSE Fail(t)

-----------------------------------------------------------------------------
(* The panel.                                                              *)

\* The executions a search finds, the youngest first.
Matched(search) ==
    SetToSortSeq(Listed \cap (IF search THEN Found ELSE Executions), LAMBDA d, e : d > e)

\* Mutant: an older load goes on as if it were the latest.
SupersededRunsOn(jobs) == jobs

\* A load that was started before another one shows nothing.
Superseded(jobs) == [i \in DOMAIN jobs |-> [jobs[i] EXCEPT !.live = FALSE]]

\* The effect on search, revision and refresh.
Load ==
    /\ panel.due
    /\ panel' = [panel EXCEPT !.due = FALSE, !.loading = TRUE, !.error = FALSE]
    /\ queue' = [queue EXCEPT !["panel"] =
                    Append(Superseded(@), [Call("list", {}) EXCEPT !.search = panel.search])]
    /\ UNCHANGED <<store, settings, calls, overtaken, drifted>>

\* One page, after the cursor; the loop asks for the next one, behind whatever was
\* queued meanwhile, as long as it is the latest and pages are wanted.
Page ==
    LET call == Now("panel")
        older == IF call.loaded = <<>> THEN Matched(call.search)
                 ELSE SelectSeq(Matched(call.search), LAMBDA e : e < Last(call.loaded))
        loaded == call.loaded \o SubSeq(older, 1, Min({PageSize, Len(older)}))
        more == Len(older) > PageSize IN
    /\ At("panel", "list", "page")
    /\ IF more /\ call.live /\ call.page < panel.pages
       THEN /\ queue' = [queue EXCEPT !["panel"] = Append(Tail(@),
                            [call EXCEPT !.at = "prune", !.loaded = loaded, !.page = @ + 1])]
            /\ UNCHANGED panel
       ELSE /\ Leaves("panel")
            /\ panel' = IF call.live THEN [panel EXCEPT !.items = loaded, !.more = more,
                                                        !.loading = FALSE]
                        ELSE panel
    /\ drifted' = (drifted /\ ~(call.live /\ call.loaded = <<>>))
    /\ UNCHANGED <<store, settings, calls, overtaken>>

\* An entry is read for a tab of its own.
Open ==
    /\ At("panel", "open", "page") /\ Leaves("panel")
    /\ UNCHANGED <<store, settings, panel, calls, overtaken, drifted>>

\* The search box and its timer.
Type ==
    /\ panel' = [panel EXCEPT !.query = ~@, !.timer = TRUE]
    /\ UNCHANGED <<store, settings, queue, overtaken, drifted>>
Search ==
    /\ panel.timer
    /\ panel' = [panel EXCEPT !.timer = FALSE, !.pages = 1, !.search = panel.query,
                              !.due = @ \/ panel.query # panel.search]
    /\ UNCHANGED <<store, settings, queue, calls, overtaken, drifted>>

LoadMore ==
    /\ panel.more /\ ~panel.loading
    /\ panel' = [panel EXCEPT !.pages = @ + 1, !.due = TRUE]
    /\ UNCHANGED <<store, settings, queue, overtaken, drifted>>
Retry ==
    /\ panel.error /\ panel' = [panel EXCEPT !.due = TRUE]
    /\ UNCHANGED <<store, settings, queue, overtaken, drifted>>

\* Deleting an entry or all of them and shortening the retention are asked about
\* first; nothing else is begun while one of the actions is under way.
Mutate(op, about) ==
    /\ ~panel.busy
    /\ panel' = [panel EXCEPT !.busy = TRUE, !.error = FALSE]
    /\ queue' = [queue EXCEPT !["panel"] = Append(@, Call(op, about))]
Ask ==
    /\ ~panel.busy
    /\ \/ \E about \in {Executions} \union {{e} : e \in ToSet(panel.items)} :
             panel' = [panel EXCEPT !.asking = [op |-> "remove", about |-> about]]
       \/ \E d \in Days :
             d < panel.days /\ panel' = [panel EXCEPT !.asking = [op |-> "settings", about |-> {d}]]
    /\ UNCHANGED <<store, settings, queue, overtaken, drifted>>
Decline ==
    /\ panel.asking # Nothing /\ ~panel.busy /\ panel' = [panel EXCEPT !.asking = Nothing]
    /\ UNCHANGED <<store, settings, queue, calls, overtaken, drifted>>
Confirm ==
    /\ panel.asking # Nothing /\ Mutate(panel.asking.op, panel.asking.about)
    /\ UNCHANGED <<store, settings, calls, overtaken, drifted>>
Act ==
    /\ \/ \E e \in ToSet(panel.items) : Mutate("pin", {e})
       \/ \E d \in Days : d >= panel.days /\ Mutate("settings", {d})
       \/ \E e \in ToSet(panel.items) :
             /\ queue' = [queue EXCEPT !["panel"] = Append(@, Call("open", {e}))]
             /\ UNCHANGED panel
    /\ UNCHANGED <<store, settings, overtaken, drifted>>

\* An execution is recorded by a workbench of either tab; the other tab also pins
\* and deletes.
Recorded(t) ==
    /\ ~sent /\ sent' = TRUE
    /\ queue' = [queue EXCEPT ![t] = Append(@, Call("append", {Newest}))]
    /\ UNCHANGED <<store, days, now, panel, overtaken, drifted>>
Elsewhere ==
    /\ queue["other"] = <<>>
    /\ \E op \in {"pin", "remove"}, e \in Listed :
          queue' = [queue EXCEPT !["other"] = <<Call(op, {e})>>]
    /\ UNCHANGED <<store, settings, panel, overtaken, drifted>>

Pass ==
    /\ now < MaxTime /\ now' = now + 1
    /\ UNCHANGED <<store, days, sent, queue, panel, calls, overtaken, drifted>>

User == Type \/ LoadMore \/ Retry \/ Ask \/ Act \/ (\E t \in Tabs : Recorded(t)) \/ Elsewhere

Step(t) ==
    \/ AppendRead(t) \/ AppendWrite(t) \/ DeleteRead(t) \/ DeleteWrite(t)
    \/ PinRead(t) \/ PinWrite(t) \/ Settings(t) \/ PruneRead(t) \/ Drop(t)

Next ==
    \/ calls < MaxCalls /\ calls' = calls + 1 /\ User
    \/ (\E t \in Tabs : Step(t))
    \/ Load \/ Page \/ Open \/ Search \/ Decline \/ Confirm \/ Pass

Spec == Init /\ [][Next]_vars

-----------------------------------------------------------------------------

\* The state is of the expected shape; each tab runs one call after the other.
TypeOK ==
    /\ index \in [Executions -> {"no", "plain", "pinned"}]
    /\ rows \subseteq Executions /\ days \in Days /\ now \in 1..MaxTime
    /\ ToSet(panel.items) \subseteq Executions /\ panel.pages \in 1..MaxCalls + 1
    /\ \A t \in Tabs : \A i \in DOMAIN queue[t] :
          /\ queue[t][i].about \subseteq Executions \union Days
          /\ i > 1 => queue[t][i].at \in {"read", "prune"}

\* What is listed is what is stored, and so are its secrets, whatever two tabs
\* record, delete and let expire at once.  (Not after a pin was written over an index
\* it had not read: pin compares nothing, browser-history.ts:111-114.)
RowsAreListed == ~overtaken => Listed = rows /\ rows = secrets

\* "Delete unpinned entries older than": what is pinned leaves the index only by a
\* deletion that the user asked for, never by a retention that decided before.
PinnedKept ==
    \A e \in Executions : index[e] = "pinned" /\ index'[e] = "no" =>
        overtaken' \/ \E t \in Tabs : At(t, "remove", "write") /\ e \in Now(t).doomed

\* When the panel has nothing left to do, it shows the first pages of what is stored
\* and offers more just if there is more, however its loads, its actions and its
\* searches overtook each other; unless since then the other tab, or a retention that
\* ran before a page was read, has changed the index without telling it.
Quiet == queue["panel"] = <<>> /\ ~panel.due /\ ~panel.error
PanelShowsIndex ==
    Quiet /\ ~drifted =>
        LET all == Matched(panel.search)
            shown == Len(panel.items) IN
        /\ IsPrefix(panel.items, all)
        /\ panel.more <=> shown < Len(all)
        /\ panel.more => shown % PageSize = 0

HistoryIsWhole == [](RowsAreListed /\ PanelShowsIndex) /\ [][PinnedKept]_vars
=============================================================================
