------------------------------ MODULE RequestCode ------------------------------
(***************************************************************************)
(* What a request is composed of, for the wire and for the eye             *)
(* (prepareWireRequest, resolveRequestSecrets, resolveRequestEnvironment), *)
(* the script that runs the requests its dynamic variables come from       *)
(* (dynamic-request-code.ts), the dialog that shows either and hides the   *)
(* secrets in it (request-code-dialog.tsx), and the files an execution     *)
(* stages (prepareBody).  A request is one with the headers and the        *)
(* credential it has from its workspace.                                   *)
(*                                                                         *)
(* A text is the set of its pieces: the places and the variables its       *)
(* characters come from, Mask for a run of asterisks, and the outputs of   *)
(* other requests, which the script reads when it runs.  A preparation     *)
(* works on what it was begun with, except that the secret store is asked  *)
(* when it gets there; it is one step, its answer.  React runs the effects *)
(* of a click before the dialog can be seen or clicked again, so that a    *)
(* click and the preparation it begins are one step, too.                  *)
(***************************************************************************)
EXTENDS FiniteSets, Naturals, SequencesExt

CONSTANTS
    Order,        \* names of variables, in the order of the namespace
    Sources,      \* saved requests that variables are extracted from
    Environments,
    Current,      \* a source is run in the environment it is needed in
    Home,         \* the environment the request is shown in
    Projects,     \* requests with their variables
    Edits,        \* definitions a name may be given meanwhile
    MaxFiles, MaxEvents  \* bounds

VARIABLES
    project,      \* request: of the editor and of each source; defined
    unlocked,     \* the secret store answers
    dialog,
    job,          \* the preparation whose answer is waited for, or NoJob
    late,         \* preparations whose answer is not waited for any more
    send,         \* an execution: where it is, its files, those it holds
    events

vars == <<project, unlocked, dialog, job, late, send, events>>

Names == {Order[i] : i \in DOMAIN Order}
Editor == "editor"
Own == <<Editor>>  \* the key of the step that is the request itself

\* What a text is, besides the names in it: nothing, public, a secret that was
\* typed or is at hand, one in the store, one that was deleted.  A credential may
\* be one that was not entered.
Secrets == {"typed", "stored", "deleted"}
Kinds == {"none", "public", "missing"} \cup Secrets
\* Definitions besides: of a name that is not defined, defined twice or off,
\* and of an output.
Definitions ==
    [kind : (Kinds \cup {"twice", "off", "output"}), names : SUBSET Names,
     source : Sources \cup {Editor}, environment : Environments \cup {Current}]

\* url and body are public places; a header row may be marked secret, and a
\* credential is.
Places == {"url", "header", "auth", "body"}
Marked == {"header", "auth"}
Cookies == "cookies"
Mask == <<"mask">>

-----------------------------------------------------------------------------
(* Values. resolveSecretField: hidden, every secret is Mask; otherwise it is *)
(* needed.                                                                   *)

Def(p, e, n) == p.defined[e][n]
Output(p, e, n) == Def(p, e, n).kind = "output"
SecretNames(p, e) == {n \in Names : Def(p, e, n).kind \in Secrets}
AtHand(kind, store) == kind = "stored" => store

\* The names a text comes to, those of opaque values not followed.
Reach(p, e, names, opaque) ==
    LET after[i \in 0..Cardinality(Names)] ==
            IF i = 0 THEN names
            ELSE after[i - 1] \cup UNION {Def(p, e, n).names : n \in after[i - 1] \ opaque}
    IN after[Cardinality(Names)]

\* A variable that comes to a secret is as sensitive as the secret.
Sensitive(p, e) == {n \in Names : Reach(p, e, {n}, {}) \cap SecretNames(p, e) # {}}

\* Each definition has one output in each environment it is run in.
Environment(p, e, n) ==
    IF Def(p, e, n).environment = Current THEN e ELSE Def(p, e, n).environment
Key(p, e, n) == <<n, Def(p, e, n), Environment(p, e, n)>>

Piece(p, e, n) == IF Output(p, e, n) THEN <<"output", Key(p, e, n)>> ELSE <<"variable", e, n>>

\* resolveEnvironmentValue, with opaque values masked.
Text(p, e, names, opaque) ==
    LET reached == Reach(p, e, names, opaque) IN
    {Piece(p, e, n) : n \in reached \ opaque} \cup IF reached \cap opaque # {} THEN {Mask} ELSE {}

Resolves(p, e, names, opaque, store) ==
    \A n \in Reach(p, e, names, opaque) \ opaque :
        /\ Def(p, e, n).kind \notin {"none", "twice", "off", "deleted"}
        /\ AtHand(Def(p, e, n).kind, store)
        /\ n \notin Reach(p, e, Def(p, e, n).names, opaque)

-----------------------------------------------------------------------------
(* Composition.                                                            *)

\* Mutant: the variables are read for the wire, hidden or not.
OpaqueNever(p, e, hidden) == {}

\* Hidden, the secrets among the variables are not read.
Opaque(p, e, hidden) == IF hidden THEN SecretNames(p, e) ELSE {}

\* Hidden, the text of a marked place is Mask, unless it is but a reference.
Redacted(field, place, hidden) == hidden /\ place \in Marked /\ field.kind # "none"
NamesIn(field, place, hidden) == IF Redacted(field, place, hidden) THEN {} ELSE field.names
OwnText(d, field, place, hidden) ==
    IF Redacted(field, place, hidden) THEN {Mask}
    ELSE IF field.kind = "none" THEN {} ELSE {<<"field", d, place>>}

AllNames(p, d, hidden) == UNION {NamesIn(p.request[d][q], q, hidden) : q \in Places}

\* getAuthBinding and resolveSecretField: a credential, or the text of a marked
\* header, that was entered and can be read.  Where a credential goes, to a
\* header, the query or a cookie, makes no difference here.
Bound(kind, store) == kind \notin {"deleted", "missing"} /\ AtHand(kind, store)

\* Everything the request says is defined and at hand.
Readable(p, d, e, hidden, store) ==
    /\ Resolves(p, e, AllNames(p, d, hidden), Opaque(p, e, hidden), store)
    /\ hidden \/ \A q \in Marked : Bound(p.request[d][q].kind, store)

\* Its body and its address pass their checks, too.
Composes(p, d, e, hidden, store) ==
    Readable(p, d, e, hidden, store) /\ p.request[d].valid

\* The texts that go on the wire.
Wire(p, d, e, hidden) ==
    [q \in Places |->
        OwnText(d, p.request[d][q], q, hidden)
            \cup Text(p, e, NamesIn(p.request[d][q], q, hidden), Opaque(p, e, hidden))]

IsOutput(piece) == piece[1] = "output"
Covered(text) == IF text = {} THEN {} ELSE {Mask}

\* Sensitive variables are masked wherever they are.
MaskedNames(p, e, names) == Text(p, e, names, Sensitive(p, e))

\* The texts that are displayed: a header that is marked is covered, of a
\* credential the outputs are left.  In a script the address has been resolved
\* before this.
Display(p, d, e, hidden, script) ==
    LET wire == Wire(p, d, e, hidden) IN
    [q \in Places |->
        CASE q = "header" -> Covered(wire[q])
          [] q = "auth" -> LET outputs == {x \in wire[q] : IsOutput(x)} IN
                           outputs \cup Covered(wire[q] \ outputs)
          [] q = "url" /\ script -> wire[q]
          [] OTHER -> OwnText(d, p.request[d][q], q, hidden)
                          \cup MaskedNames(p, e, p.request[d][q].names)]

\* formatRequestCode: each format says all of it.
All(texts) == UNION {texts[q] : q \in Places}

\* The cookies of the jar, masked in what is displayed; hidden, the request is
\* the displayed one.
WithCookies(p, d, pieces, masked) ==
    IF p.request[d].cookies THEN pieces \cup {IF masked THEN Mask ELSE <<"field", d, Cookies>>}
    ELSE pieces
Code(p, d, e, hidden, script) ==
    WithCookies(p, d, All(IF hidden THEN Display(p, d, e, hidden, script)
                          ELSE Wire(p, d, e, hidden)), FALSE)
DisplayCode(p, d, e, hidden, script) ==
    WithCookies(p, d, All(Display(p, d, e, hidden, script)), TRUE)

-----------------------------------------------------------------------------
(* The script.                                                             *)

NoSteps == [steps |-> <<>>, found |-> FALSE, failed |-> FALSE]

\* Mutant: the output of a definition is one, whatever the environment.
FoundByDefinition(run, key) ==
    SelectSeq(run.steps, LAMBDA s : s.key # Own /\ <<s.key[1], s.key[2]>> = <<key[1], key[2]>>)

\* The step whose output it is, if there is one (completed).
Found(run, key) == SelectSeq(run.steps, LAMBDA s : s.key = key)

\* Mutant: a step is called after its variable.
Unnumbered(run, base) == <<base, 1>>

\* A name that is taken is numbered.
Numbered(run, base) ==
    <<base, CHOOSE k \in 1..(Len(run.steps) + 1) :
        /\ \A i \in DOMAIN run.steps : run.steps[i].name # <<base, k>>
        /\ \A j \in 1..(k - 1) : \E i \in DOMAIN run.steps : run.steps[i].name = <<base, j>>>>

Fail(run) == [run EXCEPT !.failed = TRUE]

RECURSIVE Visit(_, _, _, _, _, _, _)

\* A variable of the namespace that is needed: its step, unless there is one.
Needed(p, e, n, path, run, hidden, store) ==
    LET key == Key(p, e, n)
        found == [run EXCEPT !.found = TRUE] IN
    IF run.failed \/ Found(run, key) # <<>> THEN found
    ELSE Visit(p, Def(p, e, n).source, key[3], path, key, found, <<hidden, store>>)

\* A request that is on the path already, gone or unreadable fails; else it
\* follows the requests it reads, unless it cannot be composed then.
Visit(p, d, e, path, key, run, mode) ==
    LET hidden == mode[1]
        store == mode[2] IN
    IF <<d, e>> \in path \/ d \notin DOMAIN p.request \/ ~Readable(p, d, e, hidden, store)
    THEN Fail(run)
    ELSE LET reached == Reach(p, e, AllNames(p, d, hidden), Opaque(p, e, hidden))
             needed == SelectSeq(Order, LAMBDA n : n \in reached /\ Output(p, e, n))
             each(before, n) == Needed(p, e, n, path \cup {<<d, e>>}, before, hidden, store)
             after == FoldLeft(each, run, needed)
             reads == {<<Key(p, e, n), Found(after, Key(p, e, n))[1].name>> : n \in ToSet(needed)}
         IN IF after.failed \/ ~p.request[d].valid THEN Fail(after)
            ELSE [after EXCEPT !.steps = Append(@,
                    [key |-> key, name |-> Numbered(after, key[1]),
                     reads |-> reads, code |-> Code(p, d, e, hidden, TRUE),
                     display |-> DisplayCode(p, d, e, hidden, TRUE)])]

Script(p, hidden, store) == Visit(p, Editor, Home, {}, Own, NoSteps, <<hidden, store>>)

\* renderScript: the commands of the steps, one after the other.
Rendered(steps, masked) ==
    UNION {IF masked THEN steps[i].display ELSE steps[i].code : i \in DOMAIN steps}

\* What the dialog is given: the script if there is any, else the request.
Nothing == [kind |-> "none"]
Error(dynamic) == [kind |-> "error", dynamic |-> dynamic]
Prepared(p, hidden, store) ==
    LET script == Script(p, hidden, store) IN
    IF script.failed THEN Error(script.found)
    ELSE IF script.found THEN [kind |-> "script", steps |-> script.steps]
    ELSE [kind |-> "request", code |-> Code(p, Editor, Home, hidden, FALSE),
          display |-> DisplayCode(p, Editor, Home, hidden, FALSE)]

-----------------------------------------------------------------------------
(* The dialog.                                                             *)

Closed == [open |-> FALSE]
NoJob == [project |-> "none"]
Counts == events < MaxEvents /\ events' = events + 1

\* The effect: what was made before goes, and its answer is not waited for.
Begin(p, revealed, format) ==
    /\ dialog' = [open |-> TRUE, revealed |-> revealed, made |-> Nothing, dynamic |-> FALSE,
                  format |-> format]
    /\ job' = [project |-> p, hidden |-> ~revealed, begun |-> events']
    /\ late' = late \cup ({job} \ {NoJob})

Open ==
    /\ ~dialog.open /\ Counts /\ Begin(project, FALSE, "curl")
    /\ UNCHANGED <<project, unlocked, send>>

Close ==
    /\ dialog.open /\ Counts
    /\ dialog' = Closed /\ job' = NoJob /\ late' = late \cup ({job} \ {NoJob})
    /\ UNCHANGED <<project, unlocked, send>>

Toggle ==
    /\ dialog.open /\ Counts /\ Begin(project, ~dialog.revealed, dialog.format)
    /\ UNCHANGED <<project, unlocked, send>>

\* Something else changes a definition in use.
Change(n, definition) ==
    /\ project.defined[Home][n].kind # "none" /\ project.defined[Home][n] # definition /\ Counts
    /\ project' = [project EXCEPT !.defined[Home][n] = definition]
    /\ IF dialog.open THEN Begin(project', dialog.revealed, dialog.format)
       ELSE UNCHANGED <<dialog, job, late>>
    /\ UNCHANGED <<unlocked, send>>

Lock ==
    /\ Counts /\ unlocked' = ~unlocked
    /\ UNCHANGED <<project, dialog, job, late, send>>

ChooseFormat(format) ==
    /\ dialog.open /\ dialog.format # format
    /\ dialog.dynamic => format = "curl"
    /\ Counts /\ dialog' = [dialog EXCEPT !.format = format]
    /\ UNCHANGED <<project, unlocked, job, late, send>>

\* Mutant: an answer is taken while the dialog is open.
TakenWhenOpen(j) == dialog.open

\* The effect's own flag.
Taken(j) == j = job

\* Mutant: the format stays as it was chosen.
FormatKept(made) == dialog.format

\* The script, and what went wrong with it, is in one format.
FormatOf(made) ==
    IF made.kind = "script" \/ (made.kind = "error" /\ made.dynamic) THEN "curl"
    ELSE dialog.format

Answer(j) ==
    LET made == Prepared(j.project, j.hidden, unlocked) IN
    /\ dialog' = IF Taken(j) THEN [dialog EXCEPT !.made = made, !.format = FormatOf(made),
                     !.dynamic = made.kind = "script" \/ (made.kind = "error" /\ made.dynamic)]
                 ELSE dialog
    /\ job' = IF j = job THEN NoJob ELSE job
    /\ late' = late \ {j}
    /\ UNCHANGED <<project, unlocked, send, events>>

\* What the viewer shows and Copy takes.
Shown ==
    LET made == dialog.made IN
    IF ~dialog.open \/ made.kind \in {"none", "error"} THEN {}
    ELSE IF made.kind = "request" THEN IF dialog.revealed THEN made.code ELSE made.display
    ELSE Rendered(made.steps, ~dialog.revealed)

-----------------------------------------------------------------------------
(* Files that are staged for an execution.                                 *)

Idle == [at |-> "idle", files |-> 0, held |-> {}]

Send(files) ==
    /\ send.at = "idle" /\ Counts
    /\ send' = IF Composes(project, Editor, Home, FALSE, unlocked)
               THEN [send EXCEPT !.at = "staging", !.files = files] ELSE send
    /\ UNCHANGED <<project, unlocked, dialog, job, late>>

SendOnly == UNCHANGED <<project, unlocked, dialog, job, late, events>>

Stage ==
    /\ send.at = "staging" /\ Cardinality(send.held) < send.files
    /\ send' = [send EXCEPT !.held = @ \cup {Cardinality(send.held) + 1}]
    /\ SendOnly

\* Mutant: the file that failed goes, and none before it.
ReleasedLast(held) == held \ {Cardinality(held)}

\* All of them, one failing or not.
Released(held) == {}

\* Staging the next file fails, or is cancelled.
StageFails ==
    /\ send.at = "staging" /\ Cardinality(send.held) < send.files
    /\ send' = [Idle EXCEPT !.held = Released(send.held)]
    /\ SendOnly

\* All are staged: the rest of the preparation fails, it is cancelled, or the
\* execution takes its course; its end lets the files go.
Prepare ==
    /\ send.at = "staging" /\ Cardinality(send.held) = send.files
    /\ send' \in {[Idle EXCEPT !.held = Released(send.held)], [send EXCEPT !.at = "sent"]}
    /\ SendOnly

SendEnds ==
    /\ send.at = "sent"
    /\ send' = [Idle EXCEPT !.held = Released(send.held)]
    /\ SendOnly

-----------------------------------------------------------------------------

Begun ==
    /\ dialog = Closed /\ job = NoJob /\ late = {}
    /\ send = Idle /\ events = 0

Init == project \in Projects /\ unlocked \in BOOLEAN /\ Begun

Next ==
    \/ Open \/ Close \/ Toggle \/ Lock
    \/ \E n \in Names, definition \in Edits : Change(n, definition)
    \/ \E format \in {"curl", "other"} : ChooseFormat(format)
    \/ \E j \in late \cup ({job} \ {NoJob}) : Answer(j)
    \/ \E files \in 0..MaxFiles : Send(files)
    \/ Stage \/ StageFails \/ Prepare \/ SendEnds

Spec == Init /\ [][Next]_vars

-----------------------------------------------------------------------------
(* What is promised.                                                       *)

\* The variables stay of their types.
TypeOK ==
    /\ \A e \in Environments, n \in Names : Def(project, e, n) \in Definitions
    /\ unlocked \in BOOLEAN /\ events \in 0..MaxEvents
    /\ dialog.open => dialog.made.kind \in {"none", "error", "request", "script"}
    /\ job # NoJob => dialog.open
    /\ send.at \in {"idle", "staging", "sent"} /\ send.held \subseteq 1..MaxFiles

Secret(piece) ==
    CASE piece[1] = "field" -> piece[3] \in Marked \cup {Cookies}
      [] piece[1] = "variable" -> Def(project, piece[2], piece[3]).kind \in Secrets
      [] OTHER -> FALSE

\* Unless they were revealed, no secret of the request or of the requests its
\* variables come from is in the code, whenever it was hidden again, whatever
\* became a secret meanwhile and whichever preparation answers last.
HiddenIsMasked ==
    dialog.open /\ ~dialog.revealed => \A piece \in Shown : ~Secret(piece)

\* Revealed, nothing in it is masked: it can be run.
RevealedIsWhole == dialog.open /\ dialog.revealed => Mask \notin Shown

\* Once nothing is waited for, the dialog shows the request as it is now, or
\* why it cannot be composed.
CodeIsCurrent ==
    dialog.open /\ job = NoJob =>
        /\ dialog.made \in {Prepared(project, ~dialog.revealed, store) : store \in BOOLEAN}
        /\ dialog.dynamic => dialog.format = "curl"

\* The script runs each source once in each environment it is needed in, and
\* what a step reads under a name is what it needs: a step before it has put it
\* there, and none after that another output.
StepsReadTheirOwn ==
    dialog.open /\ dialog.made.kind = "script" =>
        LET steps == dialog.made.steps IN
        /\ steps[Len(steps)].key = Own
        /\ \A i, j \in DOMAIN steps : i # j => steps[i].key # steps[j].key
        /\ \A i \in DOMAIN steps : \A read \in steps[i].reads :
              \E j \in 1..(i - 1) :
                 /\ steps[j].key = read[1] /\ steps[j].name = read[2]
                 /\ \A k \in (j + 1)..(i - 1) : steps[k].name # read[2]
        /\ \A i \in DOMAIN steps : \A piece \in steps[i].code \cup steps[i].display :
              IsOutput(piece) => \E read \in steps[i].reads : read[1] = piece[2]

\* An execution that ended, wherever it failed, holds none of its files.
NothingStaysStaged == send.at = "idle" => send.held = {}

=============================================================================
