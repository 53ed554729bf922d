--------------------------- MODULE RequestExecution ---------------------------
(***************************************************************************)
(* Sending the request of one document (request-workbench.tsx, send,       *)
(* record and cancelSend; execute-request.ts) and the OAuth token it may   *)
(* need (hooks/use-auth-runtime.ts).                                       *)
(*                                                                         *)
(* The workbench of a document goes when the user turns to another one or  *)
(* switches environments, and a new one is made on return.  The execution  *)
(* under way goes on with the refs of the workbench that began it; only    *)
(* the session (sending, response, cancelExecution) is kept beside them.   *)
(* Each await is a state of the execution.                                 *)
(***************************************************************************)
EXTENDS Naturals, Sequences, FiniteSets

CONSTANTS
    Inherited,  \* the token's configuration is a profile of the workspace
    MaxSends, MaxMounts, MaxEdits, MaxJobs  \* bounds

Runs == 1..MaxSends
Mounts == 1..MaxMounts
Jobs == 1..MaxJobs
Nobody == 0

VARIABLES
    runs,     \* the executions begun, in order
    mounts,   \* workbenches made so far
    shown,    \* the workbench on screen, or Nobody
    refs,     \* per workbench: executionRef, sendingRef, cancelHistoryRef, pending
    session,  \* sending, response and cancelExecution of the document
    history,  \* what was recorded of each execution, in order
    jobs,     \* the token requests begun, in order
    config,   \* the OAuth configuration: identity, preferences, token, environment
    edits

vars == <<runs, mounts, shown, refs, session, history, jobs, config, edits>>

NoConfig == [identity |-> 0, preferences |-> 0, token |-> FALSE, environment |-> 0]
Fresh == [execution |-> 0, sending |-> FALSE, cancels |-> Nobody, job |-> Nobody,
          seen |-> NoConfig, environment |-> 0]

Init ==
    /\ runs = <<>> /\ jobs = <<>>
    /\ mounts = 1 /\ shown = 1
    /\ refs = [m \in Mounts |-> Fresh]
    /\ session = [sending |-> FALSE, response |-> Nobody, cancel |-> Nobody]
    /\ history = [r \in Runs |-> <<>>]
    /\ config = NoConfig
    /\ edits = 0

-----------------------------------------------------------------------------
(* The workbench.                                                          *)

\* send: one execution at a time for the document, whichever workbench it
\* was begun in.
CanSend == shown # Nobody /\ ~refs[shown].sending /\ ~session.sending

Send ==
    /\ CanSend /\ Len(runs) < MaxSends
    /\ LET r == Len(runs) + 1  n == refs[shown].execution + 1 IN
       /\ runs' = Append(runs,
              [at |-> "resolving", in |-> shown, mine |-> n, token |-> config.token,
               dispatched |-> FALSE, recorded |-> FALSE, aborted |-> FALSE,
               job |-> Nobody])
       /\ refs' = [refs EXCEPT ![shown].execution = n, ![shown].sending = TRUE,
                               ![shown].cancels = r]
       /\ session' = [session EXCEPT !.sending = TRUE, !.cancel = shown]
    /\ UNCHANGED <<mounts, shown, history, jobs, config, edits>>

\* Mutant: the last one to end is the current one.
IsAlwaysCurrent(r) == runs[r].at # "over"

\* An execution ended: one that was superseded leaves everything to its
\* successor, the current one is recorded and clears the workbench.
IsCurrent(r) == runs[r].mine = refs[runs[r].in].execution
Superseded(r) == ~IsCurrent(r)

\* Mutant: what never went to the network is recorded too.
ToRecordUnsent(r) == ~runs[r].recorded

\* record: at most once, and only what went to the network.
ToRecord(r) == runs[r].dispatched /\ ~runs[r].recorded

Record(r, outcome) ==
    IF ToRecord(r) THEN [history EXCEPT ![r] = Append(@, outcome)] ELSE history

Over(r) ==
    [runs EXCEPT ![r].at = "over", ![r].mine = 0, ![r].job = Nobody, ![r].token = FALSE,
                 ![r].aborted = FALSE,
                 ![r].recorded = @ \/ (IsCurrent(r) /\ runs[r].dispatched)]

Finish(r, outcome, response) ==
    /\ runs' = Over(r)
    /\ IF Superseded(r) THEN UNCHANGED <<refs, session, history>>
       ELSE /\ history' = Record(r, outcome)
            /\ refs' = [refs EXCEPT ![runs[r].in].sending = FALSE,
                                    ![runs[r].in].cancels = Nobody]
            /\ session' = [sending |-> FALSE, cancel |-> Nobody,
                           response |-> IF response THEN r ELSE session.response]
    /\ UNCHANGED <<mounts, shown, config, edits>>

\* An abort that is not a supersession does not happen: cancelSend does both.
Failed(r) == Finish(r, "error", FALSE) /\ UNCHANGED jobs

\* Dropping the job of a workbench aborts it; its promise resolves to null.
Aborted(j) == IF j = Nobody THEN jobs ELSE [jobs EXCEPT ![j].aborted = TRUE]

\* cancelSend of the workbench that is sending, through the session if that is
\* not the one on screen any more.
Cancel ==
    /\ shown # Nobody /\ session.sending
    /\ LET m == IF refs[shown].sending THEN shown ELSE session.cancel
           r == refs[m].cancels IN
       /\ history' = Record(r, "cancelled")
       /\ runs' = [runs EXCEPT ![r].aborted = TRUE,
                               ![r].recorded = @ \/ runs[r].dispatched]
       /\ jobs' = Aborted(refs[m].job)
       /\ refs' = [refs EXCEPT ![m].execution = @ + 1, ![m].sending = FALSE,
                               ![m].cancels = Nobody, ![m].job = Nobody]
       /\ session' = [session EXCEPT !.sending = FALSE, !.cancel = Nobody]
    /\ UNCHANGED <<mounts, shown, config, edits>>

-----------------------------------------------------------------------------
(* The steps of an execution.                                              *)

\* The configuration the runtime of a workbench last rendered.
Rendered(m) == IF m = shown THEN config ELSE refs[m].seen

\* runtime.run: one job at a time, joined by whoever asks meanwhile.
RunJob(m) ==
    /\ Len(jobs) < MaxJobs
    /\ jobs' = Append(jobs, [in |-> m, from |-> Rendered(m), aborted |-> FALSE, over |-> FALSE])
    /\ refs' = [refs EXCEPT ![m].job = Len(jobs) + 1]

Resolved(r) ==
    /\ runs[r].at = "resolving"
    /\ \/ Failed(r)
       \/ /\ ~Superseded(r) /\ runs[r].token
          /\ runs' = [runs EXCEPT ![r].at = "preparing"]
          /\ UNCHANGED <<mounts, shown, refs, session, history, jobs, config, edits>>
       \/ /\ ~Superseded(r) /\ ~runs[r].token
          /\ IF refs[runs[r].in].job # Nobody THEN UNCHANGED <<jobs, refs>>
             ELSE RunJob(runs[r].in)
          /\ runs' = [runs EXCEPT ![r].at = "token", ![r].job = refs'[runs[r].in].job]
          /\ UNCHANGED <<mounts, shown, session, history, config, edits>>

\* Secrets are read and bodies staged; then the signal is looked at, and from
\* there on the execution is one of the history.
Prepared(r) ==
    /\ runs[r].at = "preparing"
    /\ \/ Failed(r)
       \/ /\ ~runs[r].aborted
          /\ runs' = [runs EXCEPT ![r].at = "transport", ![r].dispatched = TRUE]
          /\ UNCHANGED <<mounts, shown, refs, session, history, jobs, config, edits>>

\* The exchange ends, and the staged bodies are released before anyone learns
\* of it.
Exchanged(r) ==
    /\ runs[r].at = "transport"
    /\ \E ok \in BOOLEAN :
        /\ ok => ~runs[r].aborted
        /\ runs' = [runs EXCEPT ![r].at = IF ok THEN "answered" ELSE "failed"]
    /\ UNCHANGED <<mounts, shown, refs, session, history, jobs, config, edits>>

Settled(r) ==
    /\ runs[r].at \in {"answered", "failed"}
    /\ IF runs[r].at = "answered" THEN Finish(r, "response", TRUE) ELSE Finish(r, "error", FALSE)
    /\ UNCHANGED jobs

-----------------------------------------------------------------------------
(* The token.                                                              *)

\* The runtime's own run, from the Auth editor or its refresh timer.
Refresh ==
    /\ shown # Nobody /\ refs[shown].job = Nobody
    /\ RunJob(shown)
    /\ UNCHANGED <<runs, mounts, shown, session, history, config, edits>>

\* Mutant: the token brings the configuration it was asked for.
WithTokenOf(now, from, environment) ==
    [from EXCEPT !.token = TRUE, !.environment = environment]

\* A token for the document's own configuration is merged into the draft of
\* now, unless that has another identity or the environment was switched; one
\* for an inherited configuration takes the place of the profile, as it was
\* when the job began.
WithToken(now, from, environment) ==
    IF Inherited THEN [now EXCEPT !.identity = from.identity,
                                  !.preferences = from.preferences, !.token = TRUE]
    ELSE IF now.identity = from.identity /\ now.environment = environment
         THEN [now EXCEPT !.token = TRUE]
    ELSE now

\* The promise of a job resolves, and with it the executions that wait for it.
JobEnds(j) ==
    /\ ~jobs[j].over
    /\ \E ok \in BOOLEAN :
        LET m == jobs[j].in
            mine == refs[m].job = j
            token == ok /\ mine
            waiting == {r \in DOMAIN runs : runs[r].at = "token" /\ runs[r].job = j} IN
        /\ ok => ~jobs[j].aborted
        /\ config' = IF token THEN WithToken(config, jobs[j].from, refs[m].environment)
                     ELSE config
        /\ refs' = IF mine THEN [refs EXCEPT ![m].job = Nobody] ELSE refs
        /\ jobs' = [jobs EXCEPT ![j].over = TRUE, ![j].aborted = FALSE,
                              ![j].from = NoConfig]
        /\ runs' = [r \in DOMAIN runs |->
                       IF r \in waiting
                       THEN [runs[r] EXCEPT !.at = IF token THEN "preparing" ELSE "failed"]
                       ELSE runs[r]]
    /\ UNCHANGED <<mounts, shown, session, history, edits>>

\* The configuration is edited: in the Auth editor, where a changed identity
\* drops the token and the job, or in the settings, in place of the workbench.
Edit ==
    /\ edits < MaxEdits
    /\ shown = Nobody <=> Inherited
    /\ edits' = edits + 1
    /\ \E identity \in BOOLEAN :
        IF identity
        THEN /\ config' = [config EXCEPT !.identity = edits', !.token = FALSE]
             /\ IF shown = Nobody THEN UNCHANGED <<refs, jobs>>
                ELSE /\ jobs' = Aborted(refs[shown].job)
                     /\ refs' = [refs EXCEPT ![shown].job = Nobody]
        ELSE config' = [config EXCEPT !.preferences = edits'] /\ UNCHANGED <<refs, jobs>>
    /\ UNCHANGED <<runs, mounts, shown, session, history>>

-----------------------------------------------------------------------------

\* The workbench leaves the screen; its job is dropped, its execution is not.
Unmounted ==
    [refs EXCEPT ![shown].job = Nobody, ![shown].seen = config]

Leave ==
    /\ shown # Nobody
    /\ shown' = Nobody
    /\ jobs' = Aborted(refs[shown].job)
    /\ refs' = Unmounted
    /\ UNCHANGED <<runs, mounts, session, history, config, edits>>

Return ==
    /\ shown = Nobody /\ mounts < MaxMounts
    /\ mounts' = mounts + 1 /\ shown' = mounts'
    /\ refs' = [refs EXCEPT ![mounts'].environment = config.environment]
    /\ UNCHANGED <<runs, session, history, jobs, config, edits>>

\* selectEnvironment drops the tokens of all documents and, by its key, the
\* workbench.
SwitchEnvironment ==
    /\ shown # Nobody /\ mounts < MaxMounts
    /\ mounts' = mounts + 1 /\ shown' = mounts'
    /\ config' = [config EXCEPT !.environment = @ + 1, !.token = Inherited /\ @]
    /\ jobs' = Aborted(refs[shown].job)
    /\ refs' = [Unmounted EXCEPT ![mounts'].environment = config'.environment]
    /\ UNCHANGED <<runs, session, history, edits>>

Progress(r) == r \in DOMAIN runs /\ (Resolved(r) \/ Prepared(r) \/ Exchanged(r) \/ Settled(r))
JobProgress(j) == j \in DOMAIN jobs /\ JobEnds(j)

Next ==
    \/ Send \/ Cancel \/ Refresh \/ Edit \/ Leave \/ Return \/ SwitchEnvironment
    \/ \E r \in Runs : Progress(r)
    \/ \E j \in Jobs : JobProgress(j)

\* What an execution or a job waits for comes to an end: the exchange has a
\* timeout, the callback of an authorization an expiry.
Spec ==
    /\ Init /\ [][Next]_vars
    /\ \A r \in Runs : WF_vars(Progress(r))
    /\ \A j \in Jobs : WF_vars(JobProgress(j))

-----------------------------------------------------------------------------

TypeOK ==
    /\ Len(runs) <= MaxSends /\ Len(jobs) <= MaxJobs /\ mounts \in Mounts
    /\ \A r \in DOMAIN runs :
        /\ runs[r].at \in {"resolving", "token", "preparing", "transport",
                           "answered", "failed", "over"}
        /\ runs[r].in \in Mounts /\ runs[r].job \in 0..Len(jobs)
    /\ shown \in {Nobody, mounts}
    /\ session \in [sending : BOOLEAN, response : 0..MaxSends, cancel : 0..MaxMounts]
    /\ session.sending <=> \E m \in Mounts : refs[m].sending
    /\ session.sending <=> session.cancel # Nobody
    /\ config \in [identity : 0..MaxEdits, preferences : 0..MaxEdits,
                   token : BOOLEAN, environment : 0..MaxMounts]

\* Every execution that went to the network is in the history exactly once
\* when it is over, as what the user saw of it, and no other one is, however
\* cancelling, leaving the document and its own end follow one another.
RecordedOnce ==
    \A r \in DOMAIN runs :
        /\ Len(history[r]) <= IF runs[r].dispatched THEN 1 ELSE 0
        /\ runs[r].at = "over" /\ runs[r].dispatched => Len(history[r]) = 1
        /\ session.response = r => history[r] = <<"response">>

\* "A later send or Escape cancellation invalidates the earlier completion so
\* stale results cannot replace current state" (docs/request-lifecycle.md).
OnlyCurrentShown ==
    [][session'.response # session.response =>
        LET r == session'.response IN
        r = Len(runs) /\ ~runs[r].aborted /\ session.sending]_vars

\* What of an execution is seen now, and later in the history.
ShownAndRecorded == []RecordedOnce /\ OnlyCurrentShown

\* "In-flight results are accepted only when the OAuth configuration identity
\* still matches" (docs/auth.md): a token that arrives adds itself to the
\* configuration it was asked for, or changes nothing.
LateTokenKeepsEdits ==
    [][\A j \in DOMAIN jobs : ~jobs[j].over /\ jobs'[j].over =>
        /\ config' = [config EXCEPT !.token = config'.token]
        /\ config' # config =>
              /\ jobs[j].from.identity = config.identity
              /\ Inherited \/ jobs[j].from.environment = config.environment]_vars

\* What is sent is answered, fails or is cancelled, on whatever screen the user
\* is by then.
SendingEnds == session.sending ~> ~session.sending
=============================================================================
