------------------------------ MODULE OAuthGrant ------------------------------
(***************************************************************************)
(* Getting an OAuth token (services/oauth-client.ts, hooks/use-auth-       *)
(* runtime.ts and the native oauth.rs).                                    *)
(*                                                                         *)
(* A job resolves its inputs and asks the token endpoint.  One that needs  *)
(* the user's consent first has the native side open a page in the browser *)
(* and listen on the callback port; the pages of earlier jobs are still    *)
(* open and come back to the same port.  A job that is cancelled leaves    *)
(* its page, its listener and a cancel command behind, each of which goes  *)
(* its own way.                                                            *)
(***************************************************************************)
EXTENDS Naturals, Sequences

CONSTANTS
    Clients,    \* OAuth configurations with one identity each
    Consent,    \* those with the authorization code grant
    None,
    MaxJobs,    \* bound: jobs
    MaxEdits    \* bound: edits of the configuration

Jobs == 1..MaxJobs
Nobody == 0

VARIABLES
    config,      \* the client of the configuration and its token
    rendered,    \* the client of the last render
    unavailable, \* inputs whose secret or variable can not be read
    jobs,        \* the jobs begun, in order
    pending,     \* the job the editor waits for
    stops,       \* jobs a cancel command is on the way for
    callbacks,   \* jobs the native side can stop
    signalled,   \* jobs it was told to stop
    port,        \* the job that listens on the callback port
    pages,       \* jobs with a page in the browser
    exchanged,   \* history: who gave in the code of each job
    edits

vars == <<config, rendered, unavailable, jobs, pending, stops, callbacks, signalled, port,
          pages, exchanged, edits>>
frontend == <<config, rendered, pending, edits>>
native == <<callbacks, signalled, port, pages>>

NoToken == [client |-> None, refresh |-> FALSE]
HasToken == config.token # NoToken

\* Tokens are kept over a restart, jobs are not.
Init ==
    /\ config \in [client : Clients, token : {NoToken}]
         \cup {[client |-> c, token |-> [client |-> c, refresh |-> r]] : c \in Clients, r \in BOOLEAN}
    /\ rendered = config.client
    /\ unavailable \in {{}} \cup {{i} : i \in {"secret", "scopes", "redirect-uri", "refresh-token"}}
    /\ jobs = <<>> /\ pending = Nobody
    /\ stops = {} /\ callbacks = {} /\ signalled = {} /\ port = Nobody /\ pages = {}
    /\ exchanged = [j \in Jobs |-> <<>>]
    /\ edits = 0

-----------------------------------------------------------------------------
(* Inputs.                                                                 *)

\* Mutant: a refresh reads the scopes as well.
SelectedWithScopes(authorize, refresh) ==
    {"client-id", "token-url", "secret", "scopes"}
        \cup (IF refresh THEN {"refresh-token"} ELSE {})
        \cup (IF authorize THEN {"authorization-url", "redirect-uri"} ELSE {})

\* oauthOperationInputs: what is resolved for an operation; the fields it does
\* not need are left empty.
Selected(authorize, refresh) ==
    {"client-id", "token-url", "secret", IF refresh THEN "refresh-token" ELSE "scopes"}
        \cup (IF authorize THEN {"authorization-url", "redirect-uri"} ELSE {})

\* What goes out: in the parameters of the token request (fetchOAuthToken), and
\* before them in the address of the page (authorizeOAuth).
Form(j) ==
    CASE j.refresh -> {"refresh-token"}
      [] j.code # Nobody -> {"redirect-uri"}
      [] OTHER -> {"scopes"}
Page(j) == IF j.code = Nobody THEN {} ELSE {"authorization-url", "redirect-uri", "scopes"}
Sent(j) == {"client-id", "token-url", "secret"} \cup Form(j) \cup Page(j)

-----------------------------------------------------------------------------
(* The job in the editor (use-auth-runtime.ts).                            *)

Wait(j, at) == jobs' = [jobs EXCEPT ![j].at = at]
Over(j) == [jobs EXCEPT ![j] = [@ EXCEPT !.at = "over", !.inputs = {}, !.aborted = FALSE]]

\* run: one job at a time; whoever asks meanwhile waits for the same.
Run(action) ==
    /\ pending = Nobody /\ Len(jobs) < MaxJobs
    /\ jobs' = Append(jobs,
           [at |-> "resolving", client |-> config.client, code |-> Nobody, aborted |-> FALSE,
            authorize |-> action = "initial" /\ config.client \in Consent,
            refresh |-> action = "refresh" /\ config.token.refresh,
            inputs |-> {}])
    /\ pending' = Len(jobs')
    /\ UNCHANGED <<config, rendered, unavailable, stops, native, exchanged, edits>>

\* The buttons, the timer before a token expires and a request sent with an
\* expired one.
Initial == Run("initial")
Refresh == HasToken /\ Run("refresh")

\* A job ends without a token.
Ends(j) ==
    /\ jobs' = Over(j)
    /\ pending' = IF pending = j THEN Nobody ELSE pending
Fails(j) == Ends(j) /\ UNCHANGED <<config, rendered, unavailable, stops, exchanged, edits>>

\* resolveOAuthOperation; the code grant without consent and without a refresh
\* token is refused before anything is sent.
Resolved(j) ==
    /\ jobs[j].at = "resolving"
    /\ LET inputs == Selected(jobs[j].authorize, jobs[j].refresh)
           hopeless == jobs[j].client \in Consent /\ ~jobs[j].authorize /\ ~jobs[j].refresh IN
       IF inputs \cap unavailable # {} \/ hopeless \/ jobs[j].aborted
       THEN Fails(j)
       ELSE /\ jobs' = [jobs EXCEPT ![j].inputs = inputs,
                            ![j].at = IF jobs[j].authorize THEN "asked" ELSE "exchanging"]
            /\ UNCHANGED <<frontend, unavailable, stops, exchanged>>
    /\ UNCHANGED native

\* cancel, also as the editor goes: the job is aborted and the native side told.
Abandoned ==
    /\ pending # Nobody
    /\ jobs' = [jobs EXCEPT ![pending].aborted = jobs[pending].at # "over"]
    /\ stops' = stops \cup {pending}
    /\ pending' = Nobody
Cancel ==
    /\ Abandoned
    /\ UNCHANGED <<config, rendered, unavailable, native, exchanged, edits>>

\* setOAuth: another identity has no token; the job of the old one is cancelled
\* by the effect of the next render.
Edit(c) ==
    /\ edits < MaxEdits /\ c # config.client
    /\ config' = [client |-> c, token |-> NoToken]
    /\ edits' = edits + 1
    /\ UNCHANGED <<rendered, unavailable, jobs, pending, stops, native, exchanged>>
Render ==
    /\ rendered # config.client
    /\ rendered' = config.client
    /\ IF pending # Nobody /\ jobs[pending].client # config.client
       THEN Abandoned
       ELSE UNCHANGED <<jobs, stops, pending>>
    /\ UNCHANGED <<config, unavailable, native, exchanged, edits>>

ClearToken ==
    /\ HasToken
    /\ config' = [config EXCEPT !.token = NoToken]
    /\ IF pending # Nobody THEN Abandoned ELSE UNCHANGED <<jobs, stops, pending>>
    /\ UNCHANGED <<rendered, unavailable, native, exchanged, edits>>

-----------------------------------------------------------------------------
(* The native side (oauth.rs).                                             *)

Quietly == UNCHANGED <<config, rendered, unavailable, stops, exchanged, edits>>

\* The command is handled: from here on it can be stopped.
Register(j) ==
    /\ jobs[j].at = "asked"
    /\ Wait(j, "registered")
    /\ callbacks' = callbacks \cup {j}
    /\ UNCHANGED <<pending, signalled, port, pages>> /\ Quietly

NativeEnds(j) ==
    /\ callbacks' = callbacks \ {j}
    /\ port' = IF port = j THEN Nobody ELSE port
    /\ UNCHANGED <<signalled, pages>>

\* The port is taken, or the browser opens the page; it may fail to.
Bind(j) ==
    /\ jobs[j].at = "registered"
    /\ \/ Ends(j) /\ NativeEnds(j)
       \/ /\ port = Nobody /\ j \notin signalled
          /\ Wait(j, "listening")
          /\ port' = j /\ pages' = pages \cup {j}
          /\ UNCHANGED <<pending, callbacks, signalled>>
    /\ Quietly

\* cancel_oauth: a command that comes before the job it is for finds nothing.
Stop(j) ==
    /\ j \in stops
    /\ stops' = stops \ {j}
    /\ IF j \in callbacks
       THEN callbacks' = callbacks \ {j} /\ signalled' = signalled \cup {j}
       ELSE UNCHANGED <<callbacks, signalled>>
    /\ UNCHANGED <<frontend, unavailable, jobs, port, pages, exchanged>>

\* Mutant: any callback with a code will do.
AcceptedBlindly(t, j) == t \in pages

\* callback_code: a callback is taken for the job that listens when it carries
\* that job's state; another is answered with an error, and waiting goes on.
Accepted(t, j) == t = j

\* The page of job t comes back to whoever listens, with a code or without, once
\* or again.
Callback(t) ==
    /\ t \in pages /\ port # Nobody
    /\ LET j == port IN
       /\ Accepted(t, j)
       /\ \/ jobs' = [jobs EXCEPT ![j].at = "answered", ![j].code = t] /\ UNCHANGED pending
          \/ Ends(j)
       /\ NativeEnds(j)
    /\ Quietly

\* Told to stop, or nobody came within three minutes.
Stopped(j) ==
    /\ jobs[j].at = "listening" /\ j \in signalled
    /\ Ends(j) /\ NativeEnds(j) /\ Quietly
TimedOut(j) ==
    /\ jobs[j].at = "listening"
    /\ Ends(j) /\ NativeEnds(j) /\ Quietly

-----------------------------------------------------------------------------
(* The exchange (fetchOAuthToken).                                         *)

\* Mutant: the signal is not looked at when the code is there.
AwaitedLate(j) == TRUE
StillWanted(j) == ~jobs[j].aborted

Answered(j) ==
    /\ jobs[j].at = "answered"
    /\ IF StillWanted(j)
       THEN /\ Wait(j, "exchanging")
            /\ exchanged' = [exchanged EXCEPT ![jobs[j].code] = Append(@, j)]
            /\ UNCHANGED <<frontend, unavailable, stops>>
       ELSE Fails(j)
    /\ UNCHANGED native

\* Mutant: a refresh that returns no new refresh token has none.
RefreshAnswered(j, given) == given

\* A refresh token stays when a refresh brings no new one.
Refreshable(j, given) == given \/ jobs[j].refresh

\* Mutant: the token goes to the configuration there is.
InstalledAnywhere(j, refresh) ==
    [config EXCEPT !.token = [client |-> jobs[j].client, refresh |-> refresh]]

Installed(j, refresh) ==
    IF config.client # jobs[j].client THEN config
    ELSE [config EXCEPT !.token = [client |-> jobs[j].client, refresh |-> refresh]]

\* The endpoint refuses the code of another verifier; other refusals and answers
\* that are no bearer token end the job too.  The token of a job that is not
\* waited for any more is dropped.
Exchange(j) ==
    /\ jobs[j].at = "exchanging"
    /\ \/ Fails(j)
       \/ \E given \in BOOLEAN :
             /\ jobs[j].code \in {Nobody, j}
             /\ config' = IF pending = j THEN Installed(j, Refreshable(j, given)) ELSE config
             /\ Ends(j)
             /\ UNCHANGED <<rendered, unavailable, stops, exchanged, edits>>
    /\ UNCHANGED native

Progress(j) ==
    /\ j \in DOMAIN jobs
    /\ \/ Resolved(j) \/ Register(j) \/ Bind(j) \/ Stop(j) \/ Stopped(j) \/ TimedOut(j)
       \/ Answered(j) \/ Exchange(j)

Next ==
    \/ Initial \/ Refresh \/ Cancel \/ Render \/ ClearToken
    \/ \E c \in Clients : Edit(c)
    \/ \E j \in Jobs : Progress(j) \/ Callback(j)

\* Timers, commands and exchanges come to their end; the user and the browser
\* need do nothing.
Spec == Init /\ [][Next]_vars /\ \A j \in Jobs : WF_vars(Progress(j))

-----------------------------------------------------------------------------

\* Types, and that whoever listens can be told to stop or was.
TypeOK ==
    /\ config.client \in Clients
    /\ config.token \in [client : Clients \cup {None}, refresh : BOOLEAN]
    /\ rendered \in Clients
    /\ \A j \in DOMAIN jobs :
        /\ jobs[j].at \in {"resolving", "asked", "registered", "listening", "answered",
                           "exchanging", "over"}
        /\ jobs[j].client \in Clients /\ jobs[j].code \in 0..MaxJobs
    /\ pending \in 0..Len(jobs) /\ port \in 0..Len(jobs)
    /\ port # Nobody => port \in callbacks \cup signalled
    /\ edits \in 0..MaxEdits

\* Every authorization code is given in at most once, by the job it was issued
\* for, whose verifier goes with it, whatever pages of earlier jobs come back to
\* the port of a later one.
CodesAreExchangedOnce == \A t \in Jobs : exchanged[t] \in {<<>>, <<t>>}

\* A token belongs to the configuration it is kept with (docs/auth.md: "accepted
\* only when the OAuth configuration identity still matches").
TokenBelongs == HasToken => config.token.client = config.client

\* What goes to the endpoint was resolved, and nothing was resolved, and could
\* have failed, that does not go there (docs/auth.md: "unrelated missing or
\* disabled fields do not block a request").
AsksForWhatItSends ==
    \A j \in DOMAIN jobs : jobs[j].at = "exchanging" => jobs[j].inputs = Sent(jobs[j])

\* A job the user cancelled does not give in its code, and a refresh does not
\* lose the refresh token (docs/auth.md).
NothingLost ==
    /\ \A j \in DOMAIN jobs : exchanged'[j] # exchanged[j] => ~jobs[j].aborted
    /\ config.token.refresh /\ config'.token # NoToken /\ ~config'.token.refresh =>
           \E j \in DOMAIN jobs : jobs[j].at = "exchanging" /\ jobs'[j].at = "over" /\ ~jobs[j].refresh

\* Every job ends, and the callback port is free again: without the user's
\* consent, and also when the cancel command came before its job.
Quiet == pending = Nobody /\ port = Nobody /\ \A j \in DOMAIN jobs : jobs[j].at = "over"
GrantsEnd == (~Quiet) ~> Quiet
=============================================================================
