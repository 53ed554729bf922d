---------------------------- MODULE RedirectChain ----------------------------
(***************************************************************************)
(* One HTTP execution and its redirects (services/http-client.ts,          *)
(* executeHttp), with the session's cookies (model/cookie-jar.ts) and the  *)
(* content handles of the responses on the way.                            *)
(*                                                                         *)
(* The network answers each hop with whatever it likes.  What the code     *)
(* waits for is a state of its own: the transport, the release of a        *)
(* response it has done with, the reading of the one it keeps.             *)
(***************************************************************************)
EXTENDS Naturals, Sequences, SequencesExt, FiniteSetsExt

CONSTANTS
    Origins,         \* origins a redirect may name
    Starts,          \* those of them executions begin at
    Https,           \* those of them with the https scheme
    Site(_),         \* scheme and registrable domain of an origin
    Malformed,       \* a Location that is no http(s) URL without credentials
    MaxRedirects,    \* settings.maxRedirects
    MaxReleaseFaults \* bound: releases that fail

Methods == {"HEAD", "POST"}
\* What a request carries: a header or query parameter the user marked or the
\* authentication made, the trace headers the application made up, a body.
Parts == {"credential", "trace", "query", "body"}
SameSite == {"strict", "none"}

VARIABLES
    at,        \* sending, waiting, redirecting, reading, kept, failed, refused
    hop,
    current,   \* [url, method, parts] of the request to be sent next
    crossed,   \* [origin, site]: booleans that are never reset
    trace,     \* the transport added trace headers (generatedHeaders)
    jar,       \* cookies kept: set of <<origin, sameSite>>
    answer,    \* [to, get], of the redirect being followed
    live,      \* content handles not released: hops
    lost,      \* handles whose release failed
    aborted,
    sent       \* every request put on the wire: its target, parts and cookies

vars == <<at, hop, current, crossed, trace, jar, answer, live, lost, aborted, sent>>

NoAnswer == [to |-> Malformed, get |-> FALSE]
Ended == at \in {"kept", "failed"}
Initial == sent[1].url

Init ==
    /\ at = "sending" /\ hop = 0
    /\ \E o \in Starts, m \in Methods :
           current = [url |-> o, method |-> m,
                      parts |-> {"credential", "query"}
                                \cup IF m = "POST" THEN {"body"} ELSE {}]
    /\ crossed = [origin |-> FALSE, site |-> FALSE]
    /\ trace = FALSE
    /\ jar = {}
    /\ answer = NoAnswer /\ live = {} /\ lost = {} /\ aborted = FALSE
    /\ sent = <<>>

-----------------------------------------------------------------------------

\* SessionCookieJar.header: cookies of the origin; a request that a chain took
\* to another site gets those with SameSite=None only.
CookiesFor(url, context) ==
    {c \in jar : c[1] = url /\ (context = "none" => c[2] = "none")}

\* The signal is looked at before each hop, and the budget of time is spent by
\* the hops together; a failing transport ends the execution as well.
Fail == at' = "failed" /\ UNCHANGED <<hop, current, crossed, trace, jar, answer, live, lost, aborted, sent>>

Send ==
    /\ at = "sending" /\ ~aborted
    /\ at' = "waiting"
    /\ sent' = Append(sent,
           [url |-> current.url, parts |-> current.parts, method |-> current.method,
            cookies |-> CookiesFor(current.url, IF crossed.site THEN "none" ELSE "strict")])
    /\ UNCHANGED <<hop, current, crossed, trace, jar, answer, live, lost, aborted>>

\* Cancelled, out of time, or no transport.
NotSent == at = "sending" /\ Fail
TransportFails == at = "waiting" /\ Fail

\* An answer that arrives after the signal: its content goes first.
AnsweredTooLate ==
    /\ at = "waiting" /\ aborted
    /\ \E stored \in BOOLEAN :
        /\ live' = IF stored THEN live \cup {hop} ELSE live
        /\ at' = IF stored THEN "refused" ELSE "failed"
    /\ UNCHANGED <<hop, current, crossed, trace, jar, answer, lost, aborted, sent>>

\* Trace headers join the request that later hops repeat; cookies are kept
\* whatever becomes of the answer.
Answered(redirect, stored, traced) ==
    /\ at = "waiting" /\ ~aborted
    /\ traced => ~crossed.origin  \* tracePropagation is off from there on
    /\ trace' = (trace \/ traced)
    /\ current' = IF traced THEN [current EXCEPT !.parts = @ \cup {"trace"}] ELSE current
    /\ live' = IF stored THEN live \cup {hop} ELSE live
    /\ \E kept \in {{}, SameSite} : jar' = jar \cup ({current.url} \X kept)
    /\ at' = IF redirect THEN "redirecting" ELSE IF stored THEN "reading" ELSE "kept"
    /\ UNCHANGED <<hop, crossed, lost, aborted, sent>>

\* 303 asks for a GET unless the request was a HEAD, 301 and 302 do so of a
\* POST, 307 and 308 never.
AsksForGet(status, method) ==
    \/ status = 303 /\ method # "HEAD"
    \/ status \in {301, 302} /\ method = "POST"

AnswerRedirect ==
    \E to \in Origins \cup {Malformed}, status \in {301, 303, 307}, stored, traced \in BOOLEAN :
        /\ Answered(TRUE, stored, traced)
        /\ answer' = [to |-> to, get |-> AsksForGet(status, current.method)]

AnswerFinal ==
    \E stored, traced \in BOOLEAN : Answered(FALSE, stored, traced) /\ UNCHANGED answer

\* A release can fail; the handle is then left to the end of the window.
Released(next) ==
    \/ live' = live \ {hop} /\ at' = next /\ UNCHANGED lost
    \/ /\ hop \in live /\ Cardinality(lost) < MaxReleaseFaults
       /\ lost' = lost \cup {hop} /\ live' = live \ {hop} /\ at' = "failed"

Refuse ==
    /\ at = "refused"
    /\ Released("failed")
    /\ UNCHANGED <<hop, current, crossed, trace, jar, answer, aborted, sent>>

TooMany == hop = MaxRedirects
Downgrade(from, to) == from \in Https /\ to \notin Https

\* Mutant: sites are compared where origins are meant.
KeptOnSite(parts, from, to) ==
    IF Site(to) = Site(from) THEN parts ELSE parts \ {"credential", "trace"}

\* What may go with the request to the next origin.
Kept(parts, from, to) ==
    IF to = from THEN parts ELSE parts \ {"credential", "trace"}

\* Mutant: only this hop is looked at.
QueryKeptAtHome(parts, left) == IF current.url # Initial THEN parts \ {"query"} ELSE parts

\* Once the chain has left its first origin for another, no query parameter
\* that carries a secret is repeated to any target, although the target may
\* have been built from the one before.
QueryKept(parts, left) == IF left THEN parts \ {"query"} ELSE parts

\* The body goes when the method becomes GET.
BodyKept(parts, get) == IF get THEN parts \ {"body"} ELSE parts

\* The redirect is refused only after its content is released.
Follow ==
    /\ at = "redirecting"
    /\ LET left == crossed.origin \/ answer.to # current.url IN
       \/ /\ ~TooMany /\ answer.to # Malformed /\ ~Downgrade(current.url, answer.to)
          /\ Released("sending")
          /\ IF at' = "failed" THEN UNCHANGED <<hop, current, crossed, trace>>
             ELSE
             /\ hop' = hop + 1
             /\ crossed' = [origin |-> left,
                            site |-> crossed.site \/ Site(answer.to) # Site(Initial)]
             /\ trace' = (trace /\ answer.to = current.url)
             \* The new target may repeat the query of the old one.
             /\ \E query \in SUBSET {"query"} :
                current' = [url |-> answer.to,
                            method |-> IF answer.get THEN "GET" ELSE current.method,
                            parts |-> BodyKept(QueryKept(
                                Kept(current.parts \ {"query"}, current.url, answer.to)
                                \cup (query \cap current.parts), left), answer.get)]
       \/ /\ TooMany \/ answer.to = Malformed \/ Downgrade(current.url, answer.to)
          /\ Released("failed")
          /\ UNCHANGED <<hop, current, crossed, trace>>
    /\ answer' = NoAnswer
    /\ UNCHANGED <<jar, aborted, sent>>

\* A large response is returned by its handle, a small one is read into
\* memory and keeps it as its source.
Keep ==
    /\ at = "reading" /\ at' = "kept"
    /\ UNCHANGED <<hop, current, crossed, trace, jar, answer, live, lost, aborted, sent>>

\* Mutant: what cannot be read is left to the end of the window.
ReadFailsKeeping ==
    /\ at = "reading" /\ at' = "failed"
    /\ UNCHANGED <<hop, current, crossed, trace, jar, answer, live, lost, aborted, sent>>

\* Reading fails or is cancelled; that the release fails too is ignored.
ReadFails ==
    /\ at = "reading" /\ at' = "failed"
    /\ live' = live \ {hop}
    /\ \/ UNCHANGED lost
       \/ Cardinality(lost) < MaxReleaseFaults /\ lost' = lost \cup {hop}
    /\ UNCHANGED <<hop, current, crossed, trace, jar, answer, aborted, sent>>

Abort ==
    /\ ~aborted /\ ~Ended /\ aborted' = TRUE
    /\ UNCHANGED <<at, hop, current, crossed, trace, jar, answer, live, lost, sent>>

Progress ==
    \/ Send \/ NotSent \/ TransportFails \/ AnsweredTooLate
    \/ AnswerRedirect \/ AnswerFinal \/ Refuse \/ Follow \/ Keep \/ ReadFails

Next == Progress \/ Abort

Spec == Init /\ [][Next]_vars /\ WF_vars(Progress)

-----------------------------------------------------------------------------

TypeOK ==
    /\ at \in {"sending", "waiting", "redirecting", "reading", "kept", "failed", "refused"}
    /\ hop \in 0..MaxRedirects /\ live \subseteq 0..hop /\ lost \subseteq 0..hop
    /\ current \in [url : Origins, method : Methods \cup {"GET"}, parts : SUBSET Parts]
    /\ crossed \in [origin : BOOLEAN, site : BOOLEAN] /\ trace \in BOOLEAN
    /\ jar \subseteq Origins \X SameSite
    /\ answer \in [to : Origins \cup {Malformed}, get : BOOLEAN]
    /\ Len(sent) \in hop..hop + 1

\* What was sent up to the i-th request went to one place, as `place` names it.
Stayed(place(_), i) == \A k \in 1..i : place(sent[k].url) = place(sent[1].url)

\* "Cross-origin redirects strip explicit Cookie and other sensitive headers
\* before the next hop" (docs/auth.md): a credential, a trace header or a
\* secret query parameter is only sent while the chain has never left its
\* first origin, coming back to it included, and a cookie of this site only
\* while it has never left the site.
CredentialsStayHome ==
    \A i \in DOMAIN sent :
        /\ sent[i].parts \cap {"credential", "trace", "query"} # {} =>
               Stayed(LAMBDA o : o, i)
        /\ (\E c \in sent[i].cookies : c[2] = "strict") => Stayed(Site, i)
        /\ i > 1 /\ sent[i].url \notin Https => sent[i - 1].url \notin Https

\* Neither a failed execution nor a redirect keeps content: only the response
\* that is returned does, and a handle whose release failed.
OnlyTheAnswerIsKept ==
    Ended => live \subseteq IF at = "kept" THEN {hop} ELSE {}

\* What a chain sends and what it leaves behind, together.
NothingLeaks == CredentialsStayHome /\ OnlyTheAnswerIsKept

\* The redirects are bounded and so is the time.
ChainEnds == <>Ended
=============================================================================
