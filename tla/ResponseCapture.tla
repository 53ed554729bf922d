-------------------------- MODULE ResponseCapture --------------------------
(***************************************************************************)
(* How the native side turns one HTTP request into stored response         *)
(* content, and who may still drop that content afterwards.                *)
(*                                                                         *)
(* Four actors meet here.  The webview (application-services.ts and        *)
(* http-client.ts) invokes start_http, may abort, and on success holds a   *)
(* reference it records, releases or forgets.  The operation registry      *)
(* (http/operations.rs) matches a cancellation with its request, in        *)
(* whichever order the two commands arrive.  The capture task              *)
(* (http/transport.rs) reads the body and hands it over in batches, with   *)
(* every wait raced against the cancellation.  The storage worker          *)
(* (content/actor.rs) runs its bounded queue of jobs in order against the  *)
(* content store (content/store.rs), whose rows survive a crash.           *)
(*                                                                         *)
(* A request is one hop with an operation id of its own, and owns at most  *)
(* one content row, so rows are indexed by request.                        *)
(***************************************************************************)
EXTENDS Naturals, Sequences, FiniteSets

CONSTANTS
    Requests,      \* the start_http commands of a run
    Encrypted,     \* those whose response must be stored encrypted
    Batches,       \* bound: write batches a body may fill
    Capacity,      \* jobs a worker's channel holds (8 in the code)
    MaxEntries,    \* MAX_PENDING_CANCELLATIONS
    MaxFaults,     \* bound: storage jobs that fail
    MaxCrashes     \* bound: ends of the process

CaptureAssumption ==
    /\ Encrypted \subseteq Requests
    /\ Batches \in Nat /\ Capacity \in Nat \ {0} /\ MaxEntries \in Nat
    /\ MaxFaults \in Nat /\ MaxCrashes \in Nat

VARIABLES
    client,     \* what the webview does with each request
    aborted,    \* requests whose AbortSignal fired
    cancels,    \* cancel_http commands on their way
    closed,     \* the window was destroyed
    entry,      \* the registry's entry for each operation id
    signal,     \* the value of each operation's watch channel
    pc,         \* where the capture task stands
    handle,     \* the worker each task captured from
    received,   \* full or partial batches read from the network
    enqueued,   \* batches handed to the worker
    awaited,    \* batches whose write was waited for
    wrote,      \* the answer to each batch's write
    outcome,    \* what start_http returned
    queue,      \* the jobs of each worker
    current,    \* the worker ResponseContentState holds
    row,        \* response_contents and its chunks
    unlocked,   \* the root keys can be opened
    faults, crashes,
    network,    \* history: requests that reached the network
    revoked,    \* history: cancelled before start, tombstone not pruned
    body,       \* history: batches of the whole body, once it ended
    leaked      \* history: rows whose release failed in the database

webview == <<client, aborted, cancels, closed>>
registry == <<entry, signal>>
capture == <<pc, handle, received, enqueued, awaited, outcome>>
bounds == <<faults, crashes>>
history == <<network, revoked, body, leaked>>
vars == <<webview, registry, capture, wrote, queue, current, row, unlocked,
          bounds, history>>

Workers == {"public", "keyed"}
NoWorker == "no worker"
NotEnded == Batches + 1
NoRow == [state |-> "absent", batches |-> <<>>, expired |-> FALSE]
Job(kind, r, k) == [kind |-> kind, request |-> r, batch |-> k]

-----------------------------------------------------------------------------
(* The operation registry.                                                 *)

\* Mutant: tombstones are pruned whatever their age.
PrunedAtOnce ==
    [r \in Requests |->
        IF entry[r] \in {"tombstone", "aged"} THEN "none" ELSE entry[r]]

\* prune_tombstones: a cancellation that found no request is kept for 60 s.
Pruned == [r \in Requests |-> IF entry[r] = "aged" THEN "none" ELSE entry[r]]
Forgotten == {r \in Requests : entry[r] = "aged"}

Crowded(entries) ==
    Cardinality({r \in Requests : entries[r] # "none"}) >= MaxEntries

\* HttpOperationState::cancel.  A known operation is told, an unknown one
\* gets a tombstone, unless there are too many entries.
Cancel(r) ==
    /\ r \in cancels
    /\ cancels' = cancels \ {r}
    /\ \/ /\ Pruned[r] = "none" /\ Crowded(Pruned)
          /\ entry' = Pruned
          /\ revoked' = revoked \ Forgotten
          /\ UNCHANGED signal
       \/ /\ Pruned[r] # "none" \/ ~Crowded(Pruned)
          /\ entry' = [Pruned EXCEPT ![r] =
                          IF @ = "none" THEN "tombstone" ELSE @]
          /\ signal' = [signal EXCEPT ![r] = TRUE]
          /\ revoked' = (revoked \ Forgotten)
                \cup (IF pc[r] = "invoked" THEN {r} ELSE {})
    /\ UNCHANGED <<client, aborted, closed, capture, wrote, queue, current,
                   row, unlocked, bounds, network, body, leaked>>

\* HttpOperationState::register under while_open: a tombstone becomes the
\* entry and its receiver reads TRUE; a closed window is refused.
Register(r) ==
    /\ pc[r] = "invoked"
    /\ \/ /\ ~closed
          /\ Pruned[r] \in {"none", "tombstone"}
          /\ entry' = [Pruned EXCEPT ![r] = "active"]
          /\ signal' = [signal EXCEPT ![r] = Pruned[r] = "tombstone"]
          /\ revoked' = revoked \ Forgotten
          /\ pc' = [pc EXCEPT ![r] = "registered"]
          /\ UNCHANGED outcome
       \/ /\ closed
          /\ pc' = [pc EXCEPT ![r] = "returned"]
          /\ outcome' = [outcome EXCEPT ![r] = "error"]
          /\ UNCHANGED <<registry, revoked>>
    /\ UNCHANGED <<webview, handle, received, enqueued, awaited, wrote, queue,
                   current, row, unlocked, bounds, network, body, leaked>>

\* 60 seconds pass over a tombstone.
TombstoneAges(r) ==
    /\ entry[r] = "tombstone"
    /\ entry' = [entry EXCEPT ![r] = "aged"]
    /\ UNCHANGED <<webview, signal, capture, wrote, queue, current, row,
                   unlocked, bounds, history>>

-----------------------------------------------------------------------------
(* The capture task.                                                       *)

\* cleanup_expired, on every create_staging and every open of a store.
Cleaned(rows) ==
    [r \in Requests |->
        IF rows[r].state # "adopted" /\ rows[r].expired THEN NoRow ELSE rows[r]]

\* ResponseContentState::handle: a public worker is replaced once keys are
\* there; requests that took the old one keep it.
Wanted == IF unlocked \/ current = "keyed" THEN "keyed" ELSE "public"

\* start_http after registration: take the worker, then perform_http's check
\* of the cancellation before anything else.
Begin(r) ==
    /\ pc[r] = "registered"
    /\ \/ /\ current' = Wanted
          /\ handle' = [handle EXCEPT ![r] = Wanted]
          /\ row' = IF current = Wanted THEN row ELSE Cleaned(row)
          /\ \/ /\ signal[r]
                /\ pc' = [pc EXCEPT ![r] = "failed"]
                /\ UNCHANGED network
             \/ /\ ~signal[r] /\ r \in Encrypted
                /\ pc' = [pc EXCEPT ![r] = "ensure"]
                /\ UNCHANGED network
             \/ /\ ~signal[r] /\ r \notin Encrypted
                /\ pc' = [pc EXCEPT ![r] = "sending"]
                /\ network' = network \cup {r}
          /\ UNCHANGED faults
       \/ /\ current # Wanted /\ faults < MaxFaults
          /\ faults' = faults + 1
          /\ pc' = [pc EXCEPT ![r] = "failed"]
          /\ UNCHANGED <<current, handle, row, network>>
    /\ UNCHANGED <<webview, registry, received, enqueued, awaited, outcome,
                   wrote, queue, unlocked, crashes, revoked, body, leaked>>

\* A job enters the channel only while it has room; a sender waits otherwise.
Enqueue(w, job) ==
    /\ Len(queue[w]) < Capacity
    /\ queue' = [queue EXCEPT ![w] = Append(@, job)]

\* The calls that wait for their answer: ensure_workspace, create_staging,
\* finish and release.
Waiting(kind) == CASE kind = "ensure" -> "ensuring"
                   [] kind = "create" -> "creating"
                   [] kind = "finish" -> "finishing"
                   [] kind = "release" -> "releasing"

Call(r) ==
    /\ pc[r] \in {"ensure", "create", "finish", "release"}
    /\ Enqueue(handle[r], Job(pc[r], r, 0))
    /\ pc' = [pc EXCEPT ![r] = Waiting(@)]
    /\ UNCHANGED <<webview, registry, handle, received, enqueued, awaited,
                   outcome, wrote, current, row, unlocked, bounds, history>>

\* send() resolves: headers arrive, or the request fails or times out.
Headers(r) ==
    /\ pc[r] = "sending"
    /\ \E next \in {"create", "failed"} : pc' = [pc EXCEPT ![r] = next]
    /\ UNCHANGED <<webview, registry, handle, received, enqueued, awaited,
                   outcome, wrote, queue, current, row, unlocked, bounds,
                   history>>

\* chunk() fills a write batch.
FullBatch(r) ==
    /\ pc[r] = "reading" /\ received[r] < Batches
    /\ received' = [received EXCEPT ![r] = @ + 1]
    /\ pc' = [pc EXCEPT ![r] = "enqueue"]
    /\ UNCHANGED <<webview, registry, handle, enqueued, awaited, outcome,
                   wrote, queue, current, row, unlocked, bounds, history>>

\* chunk() ends the body, with or without a batch left over.
BodyEnds(r) ==
    /\ pc[r] = "reading"
    /\ \/ /\ pc' = [pc EXCEPT ![r] = "drain"]
          /\ UNCHANGED received
       \/ /\ received[r] < Batches
          /\ received' = [received EXCEPT ![r] = @ + 1]
          /\ pc' = [pc EXCEPT ![r] = "flush"]
    /\ body' = [body EXCEPT ![r] = received'[r]]
    /\ UNCHANGED <<webview, registry, handle, enqueued, awaited, outcome,
                   wrote, queue, current, row, unlocked, bounds, network,
                   revoked, leaked>>

\* chunk() fails or times out, or the 128 MiB limit is passed.
BodyFails(r) ==
    /\ pc[r] = "reading"
    /\ pc' = [pc EXCEPT ![r] = "release"]
    /\ UNCHANGED <<webview, registry, handle, received, enqueued, awaited,
                   outcome, wrote, queue, current, row, unlocked, bounds,
                   history>>

\* After two batches in flight the task waits for the older one.
AfterEnqueue(r) ==
    IF pc[r] = "flush" THEN "drain"
    ELSE IF enqueued[r] + 1 - awaited[r] >= 2 THEN "await" ELSE "reading"

EnqueueBatch(r) ==
    /\ pc[r] \in {"enqueue", "flush"}
    /\ Enqueue(handle[r], Job("append", r, enqueued[r] + 1))
    /\ enqueued' = [enqueued EXCEPT ![r] = @ + 1]
    /\ pc' = [pc EXCEPT ![r] = AfterEnqueue(r)]
    /\ UNCHANGED <<webview, registry, handle, received, awaited, outcome,
                   wrote, current, row, unlocked, bounds, history>>

\* Mutant: the answer of a write is awaited and not looked at.
AwaitAnyAnswer(r) ==
    /\ pc[r] \in {"await", "drain"} /\ awaited[r] < enqueued[r]
    /\ wrote[r][awaited[r] + 1] # "none"
    /\ awaited' = [awaited EXCEPT ![r] = @ + 1]
    /\ pc' = [pc EXCEPT ![r] = IF @ = "await" THEN "reading" ELSE @]
    /\ UNCHANGED <<webview, registry, handle, received, enqueued, outcome,
                   wrote, queue, current, row, unlocked, bounds, history>>

\* await_write on the oldest pending write, during the body and after it.
AwaitWrite(r) ==
    /\ pc[r] \in {"await", "drain"} /\ awaited[r] < enqueued[r]
    /\ LET answer == wrote[r][awaited[r] + 1]
       IN /\ answer # "none"
          /\ awaited' = [awaited EXCEPT ![r] = @ + 1]
          /\ pc' = [pc EXCEPT ![r] =
                IF answer = "error" THEN "release"
                ELSE IF @ = "await" THEN "reading" ELSE @]
    /\ UNCHANGED <<webview, registry, handle, received, enqueued, outcome,
                   wrote, queue, current, row, unlocked, bounds, history>>

\* Every write is durable: finish() makes the content readable.
Drained(r) ==
    /\ pc[r] = "drain" /\ awaited[r] = enqueued[r]
    /\ pc' = [pc EXCEPT ![r] = "finish"]
    /\ UNCHANGED <<webview, registry, handle, received, enqueued, awaited,
                   outcome, wrote, queue, current, row, unlocked, bounds,
                   history>>

\* Mutant: a cancelled finish() is taken for having nothing to release.
CancelledAtFinish(r) ==
    /\ signal[r]
    /\ \/ /\ pc[r] \in {"sending", "finishing"}
          /\ pc' = [pc EXCEPT ![r] = "failed"]
       \/ /\ pc[r] \in {"reading", "enqueue", "flush", "await", "drain",
                        "finish"}
          /\ pc' = [pc EXCEPT ![r] = "release"]
    /\ UNCHANGED <<webview, registry, handle, received, enqueued, awaited,
                   outcome, wrote, queue, current, row, unlocked, bounds,
                   history>>

\* The cancelled() branch of a select!.  Before the content row exists the
\* task just fails; afterwards it releases what it captured.
Cancelled(r) ==
    /\ signal[r]
    /\ \/ /\ pc[r] = "sending"
          /\ pc' = [pc EXCEPT ![r] = "failed"]
       \/ /\ pc[r] \in {"reading", "enqueue", "flush", "await", "drain",
                        "finish", "finishing"}
          /\ pc' = [pc EXCEPT ![r] = "release"]
    /\ UNCHANGED <<webview, registry, handle, received, enqueued, awaited,
                   outcome, wrote, queue, current, row, unlocked, bounds,
                   history>>

\* start_http returns, and its operation is finished.
Return(r) ==
    /\ pc[r] \in {"succeeded", "failed"}
    /\ outcome' = [outcome EXCEPT ![r] =
            IF pc[r] = "succeeded" THEN "ok" ELSE "error"]
    /\ pc' = [pc EXCEPT ![r] = "returned"]
    /\ entry' = [entry EXCEPT ![r] = "none"]
    /\ UNCHANGED <<webview, signal, handle, received, enqueued, awaited,
                   wrote, queue, current, row, unlocked, bounds, history>>

-----------------------------------------------------------------------------
(* The storage worker: one job at a time, in the order they were queued.   *)

\* An answer moves the task on, unless a cancellation made it stop waiting.
Answer(r, kind, ok) ==
    pc' = [pc EXCEPT ![r] =
        IF @ # Waiting(kind) THEN @
        ELSE CASE kind = "ensure"  -> (IF ok THEN "sending" ELSE "failed")
               [] kind = "create"  -> (IF ok THEN "reading" ELSE "failed")
               [] kind = "finish"  -> (IF ok THEN "succeeded" ELSE "release")
               [] kind = "release" -> "failed"]

CanProtect(w, r) == r \in Encrypted => w = "keyed"

\* What each job does to the store when the database does not fail.
Applied(w, job, rows) ==
    LET r == job.request
    IN CASE job.kind = "ensure" -> rows
         [] job.kind = "create" ->
              IF CanProtect(w, r)
              THEN [Cleaned(rows) EXCEPT ![r] = [NoRow EXCEPT !.state = "staging"]]
              ELSE rows
         [] job.kind = "append" ->
              IF rows[r].state = "staging" /\ CanProtect(w, r)
              THEN [rows EXCEPT ![r].batches = Append(@, job.batch)]
              ELSE rows
         [] job.kind = "finish" ->
              IF rows[r].state = "staging"
              THEN [rows EXCEPT ![r].state = "ready"]
              ELSE rows
         [] job.kind \in {"release", "drop"} ->
              IF rows[r].state # "adopted"
              THEN [rows EXCEPT ![r] = NoRow]
              ELSE rows

Succeeds(w, job, rows) ==
    LET r == job.request
    IN CASE job.kind \in {"ensure", "create"} -> CanProtect(w, r)
         [] job.kind = "append" -> rows[r].state = "staging" /\ CanProtect(w, r)
         [] job.kind = "finish" -> rows[r].state = "staging"
         [] job.kind \in {"release", "drop"} -> TRUE

Work(w) ==
    /\ queue[w] # <<>>
    /\ queue' = [queue EXCEPT ![w] = Tail(@)]
    /\ LET job == Head(queue[w])
           r == job.request
       IN \E fault \in BOOLEAN :
          LET ok == ~fault /\ Succeeds(w, job, row)
          IN /\ fault => job.kind # "ensure" /\ faults < MaxFaults
             /\ faults' = IF fault THEN faults + 1 ELSE faults
             /\ row' = IF fault THEN row ELSE Applied(w, job, row)
             /\ leaked' = IF fault /\ job.kind = "release"
                          THEN leaked \cup {r} ELSE leaked
             /\ network' = IF job.kind = "ensure" /\ ok /\ pc[r] = "ensuring"
                           THEN network \cup {r} ELSE network
             /\ \/ /\ job.kind = "append"
                   /\ wrote' = [wrote EXCEPT ![r][job.batch] =
                                    IF ok THEN "ok" ELSE "error"]
                   /\ UNCHANGED pc
                \/ /\ job.kind = "drop"
                   /\ UNCHANGED <<wrote, pc>>
                \/ /\ job.kind \notin {"append", "drop"}
                   /\ Answer(r, job.kind, ok)
                   /\ UNCHANGED wrote
    /\ UNCHANGED <<webview, registry, handle, received, enqueued, awaited,
                   outcome, current, unlocked, crashes, revoked, body>>

-----------------------------------------------------------------------------
(* The webview.                                                            *)

\* startHttp: a fresh operation id, the abort listener, then invoke.
Send(r) ==
    /\ client[r] = "idle" /\ ~closed
    /\ client' = [client EXCEPT ![r] = "waiting"]
    /\ pc' = [pc EXCEPT ![r] = "invoked"]
    /\ UNCHANGED <<aborted, cancels, closed, registry, handle, received,
                   enqueued, awaited, outcome, wrote, queue, current, row,
                   unlocked, bounds, history>>

\* The signal fires while startHttp listens: cancel_http is sent, unordered
\* with start_http.  Once a reference is held the signal is only looked at.
Abort(r) ==
    /\ client[r] \in {"waiting", "holding"} /\ r \notin aborted
    /\ aborted' = aborted \cup {r}
    /\ cancels' = IF client[r] = "waiting" THEN cancels \cup {r} ELSE cancels
    /\ UNCHANGED <<client, closed, registry, capture, wrote, queue, current,
                   row, unlocked, bounds, history>>

\* content.release of a reference the webview holds, through whichever
\* worker ResponseContentState gives now.
Drop(r) ==
    /\ Enqueue(Wanted, Job("drop", r, 0))
    /\ current' = Wanted
    /\ row' = IF current = Wanted THEN row ELSE Cleaned(row)
    /\ client' = [client EXCEPT ![r] = "done"]

\* The invoke resolves.  executeHttp releases the content of an aborted hop.
Receive(r) ==
    /\ client[r] = "waiting" /\ pc[r] = "returned"
    /\ \/ /\ outcome[r] = "error"
          /\ client' = [client EXCEPT ![r] = "done"]
          /\ UNCHANGED <<queue, current, row>>
       \/ /\ outcome[r] = "ok" /\ r \in aborted
          /\ Drop(r)
       \/ /\ outcome[r] = "ok" /\ r \notin aborted
          /\ client' = [client EXCEPT ![r] = "holding"]
          /\ UNCHANGED <<queue, current, row>>
    /\ UNCHANGED <<aborted, cancels, closed, registry, capture, wrote,
                   unlocked, bounds, history>>

\* A redirect hop, a failed materialization or an extraction lets go.
LetGo(r) ==
    /\ client[r] = "holding"
    /\ Drop(r)
    /\ UNCHANGED <<aborted, cancels, closed, registry, capture, wrote,
                   unlocked, bounds, history>>

\* The workbench ignores a completion that is no longer its execution.
Forget(r) ==
    /\ client[r] = "holding"
    /\ client' = [client EXCEPT ![r] = "done"]
    /\ UNCHANGED <<aborted, cancels, closed, registry, capture, wrote, queue,
                   current, row, unlocked, bounds, history>>

\* Mutant: adoption stops the clock and leaves the content merely ready.
OnlyKept(content) == [content EXCEPT !.expired = FALSE]

\* adopt_content, inside the transaction that publishes the execution.
Adopted(content) == [content EXCEPT !.state = "adopted", !.expired = FALSE]

Record(r) ==
    /\ client[r] = "holding"
    /\ \/ /\ row[r].state = "ready"
          /\ row' = [row EXCEPT ![r] = Adopted(@)]
          /\ client' = [client EXCEPT ![r] = "recorded"]
       \/ /\ row[r].state # "ready"
          /\ client' = [client EXCEPT ![r] = "done"]
          /\ UNCHANGED row
    /\ UNCHANGED <<aborted, cancels, closed, registry, capture, wrote, queue,
                   current, unlocked, bounds, history>>

\* delete_execution_content, with the execution that owns it.
DeleteExecution(r) ==
    /\ client[r] = "recorded"
    /\ row' = [row EXCEPT ![r] = NoRow]
    /\ client' = [client EXCEPT ![r] = "deleted"]
    /\ UNCHANGED <<aborted, cancels, closed, registry, capture, wrote, queue,
                   current, unlocked, bounds, history>>

-----------------------------------------------------------------------------
(* The surroundings.                                                       *)

\* The staging time to live passes over a row that nobody adopted.
RowExpires(r) ==
    /\ row[r].state \in {"staging", "ready"} /\ ~row[r].expired
    /\ row' = [row EXCEPT ![r].expired = TRUE]
    /\ UNCHANGED <<webview, registry, capture, wrote, queue, current, unlocked,
                   bounds, history>>

\* Retry / Unlock makes the root keys available.
Unlock ==
    /\ ~unlocked
    /\ unlocked' = TRUE
    /\ UNCHANGED <<webview, registry, capture, wrote, queue, current, row,
                   bounds, history>>

Surviving(r) == client[r] \in {"idle", "recorded", "deleted"}

\* WindowEvent::Destroyed: cancel_all tells every operation and clears the
\* registry; the webview and its commands are gone.
CloseWindow ==
    /\ ~closed
    /\ closed' = TRUE
    /\ cancels' = {}
    /\ client' = [r \in Requests |-> IF Surviving(r) THEN client[r] ELSE "done"]
    /\ entry' = [r \in Requests |-> "none"]
    /\ signal' = [r \in Requests |-> signal[r] \/ entry[r] # "none"]
    /\ revoked' = {}
    /\ UNCHANGED <<aborted, capture, wrote, queue, current, row, unlocked,
                   bounds, network, body, leaked>>

\* The process ends and is started again: only the rows remain.
Crash ==
    /\ crashes < MaxCrashes
    /\ crashes' = crashes + 1
    /\ client' = [r \in Requests |-> IF Surviving(r) THEN client[r] ELSE "done"]
    /\ cancels' = {} /\ closed' = FALSE
    /\ entry' = [r \in Requests |-> "none"]
    /\ pc' = [r \in Requests |->
            IF pc[r] \in {"idle", "returned"} THEN pc[r] ELSE "lost"]
    /\ queue' = [w \in Workers |-> <<>>]
    /\ current' = NoWorker
    /\ unlocked' \in BOOLEAN
    /\ revoked' = {}
    /\ UNCHANGED <<aborted, signal, handle, received, enqueued, awaited,
                   outcome, wrote, row, faults, network, body, leaked>>

Init ==
    /\ client = [r \in Requests |-> "idle"]
    /\ aborted = {} /\ cancels = {} /\ closed = FALSE
    /\ entry = [r \in Requests |-> "none"]
    /\ signal = [r \in Requests |-> FALSE]
    /\ pc = [r \in Requests |-> "idle"]
    /\ handle = [r \in Requests |-> NoWorker]
    /\ received = [r \in Requests |-> 0]
    /\ enqueued = [r \in Requests |-> 0]
    /\ awaited = [r \in Requests |-> 0]
    /\ wrote = [r \in Requests |-> [k \in 1..Batches |-> "none"]]
    /\ outcome = [r \in Requests |-> "none"]
    /\ queue = [w \in Workers |-> <<>>]
    /\ current = NoWorker
    /\ row = [r \in Requests |-> NoRow]
    /\ unlocked \in BOOLEAN
    /\ faults = 0 /\ crashes = 0
    /\ network = {} /\ revoked = {} /\ leaked = {}
    /\ body = [r \in Requests |-> NotEnded]

Task(r) ==
    \/ Register(r) \/ Begin(r) \/ Call(r) \/ Headers(r) \/ FullBatch(r)
    \/ BodyEnds(r) \/ BodyFails(r) \/ EnqueueBatch(r) \/ AwaitWrite(r)
    \/ Drained(r) \/ Cancelled(r) \/ Return(r)

Next ==
    \/ \E r \in Requests :
          \/ Cancel(r) \/ TombstoneAges(r) \/ Task(r)
          \/ Send(r) \/ Abort(r) \/ Receive(r) \/ LetGo(r) \/ Forget(r)
          \/ Record(r) \/ DeleteExecution(r) \/ RowExpires(r)
    \/ \E w \in Workers : Work(w)
    \/ Unlock \/ CloseWindow \/ Crash

Spec == Init /\ [][Next]_vars

\* Tokio polls every ready task and channel senders wait in line, the worker
\* thread takes every job, the request timeout ends a silent server, and the
\* webview handles what an invoke answered.
Fairness ==
    /\ \A r \in Requests : SF_vars(Task(r)) /\ SF_vars(Receive(r))
    /\ \A w \in Workers : WF_vars(Work(w))

FairSpec == Spec /\ Fairness

-----------------------------------------------------------------------------
(* What capturing, cancelling, releasing and adopting must guarantee.      *)

Jobs == [kind : {"ensure", "create", "append", "finish", "release", "drop"},
         request : Requests, batch : 0..Batches]

Content == [state : {"absent", "staging", "ready", "adopted"},
            batches : Seq(1..Batches), expired : BOOLEAN]

\* Where a capture task stands.
Stages == {"idle", "invoked", "registered", "ensure", "ensuring", "sending", "create",
           "creating", "reading", "enqueue", "flush", "await", "drain", "finish",
           "finishing", "release", "releasing", "succeeded", "failed", "returned",
           "lost"}

\* Type invariant of ResponseCapture.
TypeOK ==
    /\ client \in [Requests -> {"idle", "waiting", "holding", "recorded",
                                "deleted", "done"}]
    /\ aborted \subseteq Requests /\ cancels \subseteq Requests
    /\ closed \in BOOLEAN
    /\ entry \in [Requests -> {"none", "tombstone", "aged", "active"}]
    /\ signal \in [Requests -> BOOLEAN]
    /\ pc \in [Requests -> Stages]
    /\ handle \in [Requests -> Workers \cup {NoWorker}]
    /\ received \in [Requests -> 0..Batches]
    /\ enqueued \in [Requests -> 0..Batches]
    /\ awaited \in [Requests -> 0..Batches]
    /\ wrote \in [Requests -> [1..Batches -> {"none", "ok", "error"}]]
    /\ outcome \in [Requests -> {"none", "ok", "error"}]
    /\ queue \in [Workers -> Seq(Jobs)]
    /\ \A w \in Workers : Len(queue[w]) <= Capacity
    /\ current \in Workers \cup {NoWorker}
    /\ row \in [Requests -> Content]
    /\ unlocked \in BOOLEAN
    /\ faults \in 0..MaxFaults /\ crashes \in 0..MaxCrashes
    /\ network \subseteq Requests /\ revoked \subseteq Requests
    /\ leaked \subseteq Requests
    /\ body \in [Requests -> 0..NotEnded]

-----------------------------------------------------------------------------

\* Content that can be read is the whole body: the network had ended it, and
\* every batch is stored, once and in order.  Writes are answered one behind
\* the other, a write may fail while later ones are already queued, and a
\* cancellation may leave a finish behind in the queue.
ReadableIsWhole ==
    \A r \in Requests : row[r].state \in {"ready", "adopted"} =>
        row[r].batches = [k \in 1..body[r] |-> k]

\* "Cancellation or capture failure releases staging content before
\* returning" (docs/response-lifecycle.md): once start_http has answered with
\* an error nothing of the response is stored, except where the database
\* itself refused the release.
FailedLeavesNothing ==
    \A r \in Requests :
        outcome[r] = "error" => row[r].state = "absent" \/ r \in leaked

\* So what start_http has reported, success or failure, is what is stored.
StoredAsReported == ReadableIsWhole /\ FailedLeavesNothing

\* A recorded execution keeps its whole response, readable, whatever expires
\* and whoever cleans up, until the execution is deleted.
RecordedStaysReadable ==
    \A r \in Requests : client[r] = "recorded" =>
        /\ row[r].state \in {"ready", "adopted"}
        /\ row[r].batches = [k \in 1..body[r] |-> k]

\* A cancellation that is handled before the start command keeps the request
\* off the network ("cancel/start command ordering cannot start network work
\* after the user cancelled", http/operations.rs), as long as its tombstone
\* has not outlived its 60 seconds; and a response that must be stored
\* encrypted is only requested once a worker with the keys holds its
\* workspace, and is never written by another one.
OnlyAdmittedSends ==
    /\ revoked \cap network = {}
    /\ \A r \in Encrypted :
        r \in network \/ row[r].state # "absent" => handle[r] = "keyed"

\* What holds of several responses that share registry, workers and cleanup.
ResponsesAreGuarded == RecordedStaysReadable /\ OnlyAdmittedSends

\* Every request the webview waits for is answered, cancelled or not: nobody
\* waits for a batch, a full channel or a release that never comes.
EveryRequestEnds ==
    \A r \in Requests : client[r] = "waiting" ~> client[r] # "waiting"
=============================================================================
