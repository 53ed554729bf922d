--------------------------- MODULE ResponseProofs ---------------------------
(***************************************************************************)
(* The theorems of ResponseCapture, for any number of requests, batches,   *)
(* queued jobs, failing jobs and ends of the process: the types, that what *)
(* start_http reported is what is stored, that a recorded response stays   *)
(* readable, and that only admitted requests reach the network.            *)
(***************************************************************************)
EXTENDS ResponseCapture, TLAPS

\* The batches of a body of n batches.
Exact(n) == [k \in 1..n |-> k]

\* A task that has stored nothing yet, or never will again.
Unstarted == {"idle", "invoked", "registered"}
Early == Unstarted \cup {"ensure", "ensuring", "sending", "create", "creating"}
Late == {"finishing", "release", "releasing", "succeeded", "failed", "returned",
         "lost"}
Reading == {"reading", "enqueue", "flush", "await", "drain"}
Working == {"ensure", "ensuring", "sending", "create", "creating", "finish",
            "finishing", "release", "releasing"} \cup Reading

\* Every batch of the body was written, and every write succeeded.
Complete(r) ==
    /\ body[r] = enqueued[r]
    /\ \A k \in 1..enqueued[r] : wrote[r][k] = "ok"

\* What the webview knows of a request.
ClientOK(r) ==
    /\ client[r] = "idle" => pc[r] = "idle"
    /\ client[r] \in {"holding", "recorded", "deleted"} => outcome[r] = "ok"
    /\ outcome[r] # "none" => pc[r] = "returned"

\* How many batches were read, handed over and waited for at each of the
\* task's stages, and which of them are known to be written.
TaskOK(r) ==
    /\ pc[r] \in Working => handle[r] \in Workers
    /\ pc[r] \in Early => enqueued[r] = 0
    /\ pc[r] \in Early \cup {"reading", "await"} =>
          received[r] = enqueued[r] /\ body[r] = NotEnded
    /\ pc[r] = "enqueue" => received[r] = enqueued[r] + 1 /\ body[r] = NotEnded
    /\ pc[r] = "flush" => received[r] = enqueued[r] + 1 /\ body[r] = received[r]
    /\ pc[r] = "drain" => received[r] = enqueued[r] /\ body[r] = received[r]
    /\ awaited[r] <= enqueued[r]
    /\ \A k \in 1..Batches : wrote[r][k] # "none" => k <= enqueued[r]
    /\ pc[r] \in Reading => \A k \in 1..awaited[r] : wrote[r][k] = "ok"
    /\ pc[r] \in {"finish", "finishing"} => Complete(r)

\* The content of a request at each of the task's stages.
RowOK(r) ==
    LET content == row[r] IN
    /\ pc[r] \in Early => content.state = "absent"
    /\ content.state \in {"ready", "adopted"} =>
          pc[r] \in Late /\ content.batches = Exact(body[r])
    /\ content.state = "staging" /\ (\A k \in 1..Batches : wrote[r][k] # "error") =>
          /\ content.batches = Exact(Len(content.batches))
          /\ \A k \in 1..Batches : wrote[r][k] = "ok" <=> k <= Len(content.batches)
    /\ content.state = "adopted" <=> client[r] = "recorded"
    /\ pc[r] = "failed" \/ outcome[r] = "error" =>
          content.state = "absent" \/ r \in leaked
    /\ r \in Encrypted /\ (content.state # "absent" \/ r \in network) =>
          handle[r] = "keyed"
    /\ r \in network => pc[r] \notin Unstarted

\* A job in a queue was sent by the task it is for, to the task's worker, and
\* not answered; the batches before it are written or wait before it.
JobOK(w, i) ==
    LET job == queue[w][i]
        r == job.request
    IN  /\ job.kind # "drop" => w = handle[r] /\ pc[r] \notin Unstarted
        /\ job.kind = "create" => pc[r] = "creating" /\ job.batch = 0
        /\ job.kind = "append" =>
              /\ job.batch \in 1..enqueued[r]
              /\ wrote[r][job.batch] = "none"
              /\ \A k \in 1..Batches : k < job.batch =>
                    \/ wrote[r][k] # "none"
                    \/ \E j \in 1..Len(queue[w]) :
                          j < i /\ queue[w][j] = Job("append", r, k)
        /\ job.kind = "finish" => pc[r] \in Late /\ Complete(r)
        /\ job.kind \in {"create", "append"} =>
              \A j \in 1..Len(queue[w]) : j # i => queue[w][j] # job

\* While the task is at its body, each batch it sent was answered or waits.
SentOK(r) ==
    pc[r] \in Reading => \A k \in 1..Batches : k <= enqueued[r] =>
        \/ wrote[r][k] # "none"
        \/ \E j \in 1..Len(queue[handle[r]]) :
              queue[handle[r]][j] = Job("append", r, k)

\* A cancellation handled before the start command, while it is remembered,
\* will be found by it.
RegistryOK(r) ==
    /\ entry[r] = "active" => pc[r] \notin {"idle", "invoked"}
    /\ r \in revoked =>
          /\ r \notin network
          /\ \/ pc[r] = "invoked" /\ entry[r] \in {"tombstone", "aged"}
             \/ pc[r] = "registered" /\ signal[r]
             \/ pc[r] \in {"failed", "returned"}

ClientsOK == \A r \in Requests : ClientOK(r)
TasksOK == \A r \in Requests : TaskOK(r)
RowsOK == \A r \in Requests : RowOK(r)
JobsOK ==
    /\ \A w \in Workers : \A i \in 1..Len(queue[w]) : JobOK(w, i)
    /\ \A r \in Requests : SentOK(r)
AdmittedOK == \A r \in Requests : RegistryOK(r)

IInv == TypeOK /\ ClientsOK /\ TasksOK /\ RowsOK /\ JobsOK /\ AdmittedOK

-----------------------------------------------------------------------------
(* The types.                                                              *)

\* Steps that move one task, the registry or the webview.
LEMMA TaskTypes ==
  ASSUME CaptureAssumption, IInv, NEW r \in Requests,
         \/ Cancel(r) \/ TombstoneAges(r) \/ Register(r) \/ Begin(r) \/ Headers(r)
         \/ FullBatch(r) \/ BodyEnds(r) \/ BodyFails(r) \/ AwaitWrite(r) \/ Drained(r)
         \/ Cancelled(r) \/ Return(r) \/ Send(r) \/ Abort(r) \/ Forget(r) \/ Record(r)
         \/ DeleteExecution(r) \/ RowExpires(r)
  PROVE  TypeOK'
<1> USE DEF CaptureAssumption, webview, registry, capture, bounds, history
<1>0. TypeOK /\ TaskOK(r)
  BY DEF IInv, TasksOK
<1>1. NoRow \in Content
  BY DEF NoRow, Content
<1>2. Cleaned(row) \in [Requests -> Content]
  BY <1>0, <1>1 DEF Cleaned, TypeOK
<1>3. Pruned \in [Requests -> {"none", "tombstone", "aged", "active"}]
  BY <1>0 DEF Pruned, TypeOK
<1>22. row[r] \in Content
  BY <1>0 DEF TypeOK
<1>4. CASE Cancel(r)
  <2>1. /\ entry' \in [Requests -> {"none", "tombstone", "aged", "active"}]
        /\ signal' \in [Requests -> BOOLEAN]
        /\ revoked' \subseteq Requests /\ cancels' \subseteq Requests
    <3>1. signal' \in [Requests -> BOOLEAN]
      BY <1>0, <1>4 DEF TypeOK, Cancel
    <3>2. revoked' \subseteq Requests /\ cancels' \subseteq Requests
      BY <1>0, <1>4 DEF TypeOK, Cancel
    <3>3. entry' \in [Requests -> {"none", "tombstone", "aged", "active"}]
      <4>1. CASE entry' = Pruned
        BY <1>3, <4>1
      <4>2. CASE entry' = [Pruned EXCEPT ![r] = IF @ = "none" THEN "tombstone" ELSE @]
        BY <1>3, <4>2
      <4> QED
        BY <1>4, <4>1, <4>2 DEF Cancel
    <3> QED
      BY <3>1, <3>2, <3>3
  <2> QED
    BY <1>0, <1>4, <2>1 DEF TypeOK, Cancel
<1>5. CASE TombstoneAges(r)
  BY <1>0, <1>5 DEF TypeOK, TombstoneAges
<1>6. CASE Register(r)
  <2>1. /\ pc' \in [Requests -> Stages] /\ signal' \in [Requests -> BOOLEAN]
        /\ outcome' \in [Requests -> {"none", "ok", "error"}]
    <3>1. \E next \in {"registered", "returned"} : pc' = [pc EXCEPT ![r] = next]
      BY <1>6 DEF Register
    <3>2. signal' = signal \/ signal' = [signal EXCEPT ![r] = Pruned[r] = "tombstone"]
      BY <1>6 DEF Register
    <3>3. outcome' \in {outcome, [outcome EXCEPT ![r] = "error"]}
      BY <1>6 DEF Register
    <3>4. pc' \in [Requests -> Stages]
      BY <1>0, <3>1 DEF TypeOK, Stages
    <3>6. outcome' \in [Requests -> {"none", "ok", "error"}]
      BY <1>0, <3>3 DEF TypeOK
    <3>5. signal' \in [Requests -> BOOLEAN]
      <4> DEFINE b == Pruned[r] = "tombstone"
      <4>1. b \in BOOLEAN /\ signal \in [Requests -> BOOLEAN]
        BY <1>0 DEF TypeOK
      <4>2. signal' = signal \/ signal' = [signal EXCEPT ![r] = b]
        BY <3>2
      <4> HIDE DEF b
      <4> QED
        BY <4>1, <4>2
    <3> QED
      BY <3>4, <3>5, <3>6
  <2>2. /\ entry' \in [Requests -> {"none", "tombstone", "aged", "active"}]
        /\ revoked' \subseteq Requests
    BY <1>0, <1>3, <1>6 DEF TypeOK, Register
  <2> QED
    BY <1>0, <1>6, <2>1, <2>2 DEF TypeOK, Register
<1>7. CASE Begin(r)
  <2>1. pc' \in [Requests -> Stages]
    <3>1. \E next \in {"failed", "ensure", "sending"} : pc' = [pc EXCEPT ![r] = next]
      BY <1>7 DEF Begin
    <3> QED
      BY <1>0, <3>1 DEF TypeOK, Stages
  <2>2. Wanted \in Workers
    BY DEF Wanted, Workers
  <2>3. /\ row' \in [Requests -> Content] /\ current' \in Workers \cup {NoWorker}
        /\ handle' \in [Requests -> Workers \cup {NoWorker}]
        /\ network' \subseteq Requests /\ faults' \in 0..MaxFaults
    <3>1. row' \in {row, Cleaned(row)} /\ current' \in {current, Wanted}
          /\ handle' \in {handle, [handle EXCEPT ![r] = Wanted]}
          /\ network' \in {network, network \cup {r}}
      BY <1>7 DEF Begin
    <3>2. faults' \in 0..MaxFaults
      BY <1>0, <1>7 DEF TypeOK, Begin
    <3>3. row' \in [Requests -> Content] /\ network' \subseteq Requests
      BY <1>0, <1>2, <3>1 DEF TypeOK
    <3>4. current' \in Workers \cup {NoWorker}
      BY <1>0, <2>2, <3>1 DEF TypeOK
    <3>5. handle' \in [Requests -> Workers \cup {NoWorker}]
      BY <1>0, <2>2, <3>1 DEF TypeOK
    <3> QED
      BY <3>2, <3>3, <3>4, <3>5
  <2> QED
    BY <1>0, <1>7, <2>1, <2>3 DEF TypeOK, Begin
<1>8. CASE Headers(r)
  <2>1. pc' \in [Requests -> Stages]
    BY <1>0, <1>8 DEF TypeOK, Headers, Stages
  <2> QED
    BY <1>0, <1>8, <2>1 DEF TypeOK, Headers
<1>9. CASE FullBatch(r)
  <2>1. pc' \in [Requests -> Stages]
    BY <1>0, <1>9 DEF TypeOK, FullBatch, Stages
  <2> QED
    BY <1>0, <1>9, <2>1 DEF TypeOK, FullBatch
<1>10. CASE BodyEnds(r)
  <2>0. /\ \/ pc' = [pc EXCEPT ![r] = "drain"] /\ received' = received
           \/ /\ pc' = [pc EXCEPT ![r] = "flush"] /\ received[r] < Batches
              /\ received' = [received EXCEPT ![r] = received[r] + 1]
        /\ body' = [body EXCEPT ![r] = received'[r]]
    BY <1>10 DEF BodyEnds
  <2>1. pc' \in [Requests -> Stages]
    BY <1>0, <2>0 DEF TypeOK, Stages
  <2>2. received' \in [Requests -> 0..Batches]
    <3>1. received[r] \in 0..Batches /\ received \in [Requests -> 0..Batches]
      BY <1>0 DEF TypeOK
    <3>2. received[r] < Batches => received[r] + 1 \in 0..Batches
      BY <3>1
    <3> QED
      BY <2>0, <3>1, <3>2
  <2>3. body' \in [Requests -> 0..NotEnded]
    <3>1. received'[r] \in 0..NotEnded /\ body \in [Requests -> 0..NotEnded]
      BY <1>0, <2>2 DEF TypeOK, NotEnded
    <3> QED
      BY <2>0, <3>1
  <2> QED
    BY <1>0, <1>10, <2>1, <2>2, <2>3 DEF TypeOK, BodyEnds
<1>11. CASE BodyFails(r)
  <2>1. pc' \in [Requests -> Stages]
    BY <1>0, <1>11 DEF TypeOK, BodyFails, Stages
  <2> QED
    BY <1>0, <1>11, <2>1 DEF TypeOK, BodyFails
<1>12. CASE AwaitWrite(r)
  <2>1. pc' \in [Requests -> Stages]
    BY <1>0, <1>12 DEF TypeOK, AwaitWrite, Stages
  <2> QED
    BY <1>0, <1>12, <2>1 DEF TypeOK, AwaitWrite
<1>13. CASE Drained(r)
  <2>1. pc' \in [Requests -> Stages]
    BY <1>0, <1>13 DEF TypeOK, Drained, Stages
  <2> QED
    BY <1>0, <1>13, <2>1 DEF TypeOK, Drained
<1>14. CASE Cancelled(r)
  <2>1. \E next \in {"failed", "release"} : pc' = [pc EXCEPT ![r] = next]
    BY <1>14 DEF Cancelled
  <2>2. pc' \in [Requests -> Stages]
    BY <1>0, <2>1 DEF TypeOK, Stages
  <2> QED
    BY <1>0, <1>14, <2>2 DEF TypeOK, Cancelled
<1>15. CASE Return(r)
  <2>1. pc' \in [Requests -> Stages]
    BY <1>0, <1>15 DEF TypeOK, Return, Stages
  <2> QED
    BY <1>0, <1>15, <2>1 DEF TypeOK, Return
<1>16. CASE Send(r)
  <2>1. pc' \in [Requests -> Stages]
    BY <1>0, <1>16 DEF TypeOK, Send, Stages
  <2> QED
    BY <1>0, <1>16, <2>1 DEF TypeOK, Send
<1>17. CASE Abort(r)
  BY <1>0, <1>17 DEF TypeOK, Abort
<1>18. CASE Forget(r)
  BY <1>0, <1>18 DEF TypeOK, Forget
<1>19. CASE Record(r)
  <2>1. Adopted(row[r]) \in Content
    BY <1>22 DEF Adopted, Content
  <2>2. row' \in [Requests -> Content]
    BY <1>0, <1>19, <2>1 DEF TypeOK, Record
  <2> QED
    BY <1>0, <1>19, <2>2 DEF TypeOK, Record
<1>20. CASE DeleteExecution(r)
  BY <1>0, <1>1, <1>20 DEF TypeOK, DeleteExecution
<1>21. CASE RowExpires(r)
  <2> DEFINE content == [row[r] EXCEPT !.expired = TRUE]
  <2>1. content \in Content
    BY <1>22 DEF Content
  <2>2. row' = [row EXCEPT ![r] = content]
    BY <1>21 DEF RowExpires
  <2> HIDE DEF content
  <2>3. row' \in [Requests -> Content]
    BY <1>0, <2>1, <2>2 DEF TypeOK
  <2> QED
    BY <1>0, <1>21, <2>3 DEF TypeOK, RowExpires
<1> QED
  BY <1>4, <1>5, <1>6, <1>7, <1>8, <1>9, <1>10, <1>11, <1>12, <1>13, <1>14, <1>15,
     <1>16, <1>17, <1>18, <1>19, <1>20, <1>21

\* A job goes to the end of a worker's channel.
LEMMA Queued ==
  ASSUME CaptureAssumption,
         TypeOK, NEW w \in Workers, NEW job \in Jobs, Enqueue(w, job)
  PROVE  /\ queue' \in [Workers -> Seq(Jobs)]
         /\ \A v \in Workers : Len(queue'[v]) <= Capacity
         /\ \A v \in Workers : v # w => queue'[v] = queue[v]
         /\ Len(queue[w]) \in Nat /\ Len(queue'[w]) = Len(queue[w]) + 1
         /\ queue'[w][Len(queue[w]) + 1] = job
         /\ \A i \in 1..Len(queue[w]) : queue'[w][i] = queue[w][i]
<1>1. queue[w] \in Seq(Jobs) /\ queue \in [Workers -> Seq(Jobs)]
        /\ \A v \in Workers : Len(queue[v]) <= Capacity
  BY DEF TypeOK
<1>2. Len(queue[w]) < Capacity /\ Len(queue[w]) \in Nat /\ Capacity \in Nat
  BY <1>1 DEF CaptureAssumption, Enqueue
<1> DEFINE q == Append(queue[w], job)
<1>3. /\ q \in Seq(Jobs) /\ Len(q) = Len(queue[w]) + 1
      /\ q[Len(queue[w]) + 1] = job
      /\ \A i \in 1..Len(queue[w]) : q[i] = queue[w][i]
  BY <1>1
<1>4. queue' = [queue EXCEPT ![w] = q]
  BY DEF Enqueue
<1> HIDE DEF q
<1>5. queue'[w] = q /\ \A v \in Workers : v # w => queue'[v] = queue[v]
  BY <1>1, <1>4
<1>6. queue' \in [Workers -> Seq(Jobs)]
  BY <1>1, <1>3, <1>4
<1>7. \A v \in Workers : Len(queue'[v]) <= Capacity
  BY <1>1, <1>2, <1>3, <1>5
<1> QED
  BY <1>2, <1>3, <1>5, <1>6, <1>7

\* Steps that send a job.
LEMMA SendingTypes ==
  ASSUME CaptureAssumption,
         IInv, NEW r \in Requests, Call(r) \/ EnqueueBatch(r) \/ Receive(r) \/ LetGo(r)
  PROVE  TypeOK'
<1> USE DEF CaptureAssumption, webview, registry, capture, bounds, history
<1>0. TypeOK /\ TaskOK(r)
  BY DEF IInv, TasksOK
<1>1. NoRow \in Content
  BY DEF NoRow, Content
<1>2. Cleaned(row) \in [Requests -> Content]
  BY <1>0, <1>1 DEF Cleaned, TypeOK
<1>3. Wanted \in Workers
  BY <1>0 DEF Wanted, Workers
<1>4. CASE Call(r)
  <2>1. handle[r] \in Workers
    BY <1>0, <1>4 DEF TaskOK, Call, Working
  <2>2. Job(pc[r], r, 0) \in Jobs
    BY <1>4 DEF Call, Job, Jobs
  <2>3. queue' \in [Workers -> Seq(Jobs)] /\ \A v \in Workers : Len(queue'[v]) <= Capacity
    BY <1>0, <1>4, <2>1, <2>2, Queued DEF Call
  <2>4. pc' \in [Requests -> Stages]
    <3>1. pc' = [pc EXCEPT ![r] = Waiting(pc[r])]
            /\ Waiting(pc[r]) \in {"ensuring", "creating", "finishing", "releasing"}
      BY <1>4 DEF Call, Waiting
    <3> QED
      BY <1>0, <3>1 DEF TypeOK, Stages
  <2> QED
    BY <1>0, <1>4, <2>3, <2>4 DEF TypeOK, Call
<1>5. CASE EnqueueBatch(r)
  <2>1. handle[r] \in Workers /\ enqueued[r] \in Nat /\ enqueued[r] + 1 <= Batches
    <3>1. handle[r] \in Workers /\ received[r] = enqueued[r] + 1
      BY <1>0, <1>5 DEF TaskOK, EnqueueBatch, Working, Reading
    <3>2. received[r] \in 0..Batches /\ enqueued[r] \in 0..Batches
      BY <1>0 DEF TypeOK
    <3> QED
      BY <3>1, <3>2
  <2>2. Job("append", r, enqueued[r] + 1) \in Jobs
    BY <2>1 DEF Job, Jobs
  <2>3. queue' \in [Workers -> Seq(Jobs)] /\ \A v \in Workers : Len(queue'[v]) <= Capacity
    BY <1>0, <1>5, <2>1, <2>2, Queued DEF EnqueueBatch
  <2>4. AfterEnqueue(r) \in {"drain", "await", "reading"}
    BY DEF AfterEnqueue
  <2>5. pc' \in [Requests -> Stages] /\ enqueued' \in [Requests -> 0..Batches]
    BY <1>0, <1>5, <2>1, <2>4 DEF TypeOK, EnqueueBatch, Stages
  <2> QED
    BY <1>0, <1>5, <2>3, <2>5 DEF TypeOK, EnqueueBatch
<1>6. ASSUME Drop(r), UNCHANGED <<aborted, cancels, closed, registry, capture, wrote,
                                  unlocked, bounds, history>>
      PROVE  TypeOK'
  <2>1. Job("drop", r, 0) \in Jobs
    BY DEF Job, Jobs
  <2>2. queue' \in [Workers -> Seq(Jobs)] /\ \A v \in Workers : Len(queue'[v]) <= Capacity
    BY <1>0, <1>3, <1>6, <2>1, Queued DEF Drop
  <2> QED
    BY <1>0, <1>2, <1>3, <1>6, <2>2 DEF TypeOK, Drop
<1>7. CASE Receive(r)
  <2>1. CASE Drop(r)
    BY <1>6, <1>7, <2>1 DEF Receive
  <2>2. CASE ~Drop(r)
    <3>1. UNCHANGED <<queue, current, row>>
            /\ \E next \in {"done", "holding"} : client' = [client EXCEPT ![r] = next]
      BY <1>7, <2>2 DEF Receive
    <3> QED
      BY <1>0, <1>7, <3>1 DEF TypeOK, Receive
  <2> QED
    BY <2>1, <2>2
<1>8. CASE LetGo(r)
  BY <1>6, <1>8 DEF LetGo
<1> QED
  BY <1>4, <1>5, <1>7, <1>8

\* What a worker's answer makes of the task that waits for it.
LEMMA Answered ==
  ASSUME CaptureAssumption,
         TypeOK, NEW r \in Requests, NEW kind \in {"ensure", "create", "finish", "release"},
         NEW ok \in BOOLEAN, Answer(r, kind, ok)
  PROVE  /\ pc' \in [Requests -> Stages]
         /\ \A q \in Requests : q # r => pc'[q] = pc[q]
         /\ pc[r] # Waiting(kind) => pc'[r] = pc[r]
         /\ pc[r] = Waiting(kind) =>
               /\ kind = "ensure" => pc'[r] = IF ok THEN "sending" ELSE "failed"
               /\ kind = "create" => pc'[r] = IF ok THEN "reading" ELSE "failed"
               /\ kind = "finish" => pc'[r] = IF ok THEN "succeeded" ELSE "release"
               /\ kind = "release" => pc'[r] = "failed"
<1> DEFINE next == IF pc[r] # Waiting(kind) THEN pc[r]
                   ELSE CASE kind = "ensure"  -> (IF ok THEN "sending" ELSE "failed")
                          [] kind = "create"  -> (IF ok THEN "reading" ELSE "failed")
                          [] kind = "finish"  -> (IF ok THEN "succeeded" ELSE "release")
                          [] kind = "release" -> "failed"
<1>1. pc' = [pc EXCEPT ![r] = next]
  BY DEF Answer
<1>2. pc \in [Requests -> Stages]
  BY DEF TypeOK
<1>3. /\ pc[r] # Waiting(kind) => next = pc[r]
      /\ pc[r] = Waiting(kind) =>
            /\ kind = "ensure" => next = IF ok THEN "sending" ELSE "failed"
            /\ kind = "create" => next = IF ok THEN "reading" ELSE "failed"
            /\ kind = "finish" => next = IF ok THEN "succeeded" ELSE "release"
            /\ kind = "release" => next = "failed"
  OBVIOUS
<1> HIDE DEF next
<1>4. next \in Stages
  <2>1. pc[r] \in Stages /\ {"sending", "reading", "succeeded", "failed", "release"} \subseteq Stages
    BY <1>2 DEF Stages
  <2> QED
    BY <1>3, <2>1
<1> QED
  BY <1>1, <1>2, <1>3, <1>4

\* What a job does to the content of its request, and to no other but for the
\* cleaning.
LEMMA AppliedRows ==
  ASSUME CaptureAssumption, TypeOK, NEW w \in Workers, NEW job \in Jobs,
         job.kind = "append" => job.batch # 0
  PROVE  /\ Applied(w, job, row) \in [Requests -> Content]
         /\ \A q \in Requests : q # job.request =>
               \/ Applied(w, job, row)[q] = row[q]
               \/ row[q].state # "adopted" /\ Applied(w, job, row)[q] = NoRow
         /\ \/ Applied(w, job, row)[job.request] = row[job.request]
            \/ /\ Applied(w, job, row)[job.request] = NoRow
               /\ row[job.request].state # "adopted"
            \/ /\ job.kind = "create" /\ CanProtect(w, job.request)
               /\ Applied(w, job, row)[job.request] = [NoRow EXCEPT !.state = "staging"]
            \/ /\ job.kind = "append" /\ CanProtect(w, job.request)
               /\ row[job.request].state = "staging"
               /\ Applied(w, job, row)[job.request] =
                     [row[job.request] EXCEPT !.batches = Append(@, job.batch)]
            \/ /\ job.kind = "finish" /\ row[job.request].state = "staging"
               /\ Applied(w, job, row)[job.request] =
                     [row[job.request] EXCEPT !.state = "ready"]
<1> DEFINE r == job.request
           after == Applied(w, job, row)
<1>1. /\ row \in [Requests -> Content] /\ r \in Requests /\ row[r] \in Content
      /\ job.kind \in {"ensure", "create", "append", "finish", "release", "drop"}
      /\ job.batch \in 0..Batches
  BY DEF TypeOK, Jobs
<1>2. NoRow \in Content /\ [NoRow EXCEPT !.state = "staging"] \in Content
  <2>1. NoRow \in Content
    BY DEF NoRow, Content
  <2> QED
    BY <2>1 DEF Content
<1>3. /\ Cleaned(row) \in [Requests -> Content]
      /\ \A q \in Requests : \/ Cleaned(row)[q] = row[q]
                             \/ row[q].state # "adopted" /\ Cleaned(row)[q] = NoRow
  BY <1>1, <1>2 DEF Cleaned
<1>4. CASE job.kind = "ensure"
  BY <1>1, <1>4 DEF Applied
<1>5. CASE job.kind = "create"
  <2>1. CASE CanProtect(w, r)
    <3>1. after = [Cleaned(row) EXCEPT ![r] = [NoRow EXCEPT !.state = "staging"]]
      BY <1>5, <2>1 DEF Applied
    <3> HIDE DEF after
    <3>2. /\ after \in [Requests -> Content] /\ after[r] = [NoRow EXCEPT !.state = "staging"]
          /\ \A q \in Requests : q # r => after[q] = Cleaned(row)[q]
      BY <1>1, <1>2, <1>3, <3>1
    <3> QED
      BY <1>3, <1>5, <2>1, <3>2 DEF after
  <2>2. CASE ~CanProtect(w, r)
    BY <1>1, <1>5, <2>2 DEF Applied
  <2> QED
    BY <2>1, <2>2
<1>6. CASE job.kind = "append"
  <2>1. CASE row[r].state = "staging" /\ CanProtect(w, r)
    <3> DEFINE b == Append(row[r].batches, job.batch)
               c == [row[r] EXCEPT !.batches = b]
    <3>1. after = [row EXCEPT ![r] = c]
      BY <1>6, <2>1 DEF Applied
    <3>2. c \in Content
      <4>1. b \in Seq(1..Batches)
        BY <1>1, <1>6 DEF Content
      <4> QED
        BY <1>1, <4>1 DEF Content
    <3> HIDE DEF after, c
    <3>3. after \in [Requests -> Content] /\ after[r] = c
          /\ \A q \in Requests : q # r => after[q] = row[q]
      BY <1>1, <3>1, <3>2
    <3> QED
      BY <1>6, <2>1, <3>3 DEF after, c
  <2>2. CASE ~(row[r].state = "staging" /\ CanProtect(w, r))
    BY <1>1, <1>6, <2>2 DEF Applied
  <2> QED
    BY <2>1, <2>2
<1>7. CASE job.kind = "finish"
  <2>1. CASE row[r].state = "staging"
    <3> DEFINE c == [row[r] EXCEPT !.state = "ready"]
    <3>1. after = [row EXCEPT ![r] = c]
      BY <1>7, <2>1 DEF Applied
    <3>2. c \in Content
      BY <1>1 DEF Content
    <3> HIDE DEF after, c
    <3>3. after \in [Requests -> Content] /\ after[r] = c
          /\ \A q \in Requests : q # r => after[q] = row[q]
      BY <1>1, <3>1, <3>2
    <3> QED
      BY <1>7, <2>1, <3>3 DEF after, c
  <2>2. CASE row[r].state # "staging"
    BY <1>1, <1>7, <2>2 DEF Applied
  <2> QED
    BY <2>1, <2>2
<1>8. CASE job.kind \in {"release", "drop"}
  <2>1. CASE row[r].state # "adopted"
    <3>1. after = [row EXCEPT ![r] = NoRow]
      BY <1>8, <2>1 DEF Applied
    <3> HIDE DEF after
    <3>2. after \in [Requests -> Content] /\ after[r] = NoRow
          /\ \A q \in Requests : q # r => after[q] = row[q]
      BY <1>1, <1>2, <3>1
    <3> QED
      BY <2>1, <3>2 DEF after
  <2>2. CASE row[r].state = "adopted"
    BY <1>1, <1>8, <2>2 DEF Applied
  <2> QED
    BY <2>1, <2>2
<1> QED
  BY <1>1, <1>4, <1>5, <1>6, <1>7, <1>8

\* A worker takes the first of its jobs.
LEMMA Taken ==
  ASSUME CaptureAssumption, TypeOK, NEW w \in Workers, Work(w)
  PROVE  /\ Head(queue[w]) = queue[w][1] /\ Head(queue[w]) \in Jobs
         /\ Len(queue[w]) \in Nat /\ Len(queue[w]) >= 1
         /\ queue' \in [Workers -> Seq(Jobs)]
         /\ \A v \in Workers : Len(queue'[v]) <= Capacity
         /\ \A v \in Workers : v # w => queue'[v] = queue[v]
         /\ Len(queue'[w]) = Len(queue[w]) - 1
         /\ \A i \in 1..Len(queue'[w]) : queue'[w][i] = queue[w][i + 1]
<1>1. queue[w] \in Seq(Jobs) /\ queue \in [Workers -> Seq(Jobs)]
        /\ \A v \in Workers : Len(queue[v]) <= Capacity
  BY DEF TypeOK
<1>2. queue[w] # <<>> /\ queue' = [queue EXCEPT ![w] = Tail(queue[w])]
  BY DEF Work
<1> DEFINE q == Tail(queue[w])
<1>3. /\ q \in Seq(Jobs) /\ Len(q) = Len(queue[w]) - 1
      /\ \A i \in 1..Len(q) : q[i] = queue[w][i + 1]
      /\ Head(queue[w]) = queue[w][1] /\ Head(queue[w]) \in Jobs
      /\ Len(queue[w]) \in Nat /\ Len(queue[w]) >= 1
  BY <1>1, <1>2
<1>4. queue' = [queue EXCEPT ![w] = q]
  BY <1>2
<1> HIDE DEF q
<1>5. queue'[w] = q /\ \A v \in Workers : v # w => queue'[v] = queue[v]
  BY <1>1, <1>4
<1>6. queue' \in [Workers -> Seq(Jobs)]
  BY <1>1, <1>3, <1>4
<1>7. \A v \in Workers : Len(queue'[v]) <= Capacity
  BY <1>1, <1>3, <1>5 DEF CaptureAssumption
<1> QED
  BY <1>3, <1>5, <1>6, <1>7

\* The answer to a write.
LEMMA Written ==
  ASSUME CaptureAssumption,
         TypeOK, NEW r \in Requests, NEW k \in 1..Batches, NEW answer \in {"ok", "error"},
         wrote' = [wrote EXCEPT ![r][k] = answer]
  PROVE  /\ wrote' \in [Requests -> [1..Batches -> {"none", "ok", "error"}]]
         /\ wrote'[r][k] = answer
         /\ \A j \in 1..Batches : j # k => wrote'[r][j] = wrote[r][j]
         /\ \A q \in Requests : q # r => wrote'[q] = wrote[q]
  BY DEF TypeOK

\* What a job does when its worker takes it: the head of the queue, whether the
\* database failed, and the answer.
LEMMA Worked ==
  ASSUME CaptureAssumption, TypeOK, NEW w \in Workers, Work(w)
  PROVE  LET job == Head(queue[w])
             r == job.request
         IN  \E fault \in BOOLEAN, ok \in BOOLEAN :
             /\ ok = (~fault /\ Succeeds(w, job, row))
             /\ fault => job.kind # "ensure"
             /\ faults' \in 0..MaxFaults
             /\ row' = (IF fault THEN row ELSE Applied(w, job, row))
             /\ leaked' = (IF fault /\ job.kind = "release" THEN leaked \cup {r} ELSE leaked)
             /\ network' = (IF job.kind = "ensure" /\ ok /\ pc[r] = "ensuring"
                            THEN network \cup {r} ELSE network)
             /\ \/ /\ job.kind = "append" /\ UNCHANGED pc
                   /\ wrote' = [wrote EXCEPT ![r][job.batch] = IF ok THEN "ok" ELSE "error"]
                \/ job.kind = "drop" /\ UNCHANGED <<wrote, pc>>
                \/ /\ job.kind \in {"ensure", "create", "finish", "release"}
                   /\ Answer(r, job.kind, ok) /\ UNCHANGED wrote
<1> DEFINE job == Head(queue[w])
           r == job.request
<1>1. job.kind \in {"ensure", "create", "append", "finish", "release", "drop"}
  BY Taken DEF Jobs
<1>2. PICK fault \in BOOLEAN :
          LET ok == ~fault /\ Succeeds(w, job, row)
          IN /\ fault => job.kind # "ensure" /\ faults < MaxFaults
             /\ faults' = IF fault THEN faults + 1 ELSE faults
             /\ row' = IF fault THEN row ELSE Applied(w, job, row)
             /\ leaked' = IF fault /\ job.kind = "release"
                          THEN leaked \cup {r} ELSE leaked
             /\ network' = IF job.kind = "ensure" /\ ok /\ pc[r] = "ensuring"
                           THEN network \cup {r} ELSE network
             /\ \/ /\ job.kind = "append"
                   /\ wrote' = [wrote EXCEPT ![r][job.batch] =
                                    IF ok THEN "ok" ELSE "error"]
                   /\ UNCHANGED pc
                \/ /\ job.kind = "drop"
                   /\ UNCHANGED <<wrote, pc>>
                \/ /\ job.kind \notin {"append", "drop"}
                   /\ Answer(r, job.kind, ok)
                   /\ UNCHANGED wrote
  BY Zenon DEF Work
<1>3. faults' \in 0..MaxFaults
  BY <1>2 DEF CaptureAssumption, TypeOK
<1> DEFINE ok == ~fault /\ Succeeds(w, job, row)
<1>4. ok \in BOOLEAN
  OBVIOUS
<1>5. /\ ok = (~fault /\ Succeeds(w, job, row))
      /\ fault => job.kind # "ensure"
      /\ row' = (IF fault THEN row ELSE Applied(w, job, row))
      /\ leaked' = (IF fault /\ job.kind = "release" THEN leaked \cup {r} ELSE leaked)
      /\ network' = (IF job.kind = "ensure" /\ ok /\ pc[r] = "ensuring"
                     THEN network \cup {r} ELSE network)
      /\ \/ /\ job.kind = "append" /\ UNCHANGED pc
            /\ wrote' = [wrote EXCEPT ![r][job.batch] = IF ok THEN "ok" ELSE "error"]
         \/ job.kind = "drop" /\ UNCHANGED <<wrote, pc>>
         \/ /\ job.kind \in {"ensure", "create", "finish", "release"}
            /\ Answer(r, job.kind, ok) /\ UNCHANGED wrote
  BY <1>1, <1>2, Zenon
<1> HIDE DEF ok
<1> QED
  BY <1>3, <1>4, <1>5, Zenon

\* Steps of the workers and the surroundings.
LEMMA WorldTypes ==
  ASSUME CaptureAssumption,
         IInv, (\E w \in Workers : Work(w)) \/ Unlock \/ CloseWindow \/ Crash
  PROVE  TypeOK'
<1> USE DEF webview, registry, capture, bounds, history
<1>0. TypeOK
  BY DEF IInv
<1>1. CASE Unlock
  BY <1>0, <1>1 DEF TypeOK, Unlock
<1>2. CASE CloseWindow
  BY <1>0, <1>2 DEF TypeOK, CloseWindow
<1>3. CASE Crash
  <2>1. pc' \in [Requests -> Stages]
    BY <1>0, <1>3 DEF TypeOK, Crash, Stages
  <2>2. crashes' \in 0..MaxCrashes
    BY <1>0, <1>3 DEF CaptureAssumption, TypeOK, Crash
  <2>3. queue' \in [Workers -> Seq(Jobs)] /\ \A w \in Workers : Len(queue'[w]) <= Capacity
    <3>1. \A w \in Workers : queue'[w] = <<>>
      BY <1>3 DEF Crash
    <3>2. queue' \in [Workers -> Seq(Jobs)]
      BY <1>3 DEF Crash
    <3> QED
      BY <3>1, <3>2 DEF CaptureAssumption
  <2>4. client' \in [Requests -> {"idle", "waiting", "holding", "recorded",
                                  "deleted", "done"}]
    BY <1>0, <1>3 DEF TypeOK, Crash
  <2>5. entry' \in [Requests -> {"none", "tombstone", "aged", "active"}]
    BY <1>3 DEF Crash
  <2> QED
    BY <1>0, <1>3, <2>1, <2>2, <2>3, <2>4, <2>5 DEF TypeOK, Crash
<1>4. ASSUME NEW w \in Workers, Work(w) PROVE TypeOK'
  <2> DEFINE job == Head(queue[w])
             r == job.request
  <2>1. /\ job \in Jobs /\ r \in Requests /\ job = queue[w][1] /\ 1 \in 1..Len(queue[w])
        /\ queue' \in [Workers -> Seq(Jobs)]
        /\ \A v \in Workers : Len(queue'[v]) <= Capacity
    <3>1. /\ job \in Jobs /\ job = queue[w][1] /\ Len(queue[w]) \in Nat /\ Len(queue[w]) >= 1
          /\ queue' \in [Workers -> Seq(Jobs)]
          /\ \A v \in Workers : Len(queue'[v]) <= Capacity
      BY <1>0, <1>4, Taken
    <3>2. r \in Requests
      BY <3>1 DEF Jobs
    <3>3. 1 \in 1..Len(queue[w])
      BY <3>1
    <3> QED
      BY <3>1, <3>2, <3>3
  <2>2. job.kind = "append" => job.batch \in 1..Batches
    <3>1. job.kind = "append" => job.batch \in 1..enqueued[r]
      BY <2>1 DEF IInv, JobsOK, JobOK
    <3>2. enqueued[r] \in 0..Batches
      BY <1>0, <2>1 DEF TypeOK
    <3> QED
      BY <3>1, <3>2 DEF CaptureAssumption
  <2>3. Applied(w, job, row) \in [Requests -> Content]
    <3>1. job.kind = "append" => job.batch # 0
      BY <2>2
    <3> HIDE DEF job
    <3> QED
      BY <1>0, <2>1, <3>1, AppliedRows
  <2>4. UNCHANGED <<webview, registry, handle, received, enqueued, awaited,
                    outcome, current, unlocked, crashes, revoked, body>>
    BY <1>4 DEF Work
  <2> HIDE DEF job
  <2>5. PICK fault \in BOOLEAN, ok \in BOOLEAN :
            /\ faults' \in 0..MaxFaults
            /\ row' = (IF fault THEN row ELSE Applied(w, job, row))
            /\ leaked' = (IF fault /\ job.kind = "release" THEN leaked \cup {r} ELSE leaked)
            /\ network' = (IF job.kind = "ensure" /\ ok /\ pc[r] = "ensuring"
                           THEN network \cup {r} ELSE network)
            /\ \/ /\ job.kind = "append" /\ UNCHANGED pc
                  /\ wrote' = [wrote EXCEPT ![r][job.batch] = IF ok THEN "ok" ELSE "error"]
               \/ job.kind = "drop" /\ UNCHANGED <<wrote, pc>>
               \/ /\ job.kind \in {"ensure", "create", "finish", "release"}
                  /\ Answer(r, job.kind, ok) /\ UNCHANGED wrote
    BY <1>0, <1>4, Worked, Zenon DEF job
  <2>6. wrote' \in [Requests -> [1..Batches -> {"none", "ok", "error"}]]
    <3>1. CASE wrote' = [wrote EXCEPT ![r][job.batch] = IF ok THEN "ok" ELSE "error"]
               /\ job.kind = "append"
      BY <1>0, <2>1, <2>2, <3>1, Written
    <3>2. CASE UNCHANGED wrote
      BY <1>0, <3>2 DEF TypeOK
    <3> QED
      BY <2>5, <3>1, <3>2
  <2>7. pc' \in [Requests -> Stages]
    <3>1. CASE UNCHANGED pc
      BY <1>0, <3>1 DEF TypeOK
    <3>2. CASE job.kind \in {"ensure", "create", "finish", "release"}
                 /\ Answer(r, job.kind, ok)
      BY <1>0, <2>1, <3>2, Answered
    <3> QED
      BY <2>5, <3>1, <3>2
  <2>8. row' \in [Requests -> Content] /\ leaked' \subseteq Requests
          /\ network' \subseteq Requests
    BY <1>0, <2>1, <2>3, <2>5 DEF TypeOK
  <2> QED
    BY <1>0, <2>1, <2>4, <2>5, <2>6, <2>7, <2>8 DEF TypeOK
<1> QED
  BY <1>1, <1>2, <1>3, <1>4

-----------------------------------------------------------------------------
(* Requests a step is not about.                                           *)

\* A request that nothing happens to, but that its content may be cleaned.
LEMMA Bystander ==
  ASSUME CaptureAssumption, IInv, NEW q \in Requests,
         pc'[q] = pc[q], client'[q] = client[q], outcome'[q] = outcome[q],
         handle'[q] = handle[q], enqueued'[q] = enqueued[q], received'[q] = received[q],
         awaited'[q] = awaited[q], wrote'[q] = wrote[q], body'[q] = body[q],
         q \in network' <=> q \in network, q \in leaked => q \in leaked',
         row'[q] = row[q] \/ (row[q].state # "adopted" /\ row'[q] = NoRow)
  PROVE  ClientOK(q)' /\ TaskOK(q)' /\ RowOK(q)'
<1>1. ClientOK(q) /\ TaskOK(q) /\ RowOK(q)
  BY DEF IInv, ClientsOK, TasksOK, RowsOK
<1>2. ClientOK(q)' /\ TaskOK(q)'
  BY <1>1 DEF ClientOK, TaskOK, Complete
<1>3. CASE row'[q] = row[q]
  BY <1>1, <1>2, <1>3 DEF RowOK
<1>4. CASE row[q].state # "adopted" /\ row'[q] = NoRow
  <2>1. row'[q].state = "absent"
    BY <1>4 DEF NoRow
  <2> QED
    BY <1>1, <1>2, <1>4, <2>1 DEF RowOK
<1> QED
  BY <1>2, <1>3, <1>4

\* What the cleaning of expired rows does to each of them.
LEMMA CleanedRows ==
  ASSUME CaptureAssumption,
         TypeOK, NEW q \in Requests, row' = row \/ row' = Cleaned(row)
  PROVE  row'[q] = row[q] \/ (row[q].state # "adopted" /\ row'[q] = NoRow)
  BY DEF Cleaned

\* The steps of one request: the others are bystanders.
LEMMA Others ==
  ASSUME CaptureAssumption, IInv, NEW r \in Requests, NEW q \in Requests, q # r,
         \/ Cancel(r) \/ TombstoneAges(r) \/ Task(r) \/ Send(r) \/ Abort(r)
         \/ Receive(r) \/ LetGo(r) \/ Forget(r) \/ Record(r) \/ DeleteExecution(r)
         \/ RowExpires(r)
  PROVE  ClientOK(q)' /\ TaskOK(q)' /\ RowOK(q)'
<1> USE DEF webview, registry, capture, bounds, history
<1>0. TypeOK
  BY DEF IInv
<1>1. pc'[q] = pc[q] /\ client'[q] = client[q]
  <2>1. CASE Task(r)
    BY <1>0, <2>1 DEF TypeOK, Task, Register, Begin, Call, Headers, FullBatch, BodyEnds,
       BodyFails, EnqueueBatch, AwaitWrite, Drained, Cancelled, Return
  <2>2. CASE \/ Cancel(r) \/ TombstoneAges(r) \/ Send(r) \/ Abort(r)
             \/ Receive(r) \/ LetGo(r) \/ Forget(r) \/ Record(r) \/ DeleteExecution(r)
             \/ RowExpires(r)
    BY <1>0, <2>2 DEF TypeOK, Cancel, TombstoneAges, Send, Abort, Receive, LetGo, Drop,
       Forget, Record, DeleteExecution, RowExpires
  <2> QED
    BY <2>1, <2>2
<1>2. /\ outcome'[q] = outcome[q] /\ handle'[q] = handle[q]
      /\ enqueued'[q] = enqueued[q] /\ received'[q] = received[q]
      /\ awaited'[q] = awaited[q] /\ body'[q] = body[q]
      /\ UNCHANGED <<wrote, leaked>>
  <2>1. CASE Task(r)
    BY <1>0, <2>1 DEF TypeOK, Task, Register, Begin, Call, Headers, FullBatch, BodyEnds,
       BodyFails, EnqueueBatch, AwaitWrite, Drained, Cancelled, Return
  <2>2. CASE \/ Cancel(r) \/ TombstoneAges(r) \/ Send(r) \/ Abort(r)
             \/ Receive(r) \/ LetGo(r) \/ Forget(r) \/ Record(r) \/ DeleteExecution(r)
             \/ RowExpires(r)
    BY <2>2 DEF Cancel, TombstoneAges, Send, Abort, Receive, LetGo, Drop,
       Forget, Record, DeleteExecution, RowExpires
  <2> QED
    BY <2>1, <2>2
<1>3. q \in network' <=> q \in network
  <2>1. network' \in {network, network \cup {r}}
    BY DEF Task, Register, Begin, Call, Headers, FullBatch, BodyEnds,
       BodyFails, EnqueueBatch, AwaitWrite, Drained, Cancelled, Return,
       Cancel, TombstoneAges, Send, Abort, Receive, LetGo, Drop,
       Forget, Record, DeleteExecution, RowExpires
  <2> QED
    BY <2>1
<1>4. row'[q] = row[q] \/ (row[q].state # "adopted" /\ row'[q] = NoRow)
  <2>1. CASE Begin(r) \/ Receive(r) \/ LetGo(r)
    <3>1. row' = row \/ row' = Cleaned(row)
      BY <2>1 DEF Begin, Receive, LetGo, Drop
    <3> QED
      BY <1>0, <3>1, CleanedRows
  <2>2. CASE ~(Begin(r) \/ Receive(r) \/ LetGo(r))
    BY <1>0, <2>2 DEF TypeOK, Task, Register, Call, Headers, FullBatch, BodyEnds,
       BodyFails, EnqueueBatch, AwaitWrite, Drained, Cancelled, Return,
       Cancel, TombstoneAges, Send, Abort, Forget, Record, DeleteExecution, RowExpires
  <2> QED
    BY <2>1, <2>2
<1> QED
  BY <1>1, <1>2, <1>3, <1>4, Bystander

-----------------------------------------------------------------------------
(* The request a step is about.                                            *)

\* Steps of the registry and of the user.
LEMMA RegistrySteps ==
  ASSUME CaptureAssumption, IInv, NEW r \in Requests,
         Cancel(r) \/ TombstoneAges(r) \/ Register(r) \/ Send(r) \/ Abort(r)
  PROVE  ClientOK(r)' /\ TaskOK(r)' /\ RowOK(r)'
<1> USE DEF webview, registry, capture, bounds, history
<1>0. TypeOK /\ ClientOK(r) /\ TaskOK(r) /\ RowOK(r)
  BY DEF IInv, ClientsOK, TasksOK, RowsOK
<1>1. CASE Cancel(r) \/ TombstoneAges(r) \/ Abort(r)
  <2>1. UNCHANGED <<client, outcome, pc, handle, enqueued, received, awaited, wrote, body,
                    row, network, leaked>>
    BY <1>1 DEF Cancel, TombstoneAges, Abort
  <2> QED
    BY <1>0, <2>1 DEF ClientOK, TaskOK, RowOK, Complete
<1>2. CASE Register(r)
  <2>1. /\ UNCHANGED <<client, handle, enqueued, received, awaited, wrote, body,
                       row, network, leaked>>
        /\ pc[r] = "invoked"
        /\ \/ pc'[r] = "registered" /\ outcome' = outcome
           \/ pc'[r] = "returned" /\ outcome'[r] = "error"
    BY <1>0, <1>2 DEF Register, TypeOK
  <2>2. client[r] \notin {"idle", "holding", "recorded", "deleted"} /\ outcome[r] = "none"
    BY <1>0, <2>1 DEF ClientOK, TypeOK
  <2>3. ClientOK(r)'
    BY <2>1, <2>2 DEF ClientOK
  <2>4. TaskOK(r)'
    BY <1>0, <2>1 DEF TaskOK, Early, Unstarted, Working, Reading
  <2>5. row[r].state = "absent" /\ r \notin network
    BY <1>0, <2>1 DEF RowOK, Early, Unstarted
  <2>6. RowOK(r)'
    BY <1>0, <2>1, <2>2, <2>5 DEF RowOK, Early, Unstarted
  <2> QED
    BY <2>3, <2>4, <2>6
<1>3. CASE Send(r)
  <2>1. /\ UNCHANGED <<outcome, handle, enqueued, received, awaited, wrote, body,
                       row, network, leaked>>
        /\ client[r] = "idle" /\ client'[r] = "waiting" /\ pc'[r] = "invoked"
    BY <1>0, <1>3 DEF Send, TypeOK
  <2>2. pc[r] = "idle" /\ outcome[r] = "none"
    BY <1>0, <2>1 DEF ClientOK, TypeOK
  <2>3. ClientOK(r)'
    BY <2>1, <2>2 DEF ClientOK
  <2>4. TaskOK(r)'
    BY <1>0, <2>1, <2>2 DEF TaskOK, Early, Unstarted, Working, Reading
  <2>5. row[r].state = "absent" /\ r \notin network
    BY <1>0, <2>2 DEF RowOK, Early, Unstarted
  <2>6. RowOK(r)'
    BY <1>0, <2>1, <2>2, <2>5 DEF RowOK, Early, Unstarted
  <2> QED
    BY <2>3, <2>4, <2>6
<1> QED
  BY <1>1, <1>2, <1>3

\* Steps of the webview with what it was answered.
LEMMA WebviewSteps ==
  ASSUME CaptureAssumption, IInv, NEW r \in Requests,
         Receive(r) \/ LetGo(r) \/ Forget(r) \/ Record(r) \/ DeleteExecution(r) \/ RowExpires(r)
  PROVE  ClientOK(r)' /\ TaskOK(r)' /\ RowOK(r)'
<1> USE DEF webview, registry, capture, bounds, history
<1>0. TypeOK /\ ClientOK(r) /\ TaskOK(r) /\ RowOK(r) /\ row[r] \in Content
  BY DEF IInv, ClientsOK, TasksOK, RowsOK, TypeOK
<1>1. UNCHANGED <<outcome, pc, handle, enqueued, received, awaited, wrote, body,
                  network, leaked>>
  BY DEF Receive, LetGo, Drop, Forget, Record, DeleteExecution, RowExpires
<1>2. TaskOK(r)'
  BY <1>0, <1>1 DEF TaskOK, Complete
<1>3. CASE Receive(r) \/ LetGo(r) \/ Forget(r)
  <2>1. /\ client[r] \in {"waiting", "holding"} /\ client'[r] \in {"holding", "done"}
        /\ client'[r] = "holding" => outcome[r] = "ok"
    BY <1>0, <1>3 DEF TypeOK, Receive, LetGo, Drop, Forget
  <2>2. row' = row \/ row' = Cleaned(row)
    BY <1>3 DEF Receive, LetGo, Drop, Forget
  <2>3. row'[r] = row[r] \/ (row[r].state # "adopted" /\ row'[r] = NoRow)
    BY <1>0, <2>2, CleanedRows
  <2>4. ClientOK(r)'
    BY <1>0, <1>1, <2>1 DEF ClientOK
  <2>5. RowOK(r)'
    <3>1. CASE row'[r] = row[r]
      BY <1>0, <1>1, <2>1, <3>1 DEF RowOK
    <3>2. CASE row'[r] = NoRow
      <4>1. row'[r].state = "absent"
        BY <3>2 DEF NoRow
      <4> QED
        BY <1>0, <1>1, <2>1, <4>1 DEF RowOK
    <3> QED
      BY <2>3, <3>1, <3>2
  <2> QED
    BY <1>2, <2>4, <2>5
<1>4. CASE Record(r)
  <2>1. CASE row[r].state = "ready"
    <3>1. row'[r] = Adopted(row[r]) /\ client'[r] = "recorded" /\ client[r] = "holding"
      BY <1>0, <1>4, <2>1 DEF TypeOK, Record
    <3>2. row'[r].state = "adopted" /\ row'[r].batches = row[r].batches
      BY <1>0, <3>1 DEF Adopted, Content
    <3>3. outcome[r] = "ok" /\ pc[r] = "returned"
      BY <1>0, <3>1 DEF ClientOK
    <3>4. ClientOK(r)'
      BY <1>1, <3>1, <3>3 DEF ClientOK
    <3>5. RowOK(r)'
      BY <1>0, <1>1, <2>1, <3>1, <3>2, <3>3 DEF RowOK, Early, Unstarted
    <3> QED
      BY <1>2, <3>4, <3>5
  <2>2. CASE row[r].state # "ready"
    <3>1. row' = row /\ client'[r] = "done" /\ client[r] = "holding"
      BY <1>0, <1>4, <2>2 DEF TypeOK, Record
    <3> QED
      BY <1>0, <1>1, <1>2, <3>1 DEF ClientOK, RowOK
  <2> QED
    BY <2>1, <2>2
<1>5. CASE DeleteExecution(r)
  <2>1. row'[r] = NoRow /\ client'[r] = "deleted" /\ client[r] = "recorded"
    BY <1>0, <1>5 DEF TypeOK, DeleteExecution
  <2>2. row'[r].state = "absent"
    BY <2>1 DEF NoRow
  <2> QED
    BY <1>0, <1>1, <1>2, <2>1, <2>2 DEF ClientOK, RowOK
<1>6. CASE RowExpires(r)
  <2>1. /\ row'[r].state = row[r].state /\ row'[r].batches = row[r].batches
        /\ client' = client
    <3>1. row'[r] = [row[r] EXCEPT !.expired = TRUE] /\ client' = client
      BY <1>0, <1>6 DEF TypeOK, RowExpires
    <3> QED
      BY <1>0, <3>1 DEF Content
  <2> QED
    BY <1>0, <1>1, <1>2, <2>1 DEF ClientOK, RowOK
<1> QED
  BY <1>3, <1>4, <1>5, <1>6

\* A task moves while nothing but its own stage and counters change.
LEMMA StageMoves ==
  ASSUME CaptureAssumption, IInv, NEW r \in Requests,
         UNCHANGED <<client, handle, enqueued, wrote, row, network, leaked>>,
         pc[r] \notin {"idle", "invoked", "returned"}, outcome'[r] = outcome[r],
         pc'[r] # "idle",
         pc'[r] \in Unstarted => pc[r] \in Unstarted,
         pc'[r] \in Early => pc[r] \in Early,
         pc[r] \in Late => pc'[r] \in Late /\ body'[r] = body[r],
         pc'[r] = "failed" => pc[r] \in Early
  PROVE  ClientOK(r)' /\ RowOK(r)'
<1>1. TypeOK /\ ClientOK(r) /\ TaskOK(r) /\ RowOK(r)
  BY DEF IInv, ClientsOK, TasksOK, RowsOK
<1>2. outcome[r] = "none" /\ client[r] \notin {"idle", "holding", "recorded", "deleted"}
  BY <1>1 DEF ClientOK, TypeOK
<1>3. ClientOK(r)'
  BY <1>1, <1>2 DEF ClientOK
<1>4. RowOK(r)'
  BY <1>1, <1>2 DEF RowOK
<1> QED
  BY <1>3, <1>4

\* Steps of the task before its content exists, and the calls it makes.
LEMMA OpeningSteps ==
  ASSUME CaptureAssumption,
         IInv, NEW r \in Requests, Begin(r) \/ Call(r) \/ Headers(r)
  PROVE  ClientOK(r)' /\ TaskOK(r)' /\ RowOK(r)'
<1> USE DEF webview, registry, capture, bounds, history
<1>0. TypeOK /\ ClientOK(r) /\ TaskOK(r) /\ RowOK(r)
  BY DEF IInv, ClientsOK, TasksOK, RowsOK
<1>1. CASE Begin(r)
  <2>1. /\ UNCHANGED <<client, outcome, enqueued, received, awaited, wrote, body, leaked>>
        /\ pc[r] = "registered" /\ pc'[r] \in {"failed", "ensure", "sending"}
        /\ pc'[r] \in {"ensure", "sending"} => handle'[r] = Wanted
        /\ row' = row \/ row' = Cleaned(row)
        /\ r \in network' => r \in network \/ r \notin Encrypted
    BY <1>0, <1>1 DEF Begin, TypeOK
  <2>2. outcome[r] = "none" /\ row[r].state = "absent" /\ r \notin network
    BY <1>0, <2>1 DEF ClientOK, RowOK, Early, Unstarted, TypeOK
  <2>3. row'[r].state = "absent"
    <3>1. row'[r] = row[r] \/ row'[r] = NoRow
      BY <1>0, <2>1, CleanedRows
    <3> QED
      BY <2>2, <3>1 DEF NoRow
  <2>4. ClientOK(r)'
    BY <1>0, <2>1, <2>2 DEF ClientOK
  <2>5. TaskOK(r)'
    <3>1. Wanted \in Workers
      BY DEF Wanted, Workers
    <3> QED
      BY <1>0, <2>1, <3>1 DEF TaskOK, Early, Unstarted, Working, Reading
  <2>6. RowOK(r)'
    BY <1>0, <2>1, <2>2, <2>3 DEF RowOK, Unstarted
  <2> QED
    BY <2>4, <2>5, <2>6
<1>2. CASE Call(r)
  <2>1. /\ UNCHANGED <<client, outcome, handle, enqueued, received, awaited, wrote, body,
                       row, network, leaked>>
        /\ \/ pc[r] = "ensure" /\ pc'[r] = "ensuring"
           \/ pc[r] = "create" /\ pc'[r] = "creating"
           \/ pc[r] = "finish" /\ pc'[r] = "finishing"
           \/ pc[r] = "release" /\ pc'[r] = "releasing"
    BY <1>0, <1>2 DEF Call, Waiting, TypeOK
  <2>2. TaskOK(r)'
    BY <1>0, <2>1 DEF TaskOK, Complete, Early, Unstarted, Working, Reading
  <2>3. ClientOK(r)' /\ RowOK(r)'
    BY <2>1, StageMoves DEF Early, Unstarted, Late
  <2> QED
    BY <2>2, <2>3
<1>3. CASE Headers(r)
  <2>1. /\ UNCHANGED <<client, outcome, handle, enqueued, received, awaited, wrote, body,
                       row, network, leaked>>
        /\ pc[r] = "sending" /\ pc'[r] \in {"create", "failed"}
    BY <1>0, <1>3 DEF Headers, TypeOK
  <2>2. TaskOK(r)'
    BY <1>0, <2>1 DEF TaskOK, Complete, Early, Unstarted, Working, Reading
  <2>3. ClientOK(r)' /\ RowOK(r)'
    BY <2>1, StageMoves DEF Early, Unstarted, Late
  <2> QED
    BY <2>2, <2>3
<1> QED
  BY <1>1, <1>2, <1>3

\* Steps of the task while it reads the body and hands it over.
LEMMA ReadingSteps ==
  ASSUME CaptureAssumption, IInv, NEW r \in Requests,
         FullBatch(r) \/ BodyEnds(r) \/ BodyFails(r) \/ EnqueueBatch(r) \/ AwaitWrite(r)
         \/ Drained(r)
  PROVE  ClientOK(r)' /\ TaskOK(r)' /\ RowOK(r)'
<1> USE DEF webview, registry, capture, bounds, history
<1>0. /\ TypeOK /\ ClientOK(r) /\ TaskOK(r) /\ RowOK(r)
      /\ enqueued[r] \in Nat /\ received[r] \in Nat /\ awaited[r] \in Nat
  BY DEF IInv, ClientsOK, TasksOK, RowsOK, TypeOK
<1>1. CASE FullBatch(r)
  <2>1. /\ UNCHANGED <<client, outcome, handle, enqueued, awaited, wrote, body,
                       row, network, leaked>>
        /\ pc[r] = "reading" /\ pc'[r] = "enqueue" /\ received'[r] = received[r] + 1
    BY <1>0, <1>1 DEF FullBatch, TypeOK
  <2>2. TaskOK(r)'
    BY <1>0, <2>1 DEF TaskOK, Complete, Early, Unstarted, Working, Reading
  <2>3. ClientOK(r)' /\ RowOK(r)'
    BY <2>1, StageMoves DEF Early, Unstarted, Late
  <2> QED
    BY <2>2, <2>3
<1>2. CASE BodyEnds(r)
  <2>1. /\ UNCHANGED <<client, outcome, handle, enqueued, awaited, wrote,
                       row, network, leaked>>
        /\ pc[r] = "reading" /\ body'[r] = received'[r]
        /\ \/ pc'[r] = "drain" /\ received'[r] = received[r]
           \/ pc'[r] = "flush" /\ received'[r] = received[r] + 1
    BY <1>0, <1>2 DEF BodyEnds, TypeOK
  <2>2. TaskOK(r)'
    BY <1>0, <2>1 DEF TaskOK, Complete, Early, Unstarted, Working, Reading
  <2>3. ClientOK(r)' /\ RowOK(r)'
    BY <2>1, StageMoves DEF Early, Unstarted, Late
  <2> QED
    BY <2>2, <2>3
<1>3. CASE BodyFails(r)
  <2>1. /\ UNCHANGED <<client, outcome, handle, enqueued, received, awaited, wrote, body,
                       row, network, leaked>>
        /\ pc[r] = "reading" /\ pc'[r] = "release"
    BY <1>0, <1>3 DEF BodyFails, TypeOK
  <2>2. TaskOK(r)'
    BY <1>0, <2>1 DEF TaskOK, Complete, Early, Unstarted, Working, Reading
  <2>3. ClientOK(r)' /\ RowOK(r)'
    BY <2>1, StageMoves DEF Early, Unstarted, Late
  <2> QED
    BY <2>2, <2>3
<1>4. CASE EnqueueBatch(r)
  <2>1. /\ UNCHANGED <<client, outcome, handle, received, awaited, wrote, body,
                       row, network, leaked>>
        /\ pc[r] \in {"enqueue", "flush"} /\ enqueued'[r] = enqueued[r] + 1
        /\ pc[r] = "flush" => pc'[r] = "drain"
        /\ pc[r] = "enqueue" => pc'[r] \in {"await", "reading"}
    BY <1>0, <1>4 DEF EnqueueBatch, AfterEnqueue, TypeOK
  <2>2. TaskOK(r)'
    BY <1>0, <2>1 DEF TaskOK, Complete, Early, Unstarted, Working, Reading
  <2>3. outcome[r] = "none" /\ ClientOK(r)'
    BY <1>0, <2>1 DEF ClientOK, TypeOK
  <2>4. RowOK(r)'
    BY <1>0, <2>1, <2>3 DEF RowOK, Early, Unstarted, Late
  <2> QED
    BY <2>2, <2>3, <2>4
<1>5. CASE AwaitWrite(r)
  <2> DEFINE answer == wrote[r][awaited[r] + 1]
  <2>1. /\ UNCHANGED <<client, outcome, handle, enqueued, received, wrote, body,
                       row, network, leaked>>
        /\ pc[r] \in {"await", "drain"} /\ awaited'[r] = awaited[r] + 1
        /\ awaited[r] < enqueued[r] /\ answer # "none"
        /\ answer = "error" => pc'[r] = "release"
        /\ answer # "error" => pc'[r] = IF pc[r] = "await" THEN "reading" ELSE pc[r]
    BY <1>0, <1>5 DEF AwaitWrite, TypeOK
  <2>2. answer \in {"none", "ok", "error"}
    <3>1. wrote[r] \in [1..Batches -> {"none", "ok", "error"}] /\ enqueued[r] \in 0..Batches
      BY <1>0 DEF TypeOK
    <3>2. awaited[r] + 1 \in 1..Batches
      BY <1>0, <2>1, <3>1 DEF CaptureAssumption
    <3> QED
      BY <3>1, <3>2
  <2>3. ASSUME answer = "ok" PROVE \A k \in 1..(awaited[r] + 1) : wrote[r][k] = "ok"
    <3>1. \A k \in 1..awaited[r] : wrote[r][k] = "ok"
      BY <1>0, <2>1 DEF TaskOK, Reading
    <3>2. \A k \in 1..(awaited[r] + 1) : k = awaited[r] + 1 \/ k \in 1..awaited[r]
      BY <1>0
    <3> QED
      BY <2>3, <3>1, <3>2
  <2> HIDE DEF answer
  <2>4. TaskOK(r)'
    <3>1. CASE answer = "error"
      BY <1>0, <2>1, <3>1 DEF TaskOK, Complete, Early, Unstarted, Working, Reading
    <3>2. CASE answer = "ok"
      BY <1>0, <2>1, <2>3, <3>2 DEF TaskOK, Complete, Early, Unstarted, Working, Reading
    <3> QED
      BY <2>1, <2>2, <3>1, <3>2
  <2>5. ClientOK(r)' /\ RowOK(r)'
    BY <2>1, <2>2, StageMoves DEF Early, Unstarted, Late
  <2> QED
    BY <2>4, <2>5
<1>6. CASE Drained(r)
  <2>1. /\ UNCHANGED <<client, outcome, handle, enqueued, received, awaited, wrote, body,
                       row, network, leaked>>
        /\ pc[r] = "drain" /\ pc'[r] = "finish" /\ awaited[r] = enqueued[r]
    BY <1>0, <1>6 DEF Drained, TypeOK
  <2>2. Complete(r)
    BY <1>0, <2>1 DEF TaskOK, Complete, Reading
  <2>3. TaskOK(r)'
    BY <1>0, <2>1, <2>2 DEF TaskOK, Complete, Early, Unstarted, Working, Reading
  <2>4. ClientOK(r)' /\ RowOK(r)'
    BY <2>1, StageMoves DEF Early, Unstarted, Late
  <2> QED
    BY <2>3, <2>4
<1> QED
  BY <1>1, <1>2, <1>3, <1>4, <1>5, <1>6

\* A cancelled task turns away, a finished one returns.
LEMMA ClosingSteps ==
  ASSUME CaptureAssumption, IInv, NEW r \in Requests, Cancelled(r) \/ Return(r)
  PROVE  ClientOK(r)' /\ TaskOK(r)' /\ RowOK(r)'
<1> USE DEF webview, registry, capture, bounds, history
<1>0. TypeOK /\ ClientOK(r) /\ TaskOK(r) /\ RowOK(r)
  BY DEF IInv, ClientsOK, TasksOK, RowsOK
<1>1. CASE Cancelled(r)
  <2>1. /\ UNCHANGED <<client, outcome, handle, enqueued, received, awaited, wrote, body,
                       row, network, leaked>>
        /\ \/ pc[r] = "sending" /\ pc'[r] = "failed"
           \/ /\ pc[r] \in {"reading", "enqueue", "flush", "await", "drain",
                            "finish", "finishing"}
              /\ pc'[r] = "release"
    BY <1>0, <1>1 DEF Cancelled, TypeOK
  <2>2. TaskOK(r)'
    BY <1>0, <2>1 DEF TaskOK, Complete, Early, Unstarted, Working, Reading
  <2>3. ClientOK(r)' /\ RowOK(r)'
    BY <2>1, StageMoves DEF Early, Unstarted, Late
  <2> QED
    BY <2>2, <2>3
<1>2. CASE Return(r)
  <2>1. /\ UNCHANGED <<client, handle, enqueued, received, awaited, wrote, body,
                       row, network, leaked>>
        /\ pc[r] \in {"succeeded", "failed"} /\ pc'[r] = "returned"
        /\ outcome'[r] = IF pc[r] = "succeeded" THEN "ok" ELSE "error"
    BY <1>0, <1>2 DEF Return, TypeOK
  <2>2. outcome[r] = "none"
    BY <1>0, <2>1 DEF ClientOK, TypeOK
  <2>3. TaskOK(r)'
    BY <1>0, <2>1 DEF TaskOK, Complete, Early, Unstarted, Working, Reading
  <2>4. ClientOK(r)'
    BY <1>0, <2>1, <2>2 DEF ClientOK
  <2>5. RowOK(r)'
    BY <1>0, <2>1 DEF RowOK, Early, Unstarted, Late
  <2> QED
    BY <2>3, <2>4, <2>5
<1> QED
  BY <1>1, <1>2

-----------------------------------------------------------------------------
(* A worker's step.                                                        *)

\* What a worker's step does to the request of its job.
LEMMA WorkEffect ==
  ASSUME CaptureAssumption,
         IInv, NEW w \in Workers, Work(w), NEW job, job = Head(queue[w]),
         NEW r, r = job.request
  PROVE  /\ job \in Jobs /\ r \in Requests /\ JobOK(w, 1) /\ queue[w][1] = job
         /\ job.kind = "append" => job.batch \in 1..Batches
         /\ UNCHANGED <<client, handle, received, enqueued, awaited, outcome, body>>
         /\ leaked \subseteq leaked'
         /\ \A q \in Requests : q # r =>
               /\ pc'[q] = pc[q] /\ wrote'[q] = wrote[q]
               /\ q \in network' <=> q \in network
               /\ row'[q] = row[q] \/ (row[q].state # "adopted" /\ row'[q] = NoRow)
         /\ \E fault \in BOOLEAN, ok \in BOOLEAN :
               /\ ok = (~fault /\ Succeeds(w, job, row))
               /\ fault => job.kind # "ensure" /\ row' = row
               /\ ~fault => row' = Applied(w, job, row)
               /\ fault /\ job.kind = "release" => r \in leaked'
               /\ r \in network' => \/ r \in network
                                    \/ job.kind = "ensure" /\ ok /\ pc[r] = "ensuring"
               /\ \/ /\ job.kind = "append" /\ pc'[r] = pc[r]
                     /\ wrote'[r][job.batch] = IF ok THEN "ok" ELSE "error"
                     /\ \A j \in 1..Batches : j # job.batch => wrote'[r][j] = wrote[r][j]
                  \/ job.kind = "drop" /\ UNCHANGED <<wrote, pc>>
                  \/ /\ job.kind \in {"ensure", "create", "finish", "release"}
                     /\ UNCHANGED wrote
                     /\ Answer(r, job.kind, ok)
<1>1. TypeOK
  BY DEF IInv
<1>2. /\ job \in Jobs /\ job = queue[w][1] /\ Len(queue[w]) \in Nat /\ Len(queue[w]) >= 1
  BY <1>1, Taken
<1>3. r \in Requests
  BY <1>2 DEF Jobs
<1>4. JobOK(w, 1)
  BY <1>2 DEF IInv, JobsOK
<1>5. job.kind = "append" => job.batch \in 1..Batches
  <2>1. job.kind = "append" => job.batch \in 1..enqueued[r]
    BY <1>2, <1>4 DEF JobOK
  <2>2. enqueued[r] \in 0..Batches
    BY <1>1, <1>3 DEF TypeOK
  <2> QED
    BY <2>1, <2>2 DEF CaptureAssumption
<1>6. UNCHANGED <<client, handle, received, enqueued, awaited, outcome, body>>
  BY DEF Work, webview, capture
<1>7. PICK fault \in BOOLEAN, ok \in BOOLEAN :
             /\ ok = (~fault /\ Succeeds(w, job, row))
             /\ fault => job.kind # "ensure"
             /\ row' = (IF fault THEN row ELSE Applied(w, job, row))
             /\ leaked' = (IF fault /\ job.kind = "release" THEN leaked \cup {r} ELSE leaked)
             /\ network' = (IF job.kind = "ensure" /\ ok /\ pc[r] = "ensuring"
                            THEN network \cup {r} ELSE network)
             /\ \/ /\ job.kind = "append" /\ UNCHANGED pc
                   /\ wrote' = [wrote EXCEPT ![r][job.batch] = IF ok THEN "ok" ELSE "error"]
                \/ job.kind = "drop" /\ UNCHANGED <<wrote, pc>>
                \/ /\ job.kind \in {"ensure", "create", "finish", "release"}
                   /\ Answer(r, job.kind, ok) /\ UNCHANGED wrote
  BY <1>1, Worked, ZenonT(30)
<1>8. ASSUME NEW q \in Requests, q # r
      PROVE  /\ pc'[q] = pc[q] /\ wrote'[q] = wrote[q]
             /\ q \in network' <=> q \in network
             /\ row'[q] = row[q] \/ (row[q].state # "adopted" /\ row'[q] = NoRow)
  <2>1. row'[q] = row[q] \/ (row[q].state # "adopted" /\ row'[q] = NoRow)
    <3>1. job.kind = "append" => job.batch # 0
      BY <1>5
    <3>2. \/ Applied(w, job, row)[q] = row[q]
          \/ row[q].state # "adopted" /\ Applied(w, job, row)[q] = NoRow
      BY <1>1, <1>2, <1>8, <3>1, AppliedRows
    <3> QED
      BY <1>7, <3>2
  <2>2. pc'[q] = pc[q]
    BY <1>1, <1>3, <1>7, <1>8, Answered
  <2>3. wrote'[q] = wrote[q]
    <3>1. CASE UNCHANGED wrote
      BY <3>1
    <3>2. CASE job.kind = "append"
               /\ wrote' = [wrote EXCEPT ![r][job.batch] = IF ok THEN "ok" ELSE "error"]
      BY <1>1, <1>3, <1>5, <1>8, <3>2, Written
    <3> QED
      BY <1>7, <3>1, <3>2
  <2> QED
    BY <1>7, <1>8, <2>1, <2>2, <2>3
<1>9. \/ /\ job.kind = "append" /\ pc'[r] = pc[r]
         /\ wrote'[r][job.batch] = IF ok THEN "ok" ELSE "error"
         /\ \A j \in 1..Batches : j # job.batch => wrote'[r][j] = wrote[r][j]
      \/ job.kind = "drop" /\ UNCHANGED <<wrote, pc>>
      \/ /\ job.kind \in {"ensure", "create", "finish", "release"}
         /\ UNCHANGED wrote
         /\ Answer(r, job.kind, ok)
  <2>1. CASE /\ job.kind = "append" /\ UNCHANGED pc
             /\ wrote' = [wrote EXCEPT ![r][job.batch] = IF ok THEN "ok" ELSE "error"]
    <3> DEFINE answer == IF ok THEN "ok" ELSE "error"
               k == job.batch
    <3>1. answer \in {"ok", "error"} /\ wrote' = [wrote EXCEPT ![r][k] = answer]
            /\ k \in 1..Batches
      BY <1>5, <2>1
    <3> HIDE DEF answer, k
    <3>2. /\ wrote'[r][k] = answer
          /\ \A j \in 1..Batches : j # k => wrote'[r][j] = wrote[r][j]
      <4>1. wrote \in [Requests -> [1..Batches -> {"none", "ok", "error"}]]
        BY <1>1 DEF TypeOK
      <4> QED
        BY <1>3, <3>1, <4>1
    <3> QED
      BY <2>1, <3>2 DEF answer, k
  <2> QED
    BY <1>7, <2>1
<1>10. leaked \subseteq leaked' /\ (fault /\ job.kind = "release" => r \in leaked')
  BY <1>7
<1>11. r \in network' => r \in network \/ (job.kind = "ensure" /\ ok /\ pc[r] = "ensuring")
  BY <1>7
<1> QED
  BY <1>2, <1>3, <1>4, <1>5, <1>6, <1>7, <1>8, <1>9, <1>10, <1>11

\* The requests of other jobs.
LEMMA WorkOthers ==
  ASSUME CaptureAssumption,
         IInv, NEW w \in Workers, Work(w), NEW q \in Requests, q # Head(queue[w]).request
  PROVE  ClientOK(q)' /\ TaskOK(q)' /\ RowOK(q)'
<1> DEFINE job == Head(queue[w])
           r == job.request
<1>0. job = Head(queue[w]) /\ r = job.request /\ q # r
  OBVIOUS
<1> HIDE DEF job, r
<1>1. /\ UNCHANGED <<client, handle, received, enqueued, awaited, outcome, body>>
      /\ leaked \subseteq leaked'
      /\ pc'[q] = pc[q] /\ wrote'[q] = wrote[q]
      /\ q \in network' <=> q \in network
      /\ row'[q] = row[q] \/ (row[q].state # "adopted" /\ row'[q] = NoRow)
  BY <1>0, WorkEffect
<1> QED
  BY <1>1, Bystander

\* The request of the job.
LEMMA WorkSelf ==
  ASSUME CaptureAssumption,
         IInv, NEW w \in Workers, Work(w), NEW job, job = Head(queue[w]),
         NEW r, r = job.request
  PROVE  ClientOK(r)' /\ TaskOK(r)' /\ RowOK(r)'
<1>1. /\ job \in Jobs /\ r \in Requests /\ JobOK(w, 1) /\ queue[w][1] = job
      /\ job.kind = "append" => job.batch \in 1..Batches
      /\ UNCHANGED <<client, handle, received, enqueued, awaited, outcome, body>>
      /\ leaked \subseteq leaked'
  BY WorkEffect
<1>2. PICK fault \in BOOLEAN, ok \in BOOLEAN :
               /\ ok = (~fault /\ Succeeds(w, job, row))
               /\ fault => job.kind # "ensure" /\ row' = row
               /\ ~fault => row' = Applied(w, job, row)
               /\ fault /\ job.kind = "release" => r \in leaked'
               /\ r \in network' => \/ r \in network
                                    \/ job.kind = "ensure" /\ ok /\ pc[r] = "ensuring"
               /\ \/ /\ job.kind = "append" /\ pc'[r] = pc[r]
                     /\ wrote'[r][job.batch] = IF ok THEN "ok" ELSE "error"
                     /\ \A j \in 1..Batches : j # job.batch => wrote'[r][j] = wrote[r][j]
                  \/ job.kind = "drop" /\ UNCHANGED <<wrote, pc>>
                  \/ /\ job.kind \in {"ensure", "create", "finish", "release"}
                     /\ UNCHANGED wrote
                     /\ Answer(r, job.kind, ok)
  BY WorkEffect
<1>3. /\ TypeOK /\ ClientOK(r) /\ TaskOK(r) /\ RowOK(r) /\ row[r] \in Content
      /\ row \in [Requests -> Content] /\ enqueued[r] \in 0..Batches /\ awaited[r] \in 0..Batches
      /\ wrote[r] \in [1..Batches -> {"none", "ok", "error"}]
      /\ client[r] \in {"idle", "waiting", "holding", "recorded", "deleted", "done"}
  BY <1>1 DEF IInv, ClientsOK, TasksOK, RowsOK, TypeOK
<1>4. /\ job.kind # "drop" => w = handle[r] /\ pc[r] \notin Unstarted
      /\ job.kind = "create" => pc[r] = "creating"
      /\ job.kind = "append" =>
            /\ job.batch \in 1..enqueued[r]
            /\ wrote[r][job.batch] = "none"
            /\ \A k \in 1..Batches : k < job.batch => wrote[r][k] # "none"
      /\ job.kind = "finish" => pc[r] \in Late /\ Complete(r)
  BY <1>1 DEF JobOK
<1>5. r \in Encrypted /\ CanProtect(w, r) => w = "keyed"
  BY DEF CanProtect
<1>6. CASE job.kind = "ensure"
  <2>1. UNCHANGED <<row, wrote>>
    BY <1>2, <1>6 DEF Applied
  <2>2. /\ pc[r] # "ensuring" => pc'[r] = pc[r]
        /\ pc[r] = "ensuring" => pc'[r] \in {"sending", "failed"}
    <3>1. Answer(r, "ensure", ok) /\ Waiting("ensure") = "ensuring"
      BY <1>2, <1>6 DEF Waiting
    <3> QED
      BY <1>1, <1>3, <3>1, Answered
  <2>3. r \in network' => \/ r \in network
                          \/ pc[r] = "ensuring" /\ (r \in Encrypted => handle[r] = "keyed")
    BY <1>2, <1>4, <1>5, <1>6 DEF Succeeds
  <2>4. ClientOK(r)'
    BY <1>1, <1>3, <2>2 DEF ClientOK
  <2>5. TaskOK(r)'
    BY <1>1, <1>3, <2>1, <2>2 DEF TaskOK, Complete, Early, Unstarted, Working, Reading
  <2>6. RowOK(r)'
    <3>1. CASE pc[r] = "ensuring"
      <4>1. row[r].state = "absent"
        BY <1>3, <3>1 DEF RowOK, Early
      <4> QED
        BY <1>1, <1>3, <2>1, <2>2, <2>3, <3>1, <4>1 DEF RowOK, Unstarted
    <3>2. CASE pc[r] # "ensuring"
      BY <1>1, <1>3, <2>1, <2>2, <2>3, <3>2 DEF RowOK
    <3> QED
      BY <3>1, <3>2
  <2> QED
    BY <2>4, <2>5, <2>6
<1>7. CASE job.kind = "create"
  <2>1. /\ pc[r] = "creating" /\ UNCHANGED wrote /\ row[r].state = "absent"
        /\ r \in network' => r \in network
        /\ enqueued[r] = 0 /\ outcome[r] = "none" /\ w = handle[r]
    <3>1. pc[r] = "creating" /\ UNCHANGED wrote /\ w = handle[r]
            /\ (r \in network' => r \in network)
      BY <1>2, <1>4, <1>7
    <3>2. row[r].state = "absent" /\ enqueued[r] = 0
      BY <1>3, <3>1 DEF RowOK, TaskOK, Early
    <3>3. outcome[r] = "none"
      BY <1>3, <3>1 DEF ClientOK
    <3> QED
      BY <3>1, <3>2, <3>3
  <2>2. (ok => pc'[r] = "reading") /\ (~ok => pc'[r] = "failed")
    <3>1. Answer(r, "create", ok)
      BY <1>2, <1>7
    <3>2. pc[r] = Waiting("create")
      BY <2>1 DEF Waiting
    <3>3. pc'[r] = IF ok THEN "reading" ELSE "failed"
      BY <1>1, <1>3, <3>1, <3>2, Answered
    <3> QED
      BY <3>3
  <2>3. \/ ~ok /\ row'[r] = row[r]
        \/ /\ ok /\ row'[r] = [NoRow EXCEPT !.state = "staging"]
           /\ CanProtect(w, r)
    <3>1. CASE fault
      BY <1>2, <3>1
    <3>2. CASE ~fault /\ ~CanProtect(w, r)
      BY <1>1, <1>2, <1>7, <3>2 DEF Applied, Succeeds
    <3>3. CASE ~fault /\ CanProtect(w, r)
      <4>1. row' = [Cleaned(row) EXCEPT ![r] = [NoRow EXCEPT !.state = "staging"]]
        BY <1>1, <1>2, <1>7, <3>3 DEF Applied
      <4>2. Cleaned(row) = [q \in Requests |-> Cleaned(row)[q]]
        BY DEF Cleaned
      <4>3. row'[r] = [NoRow EXCEPT !.state = "staging"]
        BY <1>1, <4>1, <4>2
      <4> QED
        BY <1>2, <1>7, <3>3, <4>3 DEF Succeeds
    <3> QED
      BY <3>1, <3>2, <3>3
  <2>4. ClientOK(r)'
    BY <1>1, <1>3, <2>1, <2>2 DEF ClientOK
  <2>5. TaskOK(r)'
    <3>1. pc'[r] \in {"reading", "failed"}
      BY <2>2
    <3>2. received[r] = enqueued[r] /\ body[r] = NotEnded /\ awaited[r] = 0
            /\ handle[r] \in Workers
      <4>1. /\ received[r] = enqueued[r] /\ body[r] = NotEnded /\ handle[r] \in Workers
            /\ awaited[r] <= enqueued[r]
        BY <1>3, <2>1 DEF TaskOK, Early, Working
      <4>2. awaited[r] \in Nat
        BY <1>3 DEF CaptureAssumption
      <4>3. enqueued[r] = 0
        BY <2>1
      <4>4. awaited[r] = 0
        BY <4>1, <4>2, <4>3
      <4> QED
        BY <4>1, <4>4
    <3>3. \A k \in 1..awaited[r] : FALSE
      BY <3>2
    <3>4. /\ awaited[r] <= enqueued[r]
          /\ \A k \in 1..Batches : wrote[r][k] # "none" => k <= enqueued[r]
      BY <1>3 DEF TaskOK
    <3> QED
      BY <1>1, <2>1, <3>1, <3>2, <3>3, <3>4 DEF TaskOK, Early, Unstarted, Working, Reading
  <2>6. RowOK(r)'
    <3>1. CASE ~ok
      BY <1>1, <1>3, <2>1, <2>2, <2>3, <3>1 DEF RowOK, Unstarted
    <3>2. CASE ok
      <4>1. row'[r].state = "staging" /\ row'[r].batches = <<>>
        BY <2>3, <3>2 DEF NoRow
      <4>2. Exact(0) = <<>> /\ Len(<<>>) = 0
        BY DEF Exact
      <4>3. \A k \in 1..Batches : wrote[r][k] = "none"
        <5>1. \A k \in 1..Batches : wrote[r][k] # "none" => k <= 0
          BY <1>3, <2>1 DEF TaskOK
        <5> QED
          BY <5>1
      <4>4. \A k \in 1..Batches : ~(k <= 0)
        OBVIOUS
      <4>5. client[r] # "recorded"
        BY <1>3, <2>1 DEF ClientOK
      <4>6. r \in Encrypted => handle[r] = "keyed"
        BY <1>5, <2>1, <2>3, <3>2
      <4> QED
        BY <1>1, <1>3, <2>1, <2>2, <3>2, <4>1, <4>2, <4>3, <4>4, <4>5, <4>6
           DEF RowOK, Early, Unstarted
    <3> QED
      BY <3>1, <3>2
  <2> QED
    BY <2>4, <2>5, <2>6
<1>8. CASE job.kind = "append"
  <2> DEFINE n == job.batch
  <2>1. /\ pc'[r] = pc[r] /\ wrote'[r][n] = IF ok THEN "ok" ELSE "error"
        /\ \A j \in 1..Batches : j # n => wrote'[r][j] = wrote[r][j]
        /\ r \in network' => r \in network
        /\ n \in 1..Batches /\ n \in Nat /\ n <= enqueued[r] /\ wrote[r][n] = "none"
        /\ \A k \in 1..Batches : k < n => wrote[r][k] # "none"
    <3>1. /\ pc'[r] = pc[r] /\ wrote'[r][n] = IF ok THEN "ok" ELSE "error"
          /\ \A j \in 1..Batches : j # n => wrote'[r][j] = wrote[r][j]
      BY <1>2, <1>8
    <3>2. r \in network' => r \in network
      BY <1>2, <1>8
    <3>3. n \in 1..Batches /\ n \in 1..enqueued[r]
      BY <1>1, <1>4, <1>8
    <3>4. n \in Nat /\ n <= enqueued[r]
      BY <3>3
    <3> QED
      BY <1>4, <1>8, <3>1, <3>2, <3>3, <3>4
  <2>2. \/ ok /\ row[r].state = "staging" /\ CanProtect(w, r)
           /\ row'[r] = [row[r] EXCEPT !.batches = Append(row[r].batches, n)]
        \/ ~ok /\ row'[r] = row[r]
    <3>1. CASE ok
      <4>1. row[r].state = "staging" /\ CanProtect(w, r) /\ row' = Applied(w, job, row)
        BY <1>1, <1>2, <1>8, <3>1 DEF Succeeds
      <4>2. row' = [row EXCEPT ![r] = [row[r] EXCEPT !.batches = Append(row[r].batches, n)]]
        BY <1>1, <1>8, <4>1 DEF Applied
      <4> QED
        BY <1>1, <1>3, <3>1, <4>1, <4>2
    <3>2. CASE ~ok
      BY <1>1, <1>2, <1>8, <3>2 DEF Applied, Succeeds
    <3> QED
      BY <3>1, <3>2
  <2> HIDE DEF n
  <2>3. ClientOK(r)'
    BY <1>1, <1>3, <2>1 DEF ClientOK
  <2>4. TaskOK(r)'
    <3>6. \A k \in 1..Batches : wrote[r][k] # "none" => k <= enqueued[r]
      BY <1>3 DEF TaskOK
    <3>1. \A k \in 1..Batches : wrote'[r][k] # "none" => k <= enqueued[r]
      <4>1. SUFFICES ASSUME NEW k \in 1..Batches, wrote'[r][k] # "none"
                     PROVE  k <= enqueued[r]
        OBVIOUS
      <4>2. k = n \/ wrote'[r][k] = wrote[r][k]
        BY <2>1
      <4>3. n <= enqueued[r]
        BY <2>1
      <4> QED
        BY <3>6, <4>1, <4>2, <4>3
    <3>2. \A k \in 1..Batches : wrote[r][k] = "ok" => wrote'[r][k] = "ok"
      BY <2>1
    <3>5. /\ \A k \in 1..awaited[r] : k \in 1..Batches
          /\ \A k \in 1..enqueued[r] : k \in 1..Batches
      BY <1>3 DEF CaptureAssumption
    <3>3. pc[r] \in Reading => \A k \in 1..awaited[r] : wrote'[r][k] = "ok"
      BY <1>3, <3>2, <3>5 DEF TaskOK
    <3>4. Complete(r) => Complete(r)'
      BY <1>1, <1>3, <3>2, <3>5 DEF Complete
    <3> QED
      BY <1>1, <1>3, <2>1, <3>1, <3>3, <3>4 DEF TaskOK
  <2>5. RowOK(r)'
    <3>1. CASE ~ok
      <4>1. row'[r] = row[r] /\ wrote'[r][n] = "error"
        BY <2>1, <2>2, <3>1
      <4> QED
        BY <1>1, <1>3, <2>1, <4>1 DEF RowOK
    <3>2. CASE ok
      <4> DEFINE b == Append(row[r].batches, n)
      <4>1. /\ row'[r].state = "staging" /\ row[r].state = "staging"
            /\ row'[r].batches = b
            /\ r \in Encrypted => w = "keyed"
        BY <1>3, <1>5, <2>2, <3>2 DEF Content
      <4>2. ASSUME \A k \in 1..Batches : wrote'[r][k] # "error"
            PROVE  /\ b = Exact(Len(b))
                   /\ \A k \in 1..Batches : wrote'[r][k] = "ok" <=> k <= Len(b)
        <5> DEFINE m == Len(row[r].batches)
        <5>1. \A k \in 1..Batches : wrote[r][k] # "error"
          BY <2>1, <4>2
        <5>2. /\ row[r].batches = Exact(m)
              /\ \A k \in 1..Batches : wrote[r][k] = "ok" <=> k <= m
          BY <1>3, <4>1, <5>1 DEF RowOK
        <5>3. m \in Nat /\ Len(b) = m + 1
          BY <1>3 DEF Content
        <5>4. n = m + 1
          <6>1. ~(n <= m)
            BY <2>1, <5>2
          <6>2. \A k \in 1..Batches : k < n => k <= m
            <7>1. \A k \in 1..Batches : wrote[r][k] \in {"none", "ok", "error"}
              BY <1>3
            <7> QED
              BY <2>1, <5>1, <5>2, <7>1
          <6>4. m \in Nat
            BY <5>3
          <6> HIDE DEF m
          <6>3. m + 1 < n => m + 1 \in 1..Batches
            BY <2>1, <6>4 DEF CaptureAssumption
          <6> QED
            BY <2>1, <5>3, <6>1, <6>2, <6>3
        <5>5. b = Exact(m + 1)
          <6>1. b = Append(Exact(m), m + 1)
            BY <5>2, <5>4
          <6>2. m \in Nat
            BY <5>3
          <6> HIDE DEF m, b
          <6>3. Append(Exact(m), m + 1) = Exact(m + 1)
            BY <6>2 DEF Exact
          <6> QED
            BY <6>1, <6>3
        <5>6. \A k \in 1..Batches : wrote'[r][k] = "ok" <=> k <= m + 1
          <6>1. wrote'[r][n] = "ok"
            BY <2>1, <3>2
          <6>2. \A k \in 1..Batches : k # n => (wrote'[r][k] = "ok" <=> k <= m)
            BY <2>1, <5>2
          <6>3. m \in Nat /\ n = m + 1
            BY <5>3, <5>4
          <6> HIDE DEF m
          <6>4. \A k \in 1..Batches : k # n => (k <= m <=> k <= m + 1)
            BY <6>3
          <6> QED
            BY <6>1, <6>2, <6>3, <6>4
        <5> HIDE DEF m, b
        <5> QED
          BY <5>3, <5>5, <5>6
      <4> HIDE DEF b
      <4>3. client[r] # "recorded" /\ pc[r] \notin Early
        BY <1>3, <4>1 DEF RowOK
      <4>4. pc[r] = "failed" \/ outcome[r] = "error" => r \in leaked
        BY <1>3, <4>1 DEF RowOK
      <4>5. r \in Encrypted => handle[r] = "keyed"
        BY <1>4, <1>8, <4>1
      <4>6. r \in network => pc[r] \notin Unstarted
        BY <1>3 DEF RowOK
      <4> QED
        BY <1>1, <2>1, <4>1, <4>2, <4>3, <4>4, <4>5, <4>6 DEF RowOK
    <3> QED
      BY <3>1, <3>2
  <2> QED
    BY <2>3, <2>4, <2>5
<1>9. CASE job.kind = "finish"
  <2>1. UNCHANGED wrote /\ pc[r] \in Late /\ Complete(r) /\ (r \in network' => r \in network)
    BY <1>2, <1>4, <1>9
  <2>2. /\ pc[r] # "finishing" => pc'[r] = pc[r]
        /\ pc[r] = "finishing" => pc'[r] \in {"succeeded", "release"}
    <3>1. Answer(r, "finish", ok) /\ Waiting("finish") = "finishing"
      BY <1>2, <1>9 DEF Waiting
    <3> QED
      BY <1>1, <1>3, <3>1, Answered
  <2>3. ClientOK(r)'
    BY <1>1, <1>3, <2>2 DEF ClientOK
  <2>4. TaskOK(r)'
    BY <1>1, <1>3, <2>1, <2>2 DEF TaskOK, Complete, Early, Unstarted, Working, Reading
  <2>5. CASE row'[r] = row[r]
    <3>1. RowOK(r)'
      BY <1>1, <1>3, <2>1, <2>2, <2>5 DEF RowOK, Early, Unstarted, Late
    <3> QED
      BY <2>3, <2>4, <3>1
  <2>6. CASE row'[r] # row[r]
    <3>1. /\ row[r].state = "staging"
          /\ row'[r] = [row[r] EXCEPT !.state = "ready"]
      <4>1. ~fault /\ row' = Applied(w, job, row)
        BY <1>2, <2>6
      <4>2. row[r].state = "staging"
        BY <1>1, <1>9, <2>6, <4>1 DEF Applied
      <4>3. row' = [row EXCEPT ![r] = [row[r] EXCEPT !.state = "ready"]]
        BY <1>1, <1>9, <4>1, <4>2 DEF Applied
      <4> QED
        BY <1>1, <1>3, <4>2, <4>3
    <3>2. row'[r].state = "ready" /\ row'[r].batches = row[r].batches
      BY <1>3, <3>1 DEF Content
    <3>3. row[r].batches = Exact(body[r])
      <4> DEFINE m == Len(row[r].batches)
                 n == enqueued[r]
      <4>1. n \in Nat /\ n <= Batches /\ m \in Nat
        BY <1>3 DEF CaptureAssumption, Content
      <4>2. \A k \in 1..Batches : wrote[r][k] = IF k <= n THEN "ok" ELSE "none"
        <5>1. \A k \in 1..n : wrote[r][k] = "ok"
          BY <2>1 DEF Complete
        <5>2. \A k \in 1..Batches : wrote[r][k] # "none" => k <= n
          BY <1>3 DEF TaskOK
        <5>3. \A k \in 1..Batches : k <= n => k \in 1..n
          BY <4>1
        <5> QED
          BY <5>1, <5>2, <5>3
      <4>3. /\ row[r].batches = Exact(m)
            /\ \A k \in 1..Batches : wrote[r][k] = "ok" <=> k <= m
        <5>1. \A k \in 1..Batches : wrote[r][k] # "error"
          BY <4>2
        <5> QED
          BY <1>3, <3>1, <5>1 DEF RowOK
      <4>4. m <= Batches
        <5>1. CASE m = 0
          BY <4>1, <5>1 DEF CaptureAssumption
        <5>2. CASE m # 0
          <6>1. m \in 1..m /\ Exact(m)[m] = m
            BY <4>1, <5>2 DEF Exact
          <6>2. row[r].batches[m] \in 1..Batches
            <7> DEFINE written == row[r].batches
            <7>1. written \in Seq(1..Batches) /\ m = Len(written)
              BY <1>3 DEF Content
            <7> HIDE DEF written, m
            <7> QED
              <8>1. ASSUME NEW S, NEW s \in Seq(S), NEW k \in 1..Len(s) PROVE s[k] \in S
                OBVIOUS
              <8>2. m \in 1..Len(written)
                BY <6>1, <7>1
              <8>3. written[m] \in 1..Batches
                BY <7>1, <8>1, <8>2
              <8> QED
                BY <8>3 DEF written
          <6>3. m \in 1..Batches
            BY <4>3, <6>1, <6>2
          <6> HIDE DEF m
          <6> QED
            BY <6>3
        <5> QED
          BY <5>1, <5>2
      <4> HIDE DEF m, n
      <4>5. m = n
        <5>1. \A k \in 1..Batches : k <= n <=> k <= m
          BY <4>2, <4>3
        <5>2. n < m => n + 1 \in 1..Batches
          BY <4>1, <4>4 DEF CaptureAssumption
        <5>3. m < n => m + 1 \in 1..Batches
          BY <4>1 DEF CaptureAssumption
        <5> QED
          BY <4>1, <5>1, <5>2, <5>3
      <4> QED
        BY <2>1, <4>3, <4>5 DEF Complete, n
    <3>4. client[r] # "recorded" /\ pc'[r] \in Late
      BY <1>3, <2>1, <2>2, <3>1 DEF RowOK, Late
    <3>5. RowOK(r)'
      BY <1>1, <1>3, <2>1, <2>2, <3>1, <3>2, <3>3, <3>4 DEF RowOK, Early, Unstarted, Late
    <3> QED
      BY <2>3, <2>4, <3>5
  <2> QED
    BY <2>5, <2>6
<1>10. CASE job.kind \in {"release", "drop"}
  <2>1. /\ UNCHANGED wrote /\ (r \in network' => r \in network)
        /\ pc'[r] = pc[r] \/ (pc[r] = "releasing" /\ pc'[r] = "failed" /\ job.kind = "release")
    <3>1. CASE job.kind = "drop"
      BY <1>2, <3>1
    <3>2. CASE job.kind = "release"
      <4>1. /\ pc[r] # "releasing" => pc'[r] = pc[r]
            /\ pc[r] = "releasing" => pc'[r] = "failed"
        <5>1. Answer(r, "release", ok) /\ Waiting("release") = "releasing"
          BY <1>2, <3>2 DEF Waiting
        <5> QED
          BY <1>1, <1>3, <5>1, Answered
      <4>2. UNCHANGED wrote
        BY <1>2, <3>2
      <4>3. r \in network' => r \in network
        BY <1>2, <3>2
      <4> QED
        BY <3>2, <4>1, <4>2, <4>3
    <3> QED
      BY <1>10, <3>1, <3>2
  <2>2. \/ row'[r] = row[r]
        \/ row[r].state # "adopted" /\ row'[r] = NoRow
    <3>1. CASE fault
      BY <1>2, <3>1
    <3>2. CASE ~fault
      <4>1. row' \in {row, [row EXCEPT ![r] = NoRow]}
            /\ (row' # row => row[r].state # "adopted")
        BY <1>1, <1>2, <1>10, <3>2 DEF Applied
      <4> QED
        BY <1>1, <1>3, <4>1
    <3> QED
      BY <3>1, <3>2
  <2>3. pc'[r] = pc[r] \/ (client[r] # "recorded" /\ outcome[r] = "none" /\ pc'[r] = "failed"
           /\ pc[r] = "releasing" /\ (r \in leaked' \/ row'[r].state = "absent"))
    <3>1. CASE pc'[r] = pc[r]
      BY <3>1
    <3>2. CASE pc'[r] # pc[r]
      <4>1. pc[r] = "releasing" /\ pc'[r] = "failed" /\ job.kind = "release"
        BY <2>1, <3>2
      <4>2. outcome[r] = "none" /\ client[r] # "recorded"
        BY <1>3, <4>1 DEF ClientOK
      <4>3. row[r].state # "adopted"
        BY <1>3, <4>2 DEF RowOK
      <4>4. CASE fault
        BY <1>2, <4>1, <4>2, <4>4
      <4>5. CASE ~fault
        <5>1. row' = [row EXCEPT ![r] = NoRow]
          BY <1>1, <1>2, <4>1, <4>3, <4>5 DEF Applied
        <5>2. row'[r].state = "absent"
          BY <1>1, <1>3, <5>1 DEF NoRow
        <5> QED
          BY <4>1, <4>2, <5>2
      <4> QED
        BY <4>4, <4>5
    <3> QED
      BY <3>1, <3>2
  <2>4. ClientOK(r)'
    BY <1>1, <1>3, <2>3 DEF ClientOK
  <2>5. TaskOK(r)'
    BY <1>1, <1>3, <2>1, <2>3 DEF TaskOK, Complete, Early, Unstarted, Working, Reading
  <2>6. RowOK(r)'
    <3>1. CASE pc'[r] = pc[r] /\ row'[r] = row[r]
      BY <1>1, <1>3, <2>1, <3>1 DEF RowOK
    <3>2. CASE pc'[r] = pc[r] /\ row[r].state # "adopted" /\ row'[r] = NoRow
      <4>1. row'[r].state = "absent" /\ client[r] # "recorded"
        BY <1>3, <3>2 DEF RowOK, NoRow
      <4> QED
        BY <1>1, <1>3, <2>1, <3>2, <4>1 DEF RowOK
    <3>3. CASE pc'[r] # pc[r] /\ row'[r] = row[r]
      BY <1>1, <1>3, <2>1, <2>3, <3>3 DEF RowOK, Early, Unstarted, Late
    <3>4. CASE pc'[r] # pc[r] /\ row'[r] = NoRow
      <4>1. row'[r].state = "absent"
        BY <3>4 DEF NoRow
      <4> QED
        BY <1>1, <1>3, <2>1, <2>3, <3>4, <4>1 DEF RowOK, Early, Unstarted
    <3> QED
      BY <2>2, <3>1, <3>2, <3>3, <3>4
  <2> QED
    BY <2>4, <2>5, <2>6
<1>11. job.kind \in {"ensure", "create", "append", "finish", "release", "drop"}
  BY <1>1 DEF Jobs
<1> QED
  BY <1>6, <1>7, <1>8, <1>9, <1>10, <1>11

\* The end of the process and of the window, and the keys: every request.
LEMMA WorldSteps ==
  ASSUME CaptureAssumption, IInv, Unlock \/ CloseWindow \/ Crash, NEW r \in Requests
  PROVE  ClientOK(r)' /\ TaskOK(r)' /\ RowOK(r)'
<1> USE DEF webview, registry, capture, bounds, history
<1>0. TypeOK /\ ClientOK(r) /\ TaskOK(r) /\ RowOK(r)
  BY DEF IInv, ClientsOK, TasksOK, RowsOK
<1>1. UNCHANGED <<outcome, handle, enqueued, received, awaited, wrote, body, row, network,
                  leaked>>
  BY DEF Unlock, CloseWindow, Crash
<1>2. \/ client'[r] = client[r]
      \/ client[r] \notin {"idle", "recorded", "deleted"} /\ client'[r] = "done"
  BY <1>0 DEF Unlock, CloseWindow, Crash, Surviving, TypeOK
<1>3. \/ pc'[r] = pc[r]
      \/ pc[r] \notin {"idle", "returned"} /\ pc'[r] = "lost"
  BY <1>0 DEF Unlock, CloseWindow, Crash, TypeOK
<1>4. ClientOK(r)'
  BY <1>0, <1>1, <1>2, <1>3 DEF ClientOK
<1>5. TaskOK(r)'
  <2>1. CASE pc'[r] = pc[r]
    BY <1>0, <1>1, <2>1 DEF TaskOK, Complete
  <2>2. CASE pc'[r] = "lost"
    BY <1>0, <1>1, <2>2 DEF TaskOK, Complete, Early, Unstarted, Working, Reading
  <2> QED
    BY <1>3, <2>1, <2>2
<1>6. RowOK(r)'
  <2>1. client[r] = "recorded" <=> client'[r] = "recorded"
    BY <1>2
  <2>2. CASE pc'[r] = pc[r]
    BY <1>0, <1>1, <2>1, <2>2 DEF RowOK
  <2>3. CASE pc[r] \notin {"idle", "returned"} /\ pc'[r] = "lost"
    BY <1>0, <1>1, <2>1, <2>3 DEF RowOK, Early, Unstarted, Late
  <2> QED
    BY <1>3, <2>2, <2>3
<1> QED
  BY <1>4, <1>5, <1>6

-----------------------------------------------------------------------------
(* The jobs on their way.                                                  *)

\* What jobs of a request may rely on, over a step that takes no job.
Steady(r, stage, handled, sent, ended, answers) ==
    /\ pc[r] \notin Unstarted => stage \notin Unstarted /\ handled = handle[r]
    /\ pc[r] = "creating" => stage = "creating"
    /\ enqueued[r] <= sent
    /\ answers = wrote[r]
    /\ pc[r] \in Late => stage \in Late /\ sent = enqueued[r] /\ ended = body[r]

\* A job that stays where it is keeps what holds of it.
LEMMA JobStays ==
  ASSUME CaptureAssumption, IInv, NEW w \in Workers, NEW i \in 1..Len(queue[w]),
         NEW r, r = queue[w][i].request,
         Steady(r, pc'[r], handle'[r], enqueued'[r], body'[r], wrote'[r]),
         TypeOK', i \in 1..Len(queue'[w]),
         \A j \in 1..Len(queue[w]) : queue'[w][j] = queue[w][j],
         \A j \in 1..Len(queue'[w]) :
            j \in 1..Len(queue[w])
            \/ queue'[w][j] # queue[w][i] \/ queue[w][i].kind \notin {"create", "append"}
  PROVE  JobOK(w, i)'
<1> DEFINE job == queue[w][i]
<1>1. JobOK(w, i) /\ job \in Jobs /\ queue'[w][i] = job /\ TypeOK /\ r \in Requests
  <2>1. TypeOK /\ JobOK(w, i)
    BY DEF IInv, JobsOK
  <2>2. queue[w] \in Seq(Jobs)
    BY <2>1 DEF TypeOK
  <2>3. job \in Jobs
    BY <2>2
  <2> QED
    BY <2>1, <2>3 DEF Jobs
<1>2. /\ enqueued[r] \in Nat /\ enqueued'[r] \in Nat
      /\ queue[w] \in Seq(Jobs) /\ queue'[w] \in Seq(Jobs)
  BY <1>1 DEF CaptureAssumption, TypeOK
<1>3. job.kind # "drop" => w = handle'[r] /\ pc'[r] \notin Unstarted
  BY <1>1 DEF JobOK, Steady
<1>4. job.kind = "create" => pc'[r] = "creating" /\ job.batch = 0
  BY <1>1 DEF JobOK, Steady
<1>5. job.kind = "append" =>
         /\ job.batch \in 1..enqueued'[r]
         /\ wrote'[r][job.batch] = "none"
         /\ \A k \in 1..Batches : k < job.batch =>
               \/ wrote'[r][k] # "none"
               \/ \E j \in 1..Len(queue'[w]) :
                     j < i /\ queue'[w][j] = Job("append", r, k)
  <2>1. SUFFICES ASSUME job.kind = "append"
                 PROVE  /\ job.batch \in 1..enqueued'[r]
                        /\ wrote'[r][job.batch] = "none"
                        /\ \A k \in 1..Batches : k < job.batch =>
                              \/ wrote'[r][k] # "none"
                              \/ \E j \in 1..Len(queue'[w]) :
                                    j < i /\ queue'[w][j] = Job("append", r, k)
    OBVIOUS
  <2>2. /\ job.batch \in 1..enqueued[r]
        /\ wrote[r][job.batch] = "none"
        /\ \A k \in 1..Batches : k < job.batch =>
              \/ wrote[r][k] # "none"
              \/ \E j \in 1..Len(queue[w]) : j < i /\ queue[w][j] = Job("append", r, k)
    BY <1>1, <2>1 DEF JobOK
  <2>3. wrote'[r] = wrote[r] /\ enqueued[r] <= enqueued'[r]
    BY DEF Steady
  <2>4. job.batch \in 1..enqueued'[r]
    BY <1>2, <2>2, <2>3
  <2>5. ASSUME NEW j \in 1..Len(queue[w]), j < i
        PROVE  j \in 1..Len(queue'[w]) /\ queue'[w][j] = queue[w][j]
    <3> DEFINE before == Len(queue[w])
               after == Len(queue'[w])
    <3>1. before \in Nat /\ after \in Nat
      BY <1>1, <1>2
    <3>2. i \in 1..after /\ j \in 1..before /\ j < i
      BY <2>5
    <3> HIDE DEF before, after
    <3>3. j \in 1..after
      BY <3>1, <3>2
    <3> QED
      BY <3>3 DEF after
  <2> QED
    BY <2>2, <2>3, <2>4, <2>5
<1>6. job.kind = "finish" => pc'[r] \in Late /\ Complete(r)'
  BY <1>1 DEF JobOK, Steady, Complete
<1>7. job.kind \in {"create", "append"} =>
         \A j \in 1..Len(queue'[w]) : j # i => queue'[w][j] # job
  BY <1>1 DEF JobOK
<1> QED
  BY <1>1, <1>3, <1>4, <1>5, <1>6, <1>7 DEF JobOK

\* No step but a worker's and the end of the process takes from a request what
\* its jobs rely on.
LEMMA SteadySteps ==
  ASSUME CaptureAssumption, IInv, NEW q \in Requests,
         \/ \E r \in Requests :
               \/ Cancel(r) \/ TombstoneAges(r) \/ Task(r) \/ Send(r) \/ Abort(r)
               \/ Receive(r) \/ LetGo(r) \/ Forget(r) \/ Record(r) \/ DeleteExecution(r)
               \/ RowExpires(r)
         \/ Unlock \/ CloseWindow
  PROVE  Steady(q, pc'[q], handle'[q], enqueued'[q], body'[q], wrote'[q])
<1> USE DEF webview, registry, capture, bounds, history
<1>0. TypeOK /\ ClientOK(q) /\ enqueued[q] \in Nat
  <2>1. TypeOK /\ ClientOK(q)
    BY DEF IInv, ClientsOK
  <2>2. enqueued \in [Requests -> 0..Batches]
    BY <2>1 DEF TypeOK
  <2> QED
    BY <2>1, <2>2 DEF CaptureAssumption
<1>1. CASE Unlock \/ CloseWindow
  <2>1. UNCHANGED <<pc, handle, enqueued, body, wrote>>
    BY <1>1 DEF Unlock, CloseWindow
  <2> QED
    BY <1>0, <2>1 DEF Steady
<1>2. ASSUME NEW r \in Requests,
             \/ Cancel(r) \/ TombstoneAges(r) \/ Abort(r) \/ Receive(r) \/ LetGo(r)
             \/ Forget(r) \/ Record(r) \/ DeleteExecution(r) \/ RowExpires(r)
      PROVE  Steady(q, pc'[q], handle'[q], enqueued'[q], body'[q], wrote'[q])
  <2>1. UNCHANGED <<pc, handle, enqueued, body, wrote>>
    BY <1>2 DEF Cancel, TombstoneAges, Abort, Receive, LetGo, Drop, Forget, Record,
       DeleteExecution, RowExpires
  <2> QED
    BY <1>0, <2>1 DEF Steady
<1>3. ASSUME NEW r \in Requests, Task(r) \/ Send(r)
      PROVE  Steady(q, pc'[q], handle'[q], enqueued'[q], body'[q], wrote'[q])
  <2>1. CASE q # r
    <3>1. /\ pc'[q] = pc[q] /\ handle'[q] = handle[q] /\ enqueued'[q] = enqueued[q]
          /\ body'[q] = body[q] /\ wrote' = wrote
      BY <1>0, <1>3, <2>1 DEF TypeOK, Task, Send, Register, Begin, Call, Headers, FullBatch,
         BodyEnds, BodyFails, EnqueueBatch, AwaitWrite, Drained, Cancelled, Return
    <3> QED
      BY <1>0, <3>1 DEF Steady
  <2>2. CASE q = r /\ (Register(r) \/ Begin(r) \/ Send(r))
    <3>1. pc[q] \in Unstarted /\ enqueued' = enqueued /\ wrote' = wrote
      BY <1>0, <1>3, <2>2 DEF ClientOK, Send, Register, Begin, Unstarted
    <3> QED
      BY <1>0, <3>1 DEF Steady, Unstarted, Late
  <2>3. CASE q = r /\ (Call(r) \/ Headers(r) \/ FullBatch(r) \/ BodyFails(r) \/ AwaitWrite(r)
                       \/ Drained(r) \/ Cancelled(r) \/ Return(r))
    <3>1. UNCHANGED <<handle, enqueued, wrote, body>>
      BY <2>3 DEF Call, Headers, FullBatch, BodyFails, AwaitWrite, Drained, Cancelled, Return
    <3>2. /\ pc[q] \notin Unstarted /\ pc[q] # "creating" /\ pc'[q] \notin Unstarted
          /\ pc[q] \in Late => pc'[q] \in Late
      <4>1. CASE Call(r)
        BY <1>0, <2>3, <4>1 DEF TypeOK, Call, Waiting, Unstarted, Late
      <4>2. CASE AwaitWrite(r)
        <5>1. pc[r] \in {"await", "drain"} /\ pc'[r] \in {"release", "reading", pc[r]}
          BY <1>0, <4>2 DEF TypeOK, AwaitWrite
        <5> QED
          BY <2>3, <5>1 DEF Unstarted, Late
      <4>3. CASE Headers(r) \/ FullBatch(r) \/ BodyFails(r) \/ Drained(r) \/ Cancelled(r)
                 \/ Return(r)
        BY <1>0, <2>3, <4>3 DEF TypeOK, Headers, FullBatch, BodyFails, Drained, Cancelled,
           Return, Unstarted, Late
      <4> QED
        BY <2>3, <4>1, <4>2, <4>3
    <3> QED
      BY <1>0, <3>1, <3>2 DEF Steady
  <2>4. CASE q = r /\ BodyEnds(r)
    <3>1. UNCHANGED <<handle, enqueued, wrote>> /\ pc[q] = "reading" /\ pc'[q] \in {"drain", "flush"}
      BY <1>0, <2>4 DEF BodyEnds, TypeOK
    <3> QED
      BY <1>0, <3>1 DEF Steady, Unstarted, Late
  <2>5. CASE q = r /\ EnqueueBatch(r)
    <3>1. /\ UNCHANGED <<handle, wrote>> /\ enqueued'[q] = enqueued[q] + 1
          /\ pc[q] \in {"enqueue", "flush"} /\ pc'[q] \in {"drain", "await", "reading"}
      BY <1>0, <2>5 DEF EnqueueBatch, AfterEnqueue, TypeOK
    <3> QED
      BY <1>0, <3>1 DEF Steady, Unstarted, Late
  <2> QED
    BY <1>3, <2>1, <2>2, <2>3, <2>4, <2>5 DEF Task
<1> QED
  BY <1>1, <1>2, <1>3

\* A step that sends no job.
LEMMA JobsKept ==
  ASSUME CaptureAssumption, IInv, TypeOK', queue' = queue,
         \A q \in Requests : Steady(q, pc'[q], handle'[q], enqueued'[q], body'[q], wrote'[q]),
         \A q \in Requests : pc'[q] \in Reading =>
            pc[q] \in Reading /\ enqueued'[q] = enqueued[q]
  PROVE  JobsOK'
<1>0. TypeOK
  BY DEF IInv
<1>1. ASSUME NEW w \in Workers, NEW i \in 1..Len(queue'[w])
      PROVE  JobOK(w, i)'
  <2> DEFINE r == queue[w][i].request
  <2>1. r \in Requests
    <3>1. queue[w] \in Seq(Jobs) /\ i \in 1..Len(queue[w])
      BY <1>0 DEF TypeOK
    <3>2. queue[w][i] \in Jobs
      BY <3>1
    <3> QED
      BY <3>2 DEF Jobs
  <2> HIDE DEF r
  <2>2. r = queue[w][i].request
    BY DEF r
  <2> QED
    BY <2>1, <2>2, JobStays
<1>2. ASSUME NEW r \in Requests
      PROVE  SentOK(r)'
  <2>1. SentOK(r) /\ pc[r] \in Reading => wrote'[r] = wrote[r] /\ handle'[r] = handle[r]
    BY DEF IInv, JobsOK, Steady, Reading, Unstarted
  <2> QED
    BY <2>1 DEF IInv, JobsOK, SentOK
<1> QED
  BY <1>1, <1>2 DEF JobsOK

\* A job at the end of a channel, after the jobs that were there.
LEMMA JobsQueued ==
  ASSUME CaptureAssumption,
         IInv, TypeOK', NEW w \in Workers, NEW job \in Jobs, NEW n, n = Len(queue[w]),
         Enqueue(w, job),
         \A q \in Requests : Steady(q, pc'[q], handle'[q], enqueued'[q], body'[q], wrote'[q]),
         job.kind \in {"create", "append"} => \A j \in 1..n : queue[w][j] # job,
         JobOK(w, n + 1)'
  PROVE  \A v \in Workers : \A i \in 1..Len(queue'[v]) : JobOK(v, i)'
<1>0. TypeOK
  BY DEF IInv
<1>1. /\ \A v \in Workers : v # w => queue'[v] = queue[v]
      /\ n \in Nat /\ Len(queue'[w]) = n + 1 /\ queue'[w][n + 1] = job
      /\ \A i \in 1..n : queue'[w][i] = queue[w][i]
  BY <1>0, Queued
<1>2. SUFFICES ASSUME NEW v \in Workers, NEW i \in 1..Len(queue'[v])
               PROVE  JobOK(v, i)'
  OBVIOUS
<1>3. ASSUME i \in 1..Len(queue[v]),
             \A j \in 1..Len(queue[v]) : queue'[v][j] = queue[v][j],
             \A j \in 1..Len(queue'[v]) :
                j \in 1..Len(queue[v])
                \/ queue'[v][j] # queue[v][i] \/ queue[v][i].kind \notin {"create", "append"}
      PROVE  JobOK(v, i)'
  <2> DEFINE r == queue[v][i].request
  <2>1. r \in Requests
    <3>1. queue[v] \in Seq(Jobs) /\ i \in 1..Len(queue[v])
      BY <1>0, <1>3 DEF TypeOK
    <3>2. queue[v][i] \in Jobs
      BY <3>1
    <3> QED
      BY <3>2 DEF Jobs
  <2>2. r = queue[v][i].request
    OBVIOUS
  <2> HIDE DEF r
  <2>3. Steady(r, pc'[r], handle'[r], enqueued'[r], body'[r], wrote'[r])
    BY <2>1
  <2> QED
    BY <1>3, <2>2, <2>3, JobStays
<1>4. CASE v # w
  <2>1. queue'[v] = queue[v]
    BY <1>1, <1>4
  <2> QED
    BY <1>3, <2>1
<1>5. CASE v = w /\ i = n + 1
  BY <1>5
<1>6. CASE v = w /\ i # n + 1
  <2>1. i \in 1..n /\ n \in Nat
    BY <1>1, <1>6
  <2>2. \A j \in 1..(n + 1) : j \in 1..n \/ j = n + 1
    BY <1>1
  <2>3. \A j \in 1..(n + 1) :
           j \in 1..n
           \/ queue'[w][j] # queue[w][i] \/ queue[w][i].kind \notin {"create", "append"}
    BY <1>1, <2>1, <2>2
  <2> QED
    BY <1>1, <1>3, <1>6, <2>1, <2>3
<1> QED
  BY <1>4, <1>5, <1>6

\* The calls that wait for their answer.
LEMMA CallJobs ==
  ASSUME CaptureAssumption, IInv, TypeOK', NEW r \in Requests, Call(r)
  PROVE  JobsOK'
<1> USE DEF webview, registry, capture, bounds, history
<1>0. TypeOK /\ TaskOK(r)
  BY DEF IInv, TasksOK
<1>12. /\ handle[r] \in Workers /\ pc[r] \in {"ensure", "create", "finish", "release"}
       /\ Job(pc[r], r, 0) \in Jobs
  <2>1. pc[r] \in {"ensure", "create", "finish", "release"}
    BY DEF Call
  <2>2. handle[r] \in Workers
    BY <1>0, <2>1 DEF TaskOK, Working
  <2> QED
    BY <2>1, <2>2 DEF CaptureAssumption, Job, Jobs
<1>13. PICK w \in Workers : w = handle[r]
  BY <1>12
<1>14. PICK n : n = Len(queue[w])
  OBVIOUS
<1>15. PICK job \in Jobs : job = Job(pc[r], r, 0)
  BY <1>12
<1>1. Enqueue(w, job) /\ pc[r] \in {"ensure", "create", "finish", "release"}
  BY <1>12, <1>13, <1>15 DEF Call
<1>2. job.kind = pc[r] /\ job.request = r /\ job.batch = 0
  BY <1>15 DEF Job
<1>3. UNCHANGED <<handle, enqueued, body, wrote>> /\ \A q \in Requests : q # r => pc'[q] = pc[q]
  BY <1>0 DEF Call, TypeOK
<1>4. /\ pc[r] = "create" => pc'[r] = "creating"
      /\ pc[r] = "finish" => pc'[r] = "finishing"
      /\ pc'[r] \in {"ensuring", "creating", "finishing", "releasing"}
  BY <1>0, <1>1 DEF Call, Waiting, TypeOK
<1>5. \A q \in Requests : Steady(q, pc'[q], handle'[q], enqueued'[q], body'[q], wrote'[q])
  BY SteadySteps DEF Task
<1>6. w = handle'[r] /\ w = handle[r] /\ n = Len(queue[w])
  BY <1>3, <1>13, <1>14
<1>7. /\ n \in Nat /\ queue'[w][n + 1] = job /\ Len(queue'[w]) = n + 1
      /\ \A j \in 1..n : queue'[w][j] = queue[w][j]
  BY <1>0, <1>1, <1>6, Queued
<1>8. job.kind = "create" => \A j \in 1..n : queue[w][j] # job
  <2>1. SUFFICES ASSUME job.kind = "create", NEW j \in 1..n, queue[w][j] = job
                 PROVE  FALSE
    OBVIOUS
  <2>2. JobOK(w, j)
    BY <1>1, <1>6 DEF IInv, JobsOK
  <2> QED
    BY <1>2, <2>1, <2>2 DEF JobOK
<1>9. JobOK(w, n + 1)'
  <2>1. pc[r] = "finish" => Complete(r)'
    BY <1>0, <1>3 DEF TaskOK, Complete
  <2>2. job.kind = "create" => \A j \in 1..Len(queue'[w]) : j # n + 1 => queue'[w][j] # job
    <3>1. \A j \in 1..(n + 1) : j # n + 1 => j \in 1..n
      BY <1>7
    <3> QED
      BY <1>7, <1>8, <3>1
  <2>3. pc'[r] \notin Unstarted /\ (job.kind = "finish" => pc'[r] \in Late)
    BY <1>2, <1>4 DEF Unstarted, Late
  <2>4. job.kind \notin {"append", "drop"}
    BY <1>1, <1>2
  <2> QED
    BY <1>2, <1>4, <1>6, <1>7, <2>1, <2>2, <2>3, <2>4 DEF JobOK
<1>10. \A v \in Workers : \A i \in 1..Len(queue'[v]) : JobOK(v, i)'
  <2>1. job.kind \in {"create", "append"} => \A j \in 1..n : queue[w][j] # job
    BY <1>1, <1>2, <1>8
  <2> QED
    BY <1>1, <1>5, <1>6, <1>9, <2>1, JobsQueued
<1>11. ASSUME NEW q \in Requests PROVE SentOK(q)'
  <2>1. SUFFICES ASSUME pc'[q] \in Reading PROVE SentOK(q)'
    BY DEF SentOK
  <2>2. pc'[q] = pc[q] /\ q # r
    BY <1>3, <1>4, <2>1 DEF Reading
  <2>3. SentOK(q) /\ TaskOK(q)
    BY DEF IInv, JobsOK, TasksOK
  <2>4. handle[q] \in Workers
    BY <2>1, <2>2, <2>3 DEF TaskOK, Working
  <2>5. \A j \in 1..Len(queue[handle[q]]) :
           j \in 1..Len(queue'[handle[q]]) /\ queue'[handle[q]][j] = queue[handle[q]][j]
    <3>1. CASE handle[q] = w
      <4>1. \A j \in 1..n : queue'[w][j] = queue[w][j]
        BY <1>0, <1>1, <1>6, Queued
      <4>2. \A j \in 1..n : j \in 1..(n + 1)
        BY <1>7
      <4> QED
        BY <1>6, <1>7, <3>1, <4>1, <4>2
    <3>2. CASE handle[q] # w
      BY <1>0, <1>1, <2>4, <3>2, Queued
    <3> QED
      BY <3>1, <3>2
  <2> QED
    BY <1>3, <2>1, <2>2, <2>3, <2>5 DEF SentOK
<1> QED
  BY <1>10, <1>11 DEF JobsOK

\* The batch that was read is handed over.
LEMMA BatchJobs ==
  ASSUME CaptureAssumption, IInv, TypeOK', NEW r \in Requests, EnqueueBatch(r)
  PROVE  JobsOK'
<1> USE DEF webview, registry, capture, bounds, history
<1>0. TypeOK /\ TaskOK(r) /\ SentOK(r)
  BY DEF IInv, TasksOK, JobsOK
<1>16. /\ handle[r] \in Workers /\ pc[r] \in {"enqueue", "flush"} /\ pc[r] \in Reading
       /\ enqueued[r] \in Nat /\ enqueued[r] + 1 \in 1..Batches
  <2>1. pc[r] \in {"enqueue", "flush"}
    BY DEF EnqueueBatch
  <2>2. handle[r] \in Workers /\ received[r] = enqueued[r] + 1
    BY <1>0, <2>1 DEF TaskOK, Working, Reading
  <2>3. received[r] \in 0..Batches /\ enqueued[r] \in 0..Batches
    BY <1>0 DEF TypeOK
  <2>4. enqueued[r] \in Nat /\ enqueued[r] + 1 \in 1..Batches
    BY <2>2, <2>3 DEF CaptureAssumption
  <2> QED
    BY <2>1, <2>2, <2>4 DEF Reading
<1>17. PICK w \in Workers : w = handle[r]
  BY <1>16
<1>18. PICK n : n = Len(queue[w])
  OBVIOUS
<1>19. PICK k \in 1..Batches : k = enqueued[r] + 1
  BY <1>16
<1>20. PICK job \in Jobs : job = Job("append", r, k)
  <2>1. k \in 0..Batches
    BY <1>19
  <2> QED
    BY <2>1 DEF Job, Jobs
<1>1. /\ pc[r] \in {"enqueue", "flush"} /\ pc[r] \in Reading /\ enqueued[r] \in Nat
      /\ k \in Nat
  BY <1>16, <1>19
<1>2. Enqueue(w, job) /\ job.kind = "append" /\ job.request = r /\ job.batch = k
  BY <1>17, <1>19, <1>20 DEF Job, EnqueueBatch
<1>3. /\ UNCHANGED <<handle, body, wrote>> /\ enqueued'[r] = k
      /\ \A q \in Requests : q # r => pc'[q] = pc[q] /\ enqueued'[q] = enqueued[q]
      /\ pc'[r] \in {"drain", "await", "reading"}
  BY <1>0, <1>19 DEF EnqueueBatch, AfterEnqueue, TypeOK
<1>5. \A q \in Requests : Steady(q, pc'[q], handle'[q], enqueued'[q], body'[q], wrote'[q])
  BY SteadySteps DEF Task
<1>6. w = handle'[r] /\ w = handle[r] /\ n = Len(queue[w]) /\ job = Job("append", r, k)
  BY <1>3, <1>17, <1>18, <1>20
<1>12. k = enqueued[r] + 1
  BY <1>19
<1>7. /\ n \in Nat /\ queue'[w][n + 1] = job /\ Len(queue'[w]) = n + 1
      /\ \A j \in 1..n : queue'[w][j] = queue[w][j]
      /\ \A v \in Workers : v # w => queue'[v] = queue[v]
  BY <1>0, <1>1, <1>2, <1>6, Queued
<1>13. \A j \in 1..n : j \in 1..(n + 1) /\ j < n + 1
  BY <1>7
<1>8. \A j \in 1..n : queue[w][j] # job
  <2>1. SUFFICES ASSUME NEW j \in 1..n, queue[w][j] = job
                 PROVE  FALSE
    OBVIOUS
  <2>2. JobOK(w, j)
    BY <1>1, <1>6 DEF IInv, JobsOK
  <2>3. k \in 1..enqueued[r]
    BY <1>2, <2>1, <2>2 DEF JobOK
  <2> QED
    BY <1>1, <1>12, <2>3
<1>14. \A m \in 1..Batches : m < k =>
          wrote[r][m] # "none" \/ \E j \in 1..n : queue[w][j] = Job("append", r, m)
  <2>1. \A m \in 1..Batches : m < k => m <= enqueued[r]
    BY <1>1, <1>12
  <2> QED
    BY <1>0, <1>1, <1>6, <2>1 DEF SentOK
<1>9. JobOK(w, n + 1)'
  <2>1. wrote'[r][k] = "none"
    <3>1. wrote[r][k] # "none" => k <= enqueued[r]
      BY <1>0, <1>1 DEF TaskOK
    <3> QED
      BY <1>1, <1>3, <1>12, <3>1
  <2>2. k \in 1..enqueued'[r]
    BY <1>1, <1>3, <1>12
  <2>3. \A m \in 1..Batches : m < k =>
          wrote'[r][m] # "none"
          \/ \E j \in 1..Len(queue'[w]) : j < n + 1 /\ queue'[w][j] = Job("append", r, m)
    BY <1>3, <1>7, <1>13, <1>14
  <2>4. \A j \in 1..Len(queue'[w]) : j # n + 1 => queue'[w][j] # job
    <3>1. \A j \in 1..(n + 1) : j # n + 1 => j \in 1..n
      BY <1>7
    <3> QED
      BY <1>7, <1>8, <3>1
  <2> QED
    BY <1>2, <1>3, <1>6, <1>7, <2>1, <2>2, <2>3, <2>4 DEF JobOK, Unstarted
<1>10. \A v \in Workers : \A i \in 1..Len(queue'[v]) : JobOK(v, i)'
  BY <1>1, <1>2, <1>5, <1>6, <1>8, <1>9, JobsQueued
<1>11. ASSUME NEW q \in Requests PROVE SentOK(q)'
  <2>1. SUFFICES ASSUME pc'[q] \in Reading PROVE SentOK(q)'
    BY DEF SentOK
  <2>2. pc[q] \in Reading
    BY <1>1, <1>3, <2>1
  <2>3. SentOK(q) /\ TaskOK(q)
    BY DEF IInv, JobsOK, TasksOK
  <2>4. handle[q] \in Workers
    BY <2>2, <2>3 DEF TaskOK, Working
  <2>5. \A j \in 1..Len(queue[handle[q]]) :
           j \in 1..Len(queue'[handle[q]]) /\ queue'[handle[q]][j] = queue[handle[q]][j]
    <3>1. CASE handle[q] = w
      BY <1>6, <1>7, <1>13, <3>1
    <3>2. CASE handle[q] # w
      BY <1>7, <2>4, <3>2
    <3> QED
      BY <3>1, <3>2
  <2>6. CASE q # r
    BY <1>3, <2>2, <2>3, <2>5, <2>6 DEF SentOK
  <2>7. CASE q = r
    <3>1. SUFFICES ASSUME NEW m \in 1..Batches, m <= k
                   PROVE  \/ wrote[r][m] # "none"
                          \/ \E j \in 1..Len(queue'[w]) : queue'[w][j] = Job("append", r, m)
      BY <1>3, <1>6, <2>7 DEF SentOK
    <3>2. CASE m = k
      <4>1. n + 1 \in 1..(n + 1)
        BY <1>7
      <4> QED
        BY <1>6, <1>7, <3>2, <4>1
    <3>3. CASE m # k
      <4>1. m < k
        BY <1>1, <3>1, <3>3
      <4> QED
        BY <1>7, <1>13, <1>14, <4>1
    <3> QED
      BY <3>2, <3>3
  <2> QED
    BY <2>6, <2>7
<1> QED
  BY <1>10, <1>11 DEF JobsOK

\* The webview releases a reference.
LEMMA DropJobs ==
  ASSUME CaptureAssumption,
         IInv, TypeOK', NEW r \in Requests, Receive(r) \/ LetGo(r)
  PROVE  JobsOK'
<1> USE DEF webview, registry, capture, bounds, history
<1>0. TypeOK
  BY DEF IInv
<1>1. UNCHANGED <<pc, handle, enqueued, body, wrote>>
  BY DEF Receive, LetGo, Drop
<1>2. \A q \in Requests : Steady(q, pc'[q], handle'[q], enqueued'[q], body'[q], wrote'[q])
  BY SteadySteps
<1>3. CASE queue' = queue
  BY <1>1, <1>2, <1>3, JobsKept
<1>4. CASE queue' # queue
  <2>7. PICK w \in Workers : w = Wanted
    BY DEF Wanted, Workers
  <2>2. PICK n : n = Len(queue[w])
    OBVIOUS
  <2>8. PICK job \in Jobs : job = Job("drop", r, 0)
    <3>1. 0 \in 0..Batches
      BY DEF CaptureAssumption
    <3> QED
      BY <3>1 DEF Job, Jobs
  <2>1. Enqueue(w, job) /\ job.kind = "drop"
    <3>1. Drop(r)
      BY <1>4 DEF Receive, LetGo
    <3> QED
      BY <2>7, <2>8, <3>1 DEF Drop, Job
  <2>3. /\ n \in Nat /\ queue'[w][n + 1] = job /\ Len(queue'[w]) = n + 1
        /\ \A j \in 1..n : queue'[w][j] = queue[w][j]
        /\ \A v \in Workers : v # w => queue'[v] = queue[v]
    BY <1>0, <2>1, <2>2, Queued
  <2>4. JobOK(w, n + 1)'
    BY <2>1, <2>3 DEF JobOK
  <2>5. \A v \in Workers : \A i \in 1..Len(queue'[v]) : JobOK(v, i)'
    BY <1>2, <2>1, <2>2, <2>4, JobsQueued
  <2>6. ASSUME NEW q \in Requests PROVE SentOK(q)'
    <3>1. SUFFICES ASSUME pc[q] \in Reading PROVE SentOK(q)'
      BY <1>1 DEF SentOK
    <3>2. SentOK(q) /\ handle[q] \in Workers
      BY <3>1 DEF IInv, JobsOK, TasksOK, TaskOK, Working
    <3>3. \A j \in 1..n : j \in 1..(n + 1)
      BY <2>3
    <3>4. \A j \in 1..Len(queue[handle[q]]) :
             j \in 1..Len(queue'[handle[q]]) /\ queue'[handle[q]][j] = queue[handle[q]][j]
      BY <2>2, <2>3, <3>2, <3>3
    <3> QED
      BY <1>1, <3>1, <3>2, <3>4 DEF SentOK
  <2> QED
    BY <2>5, <2>6 DEF JobsOK
<1> QED
  BY <1>3, <1>4

\* A worker's step brings the jobs behind its first one place forward.
LEMMA WorkJobs ==
  ASSUME CaptureAssumption, IInv, TypeOK', NEW w \in Workers, Work(w)
  PROVE  JobsOK'
<1>0. TypeOK
  BY DEF IInv
<1>1. PICK head : head = Head(queue[w])
  OBVIOUS
<1>2. PICK r : r = head.request
  OBVIOUS
<1>3. /\ head \in Jobs /\ r \in Requests /\ JobOK(w, 1) /\ queue[w][1] = head
      /\ head.kind = "append" => head.batch \in 1..Batches
      /\ UNCHANGED <<handle, enqueued, body>>
      /\ \A q \in Requests : q # r => pc'[q] = pc[q] /\ wrote'[q] = wrote[q]
  BY <1>1, <1>2, WorkEffect
<1>4. PICK n : n = Len(queue'[w])
  OBVIOUS
<1>5. /\ n \in Nat /\ Len(queue[w]) = n + 1
      /\ \A j \in 1..n : queue'[w][j] = queue[w][j + 1]
      /\ \A v \in Workers : v # w => queue'[v] = queue[v]
      /\ \A v \in Workers : queue[v] \in Seq(Jobs) /\ queue'[v] \in Seq(Jobs)
  <2>1. queue'[w] \in Seq(Jobs) /\ queue \in [Workers -> Seq(Jobs)]
          /\ queue' \in [Workers -> Seq(Jobs)]
    BY <1>0 DEF TypeOK
  <2>2. Len(queue[w]) \in Nat /\ n = Len(queue[w]) - 1 /\ Len(queue[w]) >= 1
    BY <1>0, <1>4, Taken
  <2>3. \A j \in 1..n : queue'[w][j] = queue[w][j + 1]
    BY <1>0, <1>4, Taken
  <2>4. \A v \in Workers : v # w => queue'[v] = queue[v]
    BY <1>0, Taken
  <2> QED
    BY <2>1, <2>2, <2>3, <2>4
\* What the step may take from the jobs of the request it answers.
<1>6. /\ head.kind \in {"ensure", "create", "finish", "release"} =>
            /\ wrote'[r] = wrote[r]
            /\ pc'[r] # pc[r] => pc[r] = Waiting(head.kind)
                                   /\ pc'[r] \in {"sending", "reading", "succeeded", "release", "failed"}
                                   /\ (pc[r] = "finishing" => pc'[r] \in {"succeeded", "release"})
                                   /\ (pc[r] = "releasing" => pc'[r] = "failed")
      /\ head.kind = "append" =>
            /\ pc'[r] = pc[r] /\ wrote'[r][head.batch] # "none"
            /\ \A k \in 1..Batches : k # head.batch => wrote'[r][k] = wrote[r][k]
      /\ head.kind = "drop" => pc'[r] = pc[r] /\ wrote'[r] = wrote[r]
  <2>1. PICK fault \in BOOLEAN, ok \in BOOLEAN :
               /\ ok = (~fault /\ Succeeds(w, head, row))
               /\ fault => head.kind # "ensure" /\ row' = row
               /\ ~fault => row' = Applied(w, head, row)
               /\ fault /\ head.kind = "release" => r \in leaked'
               /\ r \in network' => \/ r \in network
                                    \/ head.kind = "ensure" /\ ok /\ pc[r] = "ensuring"
               /\ \/ /\ head.kind = "append" /\ pc'[r] = pc[r]
                     /\ wrote'[r][head.batch] = IF ok THEN "ok" ELSE "error"
                     /\ \A j \in 1..Batches : j # head.batch => wrote'[r][j] = wrote[r][j]
                  \/ head.kind = "drop" /\ UNCHANGED <<wrote, pc>>
                  \/ /\ head.kind \in {"ensure", "create", "finish", "release"}
                     /\ UNCHANGED wrote
                     /\ Answer(r, head.kind, ok)
    BY <1>1, <1>2, WorkEffect
  <2>2. CASE head.kind \in {"ensure", "create", "finish", "release"}
    <3>1. UNCHANGED wrote /\ Answer(r, head.kind, ok)
      BY <2>1, <2>2
    <3>2. /\ pc[r] # Waiting(head.kind) => pc'[r] = pc[r]
          /\ pc[r] = Waiting(head.kind) =>
                /\ head.kind = "ensure" => pc'[r] = IF ok THEN "sending" ELSE "failed"
                /\ head.kind = "create" => pc'[r] = IF ok THEN "reading" ELSE "failed"
                /\ head.kind = "finish" => pc'[r] = IF ok THEN "succeeded" ELSE "release"
                /\ head.kind = "release" => pc'[r] = "failed"
      BY <1>0, <1>3, <2>2, <3>1, Answered
    <3>3. /\ Waiting("ensure") = "ensuring" /\ Waiting("create") = "creating"
          /\ Waiting("finish") = "finishing" /\ Waiting("release") = "releasing"
      BY DEF Waiting
    <3> QED
      BY <2>2, <3>1, <3>2, <3>3
  <2>3. CASE head.kind = "append"
    BY <2>1, <2>3
  <2>4. CASE head.kind = "drop"
    BY <2>1, <2>4
  <2>5. head.kind \in {"ensure", "create", "append", "finish", "release", "drop"}
    BY <1>3 DEF Jobs
  <2> QED
    BY <2>2, <2>3, <2>4, <2>5
<1>7. /\ head.kind # "drop" => w = handle[r] /\ pc[r] \notin Unstarted
      /\ head.kind = "create" => pc[r] = "creating" /\ head.batch = 0
      /\ head.kind = "append" => head.batch \in 1..enqueued[r] /\ wrote[r][head.batch] = "none"
      /\ head.kind = "finish" => pc[r] \in Late
  BY <1>2, <1>3 DEF JobOK
\* A job behind it, wherever it waits.
<1>8. ASSUME NEW v \in Workers, NEW i \in 1..Len(queue[v]), NEW job, job = queue[v][i],
             NEW q, q = job.request, v # w \/ i # 1
      PROVE  /\ job.kind # "drop" => v = handle'[q] /\ pc'[q] \notin Unstarted
             /\ job.kind = "create" => pc'[q] = "creating" /\ job.batch = 0
             /\ job.kind = "append" =>
                   /\ job.batch \in 1..enqueued'[q] /\ wrote'[q][job.batch] = "none"
                   /\ \A k \in 1..Batches : wrote[q][k] # "none" => wrote'[q][k] # "none"
             /\ job.kind = "finish" => pc'[q] \in Late /\ Complete(q)'
  <2>1. JobOK(v, i) /\ job \in Jobs /\ q \in Requests
    <3>1. job \in Jobs
      BY <1>5, <1>8
    <3> QED
      BY <1>8, <3>1 DEF IInv, JobsOK, Jobs
  <2>2. /\ job.kind # "drop" => v = handle[q] /\ pc[q] \notin Unstarted
        /\ job.kind = "create" => pc[q] = "creating" /\ job.batch = 0
        /\ job.kind = "append" => job.batch \in 1..enqueued[q] /\ wrote[q][job.batch] = "none"
        /\ job.kind = "finish" => pc[q] \in Late /\ Complete(q)
        /\ job.kind \in {"create", "append"} =>
              \A j \in 1..Len(queue[v]) : j # i => queue[v][j] # job
    BY <1>8, <2>1 DEF JobOK
  <2>3. CASE q # r
    <3>1. pc'[q] = pc[q] /\ wrote'[q] = wrote[q]
      BY <1>3, <2>1, <2>3
    <3> QED
      BY <1>3, <2>2, <3>1 DEF Complete
  <2>4. CASE q = r
    <3>1. CASE head.kind = "drop"
      <4>1. pc'[q] = pc[q] /\ wrote'[q] = wrote[q]
        BY <1>6, <2>4, <3>1
      <4> QED
        BY <1>3, <2>2, <4>1 DEF Complete
    <3>2. CASE head.kind # "drop" /\ job.kind # "drop"
      <4>1. v = w /\ i # 1 /\ 1 \in 1..Len(queue[w])
        <5>1. 1 \in 1..(n + 1)
          BY <1>5
        <5> QED
          BY <1>5, <1>7, <1>8, <2>2, <2>4, <3>2, <5>1
      <4>2. job.kind \in {"create", "append"} => head # job
        BY <1>3, <2>2, <4>1
      <4>3. /\ job = [kind |-> job.kind, request |-> r, batch |-> job.batch]
            /\ head = [kind |-> head.kind, request |-> r, batch |-> head.batch]
        BY <1>2, <1>3, <1>8, <2>1, <2>4 DEF Jobs
      <4>4. job.kind \in {"create", "append"} /\ head.kind = job.kind => head.batch # job.batch
        BY <4>2, <4>3
      <4>5. CASE head.kind = "append"
        <5>1. job.kind # "create"
          <6>1. enqueued[r] = 0 => FALSE
            BY <1>7, <4>5
          <6>2. pc[r] = "creating" => enqueued[r] = 0
            BY <1>3 DEF IInv, TasksOK, TaskOK, Early
          <6> QED
            BY <2>2, <2>4, <6>1, <6>2
        <5>2. job.kind # "finish"
          BY <1>7, <2>2, <2>4, <4>5 DEF Complete
        <5>3. job.kind = "append" => /\ job.batch \in 1..Batches
                                     /\ wrote'[q][job.batch] = "none"
          <6>1. enqueued[r] \in 0..Batches
            BY <1>0, <1>3 DEF TypeOK
          <6>2. job.kind = "append" => job.batch \in 1..Batches
            BY <2>2, <2>4, <6>1 DEF CaptureAssumption
          <6> QED
            BY <1>6, <2>2, <2>4, <4>4, <4>5, <6>2
        <5>4. \A k \in 1..Batches : wrote[q][k] # "none" => wrote'[q][k] # "none"
          BY <1>6, <2>4, <4>5
        <5> QED
          BY <1>3, <1>6, <2>2, <2>4, <4>5, <5>1, <5>2, <5>3, <5>4
      <4>6. CASE head.kind \in {"ensure", "create", "finish", "release"}
        <5>1. wrote'[q] = wrote[q]
          BY <1>6, <2>4, <4>6
        <5>2. CASE pc'[q] = pc[q]
          BY <1>3, <2>2, <5>1, <5>2 DEF Complete
        <5>3. CASE pc'[q] # pc[q]
          <6>1. /\ pc[q] = Waiting(head.kind)
                /\ pc'[q] \in {"sending", "reading", "succeeded", "release", "failed"}
                /\ (pc[q] = "finishing" => pc'[q] \in {"succeeded", "release"})
                /\ (pc[q] = "releasing" => pc'[q] = "failed")
            BY <1>6, <2>4, <4>6, <5>3
          <6>2. pc'[q] \notin Unstarted
            BY <6>1 DEF Unstarted
          <6>3. job.kind # "create"
            <7>1. job.kind = "create" => head.kind = "create"
              BY <2>2, <4>6, <6>1 DEF Waiting
            <7> QED
              BY <1>7, <2>2, <4>4, <7>1
          <6>4. job.kind = "finish" => pc'[q] \in Late
            BY <2>2, <4>6, <6>1 DEF Waiting, Late
          <6> QED
            BY <1>3, <2>2, <5>1, <6>2, <6>3, <6>4 DEF Complete
        <5> QED
          BY <5>2, <5>3
      <4>7. head.kind \in {"ensure", "create", "append", "finish", "release", "drop"}
        BY <1>3 DEF Jobs
      <4> QED
        BY <3>2, <4>5, <4>6, <4>7
    <3>3. CASE job.kind = "drop"
      BY <3>3
    <3> QED
      BY <3>1, <3>2, <3>3
  <2> QED
    BY <2>3, <2>4
<1>9. ASSUME NEW v \in Workers, NEW i \in 1..Len(queue'[v]), v # w
      PROVE  JobOK(v, i)'
  <2>1. queue'[v] = queue[v] /\ i \in 1..Len(queue[v])
    BY <1>5, <1>9
  <2>2. PICK job : job = queue[v][i]
    OBVIOUS
  <2>3. PICK q : q = job.request
    OBVIOUS
  <2>4. JobOK(v, i)
    BY <2>1 DEF IInv, JobsOK
  <2>5. /\ job.kind = "append" => \A k \in 1..Batches : k < job.batch =>
              \/ wrote[q][k] # "none"
              \/ \E j \in 1..Len(queue[v]) : j < i /\ queue[v][j] = Job("append", q, k)
        /\ job.kind \in {"create", "append"} =>
              \A j \in 1..Len(queue[v]) : j # i => queue[v][j] # job
    BY <2>2, <2>3, <2>4 DEF JobOK
  <2>6. /\ job.kind # "drop" => v = handle'[q] /\ pc'[q] \notin Unstarted
        /\ job.kind = "create" => pc'[q] = "creating" /\ job.batch = 0
        /\ job.kind = "append" =>
              /\ job.batch \in 1..enqueued'[q] /\ wrote'[q][job.batch] = "none"
              /\ \A k \in 1..Batches : wrote[q][k] # "none" => wrote'[q][k] # "none"
        /\ job.kind = "finish" => pc'[q] \in Late /\ Complete(q)'
    BY <1>8, <1>9, <2>1, <2>2, <2>3
  <2> QED
    BY <2>1, <2>2, <2>3, <2>5, <2>6 DEF JobOK
<1>10. ASSUME NEW i \in 1..Len(queue'[w])
       PROVE  JobOK(w, i)'
  <2>1. i \in 1..n /\ i + 1 \in 1..Len(queue[w]) /\ i + 1 # 1 /\ i \in Nat
    BY <1>4, <1>5
  <2>2. PICK job : job = queue[w][i + 1]
    OBVIOUS
  <2>3. PICK q : q = job.request
    OBVIOUS
  <2>4. JobOK(w, i + 1) /\ queue'[w][i] = job
    BY <1>5, <2>1, <2>2 DEF IInv, JobsOK
  <2>5. /\ job.kind = "append" => \A k \in 1..Batches : k < job.batch =>
              \/ wrote[q][k] # "none"
              \/ \E j \in 1..Len(queue[w]) : j < i + 1 /\ queue[w][j] = Job("append", q, k)
        /\ job.kind \in {"create", "append"} =>
              \A j \in 1..Len(queue[w]) : j # i + 1 => queue[w][j] # job
    BY <2>2, <2>3, <2>4 DEF JobOK
  <2>6. /\ job.kind # "drop" => w = handle'[q] /\ pc'[q] \notin Unstarted
        /\ job.kind = "create" => pc'[q] = "creating" /\ job.batch = 0
        /\ job.kind = "append" =>
              /\ job.batch \in 1..enqueued'[q] /\ wrote'[q][job.batch] = "none"
              /\ \A k \in 1..Batches : wrote[q][k] # "none" => wrote'[q][k] # "none"
        /\ job.kind = "finish" => pc'[q] \in Late /\ Complete(q)'
    BY <1>8, <2>1, <2>2, <2>3
  <2>7. job.kind = "append" => \A k \in 1..Batches : k < job.batch =>
              \/ wrote'[q][k] # "none"
              \/ \E j \in 1..n : j < i /\ queue'[w][j] = Job("append", q, k)
    <3>1. SUFFICES ASSUME job.kind = "append", NEW k \in 1..Batches, k < job.batch
                   PROVE  \/ wrote'[q][k] # "none"
                          \/ \E j \in 1..n : j < i /\ queue'[w][j] = Job("append", q, k)
      OBVIOUS
    <3>2. CASE wrote[q][k] # "none"
      BY <2>6, <3>1, <3>2
    <3>3. CASE \E j \in 1..Len(queue[w]) : j < i + 1 /\ queue[w][j] = Job("append", q, k)
      <4>1. PICK j \in 1..Len(queue[w]) : j < i + 1 /\ queue[w][j] = Job("append", q, k)
        BY <3>3
      <4>2. CASE j = 1
        <5>1. head = Job("append", q, k)
          BY <1>3, <4>1, <4>2
        <5>2. head.kind = "append" /\ head.batch = k /\ head.request = q
          BY <5>1 DEF Job
        <5> QED
          BY <1>2, <1>6, <5>2
      <4>3. CASE j # 1
        <5>1. j - 1 \in 1..n /\ j - 1 < i /\ (j - 1) + 1 = j
          BY <1>5, <2>1, <4>1, <4>3
        <5>2. queue'[w][j - 1] = queue[w][(j - 1) + 1]
          BY <1>5, <5>1
        <5>3. queue'[w][j - 1] = Job("append", q, k)
          BY <4>1, <5>1, <5>2
        <5> QED
          BY <5>1, <5>3
      <4> QED
        BY <4>2, <4>3
    <3> QED
      BY <2>5, <3>1, <3>2, <3>3
  <2>8. job.kind \in {"create", "append"} =>
              \A j \in 1..n : j # i => queue'[w][j] # job
    <3>1. SUFFICES ASSUME job.kind \in {"create", "append"}, NEW j \in 1..n, j # i
                   PROVE  queue'[w][j] # job
      OBVIOUS
    <3>2. j + 1 \in 1..Len(queue[w]) /\ j + 1 # i + 1
      BY <1>5, <2>1, <3>1
    <3> QED
      BY <1>5, <2>5, <3>1, <3>2
  <2> QED
    BY <1>4, <2>3, <2>4, <2>6, <2>7, <2>8 DEF JobOK
<1>11. ASSUME NEW q \in Requests PROVE SentOK(q)'
  <2>1. SUFFICES ASSUME pc'[q] \in Reading, NEW k \in 1..Batches, k <= enqueued[q]
                 PROVE  \/ wrote'[q][k] # "none"
                        \/ \E j \in 1..Len(queue'[handle[q]]) :
                              queue'[handle[q]][j] = Job("append", q, k)
    BY <1>3 DEF SentOK
  <2>2. SentOK(q) /\ TaskOK(q)
    BY DEF IInv, JobsOK, TasksOK
  <2>3. pc[q] \in Reading
    <3>1. CASE pc'[q] = pc[q]
      BY <2>1, <3>1
    <3>2. CASE pc'[q] # pc[q]
      <4>1. q = r
        BY <1>3, <3>2
      <4>2. head.kind \in {"ensure", "create", "append", "finish", "release", "drop"}
        BY <1>3 DEF Jobs
      <4>3. pc'[q] \in {"sending", "reading", "succeeded", "release", "failed"}
              /\ pc[q] \in {"ensuring", "creating", "finishing", "releasing"}
              /\ (pc[q] = "finishing" => pc'[q] \in {"succeeded", "release"})
              /\ (pc[q] = "releasing" => pc'[q] = "failed")
        BY <1>6, <3>2, <4>1, <4>2 DEF Waiting
      <4>4. pc[q] \in {"ensuring", "creating"}
        BY <2>1, <4>3 DEF Reading
      <4>5. enqueued[q] = 0
        BY <2>2, <4>4 DEF TaskOK, Early
      <4> QED
        BY <2>1, <4>5
    <3> QED
      BY <3>1, <3>2
  <2>4. \/ wrote[q][k] # "none"
        \/ \E j \in 1..Len(queue[handle[q]]) : queue[handle[q]][j] = Job("append", q, k)
    BY <2>1, <2>2, <2>3 DEF SentOK
  <2>5. handle[q] \in Workers
    BY <2>2, <2>3 DEF TaskOK, Working
  <2>6. CASE wrote[q][k] # "none"
    <3>1. CASE q # r
      BY <1>3, <2>6, <3>1
    <3>2. CASE q = r
      <4>1. head.kind \in {"ensure", "create", "append", "finish", "release", "drop"}
        BY <1>3 DEF Jobs
      <4> QED
        BY <1>6, <2>6, <3>2, <4>1
    <3> QED
      BY <3>1, <3>2
  <2>7. CASE \E j \in 1..Len(queue[handle[q]]) : queue[handle[q]][j] = Job("append", q, k)
    <3>1. PICK j \in 1..Len(queue[handle[q]]) : queue[handle[q]][j] = Job("append", q, k)
      BY <2>7
    <3>2. CASE handle[q] # w
      BY <1>5, <2>5, <3>1, <3>2
    <3>3. CASE handle[q] = w /\ j = 1
      <4>1. head.kind = "append" /\ head.batch = k /\ head.request = q
        BY <1>3, <3>1, <3>3 DEF Job
      <4> QED
        BY <1>2, <1>6, <4>1
    <3>4. CASE handle[q] = w /\ j # 1
      <4>1. j - 1 \in 1..n /\ (j - 1) + 1 = j
        BY <1>5, <3>1, <3>4
      <4>2. queue'[w][j - 1] = queue[w][(j - 1) + 1]
        BY <1>5, <4>1
      <4>3. queue'[w][j - 1] = Job("append", q, k)
        BY <3>1, <3>4, <4>1, <4>2
      <4> QED
        BY <1>4, <3>4, <4>1, <4>3
    <3> QED
      BY <3>2, <3>3, <3>4
  <2> QED
    BY <2>4, <2>6, <2>7
<1> QED
  BY <1>9, <1>10, <1>11 DEF JobsOK

-----------------------------------------------------------------------------
(* Admission.                                                              *)

\* Every step keeps cancelled requests off the network.
LEMMA AdmittedSteps ==
  ASSUME CaptureAssumption, IInv, Next
  PROVE  AdmittedOK'
<1> USE DEF webview, registry, capture, bounds, history
<1>0. /\ TypeOK /\ \A q \in Requests : RegistryOK(q) /\ TaskOK(q) /\ RowOK(q) /\ ClientOK(q)
      /\ entry \in [Requests -> {"none", "tombstone", "aged", "active"}]
      /\ pc \in [Requests -> Stages] /\ signal \in [Requests -> BOOLEAN]
  BY DEF IInv, AdmittedOK, TasksOK, RowsOK, ClientsOK, TypeOK
<1>1. ASSUME NEW r \in Requests, Cancel(r)
      PROVE  AdmittedOK'
  <2>1. /\ UNCHANGED <<pc, network>>
        /\ \A q \in Requests : q # r => entry'[q] = Pruned[q]
        /\ \A q \in Requests : signal[q] => signal'[q]
        /\ entry'[r] = Pruned[r] \/ (Pruned[r] = "none" /\ entry'[r] = "tombstone")
        /\ revoked' = revoked \ Forgotten
           \/ /\ revoked' = (revoked \ Forgotten) \cup (IF pc[r] = "invoked" THEN {r} ELSE {})
              /\ entry'[r] # "none"
    <3>1. UNCHANGED <<pc, network>>
      BY <1>1 DEF Cancel
    <3>2. Pruned \in [Requests -> {"none", "tombstone", "aged", "active"}]
      BY <1>0 DEF Pruned
    <3>3. \/ entry' = Pruned /\ revoked' = revoked \ Forgotten /\ UNCHANGED signal
          \/ /\ entry' = [Pruned EXCEPT ![r] = IF Pruned[r] = "none" THEN "tombstone" ELSE Pruned[r]]
             /\ signal' = [signal EXCEPT ![r] = TRUE]
             /\ revoked' = (revoked \ Forgotten) \cup (IF pc[r] = "invoked" THEN {r} ELSE {})
      BY <1>1 DEF Cancel
    <3>4. \A q \in Requests : signal[q] => signal'[q]
      BY <1>0, <3>3, Zenon
    <3> HIDE DEF Pruned
    <3> QED
      BY <3>1, <3>2, <3>3, <3>4
  <2>2. ASSUME NEW q \in Requests PROVE RegistryOK(q)'
    <3>1. Pruned[q] = IF entry[q] = "aged" THEN "none" ELSE entry[q]
      BY DEF Pruned
    <3>2. entry'[q] = "active" => pc'[q] \notin {"idle", "invoked"}
      BY <1>0, <2>1, <3>1 DEF RegistryOK
    <3>3. CASE q \in revoked \ Forgotten
      <4>1. entry[q] # "aged" /\ q \notin network
        BY <1>0, <3>3 DEF Forgotten, RegistryOK
      <4>2. CASE q # r
        BY <1>0, <2>1, <3>1, <3>2, <3>3, <4>1, <4>2 DEF RegistryOK
      <4>3. CASE q = r
        BY <1>0, <2>1, <3>1, <3>2, <3>3, <4>1, <4>3 DEF RegistryOK
      <4> QED
        BY <4>2, <4>3
    <3>4. CASE q = r /\ pc[r] = "invoked" /\ entry'[r] # "none"
      <4>1. q \notin network
        BY <1>0, <3>4 DEF RowOK, Unstarted
      <4>2. entry'[r] = "tombstone"
        BY <1>0, <2>1, <3>1, <3>2, <3>4
      <4> QED
        BY <2>1, <3>2, <3>4, <4>1, <4>2 DEF RegistryOK
    <3>5. CASE q \notin revoked'
      BY <3>2, <3>5 DEF RegistryOK
    <3> QED
      BY <2>1, <3>3, <3>4, <3>5
  <2> QED
    BY <2>2 DEF AdmittedOK
<1>2. ASSUME NEW r \in Requests, TombstoneAges(r)
      PROVE  AdmittedOK'
  <2>1. /\ UNCHANGED <<pc, network, signal, revoked>> /\ entry[r] = "tombstone"
        /\ entry'[r] = "aged" /\ \A q \in Requests : q # r => entry'[q] = entry[q]
    BY <1>0, <1>2 DEF TombstoneAges
  <2>2. ASSUME NEW q \in Requests PROVE RegistryOK(q)'
    BY <1>0, <2>1 DEF RegistryOK
  <2> QED
    BY <2>2 DEF AdmittedOK
<1>3. ASSUME NEW r \in Requests, Register(r)
      PROVE  AdmittedOK'
  <2>1. CASE closed
    <3>1. /\ UNCHANGED <<network, entry, signal, revoked>> /\ pc'[r] = "returned"
          /\ \A q \in Requests : q # r => pc'[q] = pc[q]
      BY <1>0, <1>3, <2>1 DEF Register
    <3>2. ASSUME NEW q \in Requests PROVE RegistryOK(q)'
      BY <1>0, <3>1 DEF RegistryOK
    <3> QED
      BY <3>2 DEF AdmittedOK
  <2>2. CASE ~closed
    <3>0. Pruned \in [Requests -> {"none", "tombstone", "aged", "active"}]
      BY <1>0 DEF Pruned
    <3>1. /\ UNCHANGED network /\ revoked' = revoked \ Forgotten
          /\ pc[r] = "invoked" /\ pc'[r] = "registered"
          /\ \A q \in Requests : q # r => pc'[q] = pc[q]
      BY <1>0, <1>3, <2>2 DEF Register
    <3>2. /\ entry' = [Pruned EXCEPT ![r] = "active"]
          /\ signal' = [signal EXCEPT ![r] = Pruned[r] = "tombstone"]
      BY <1>3, <2>2 DEF Register
    <3>3. \A q \in Requests : q # r => entry'[q] = Pruned[q]
      BY <3>0, <3>2
    <3>4. Pruned[r] = "tombstone" => signal'[r]
      BY <1>0, <3>2
    <3>5. \A q \in Requests : q # r => signal'[q] = signal[q]
      <4> DEFINE b == Pruned[r] = "tombstone"
      <4>1. signal' = [signal EXCEPT ![r] = b]
        BY <3>2
      <4> HIDE DEF b
      <4> QED
        BY <1>0, <4>1
    <3>6. ASSUME NEW q \in Requests PROVE RegistryOK(q)'
      <4>1. Pruned[q] = IF entry[q] = "aged" THEN "none" ELSE entry[q]
        BY DEF Pruned
      <4>2. CASE q # r
        <5>1. entry'[q] = "active" => pc'[q] \notin {"idle", "invoked"}
          BY <1>0, <3>1, <3>3, <4>1, <4>2 DEF RegistryOK
        <5>2. CASE q \in revoked'
          <6>1. q \in revoked /\ entry[q] # "aged"
            BY <3>1, <5>2 DEF Forgotten
          <6> QED
            BY <1>0, <3>1, <3>3, <3>5, <4>1, <4>2, <5>1, <6>1 DEF RegistryOK
        <5> QED
          BY <5>1, <5>2 DEF RegistryOK
      <4>3. CASE q = r
        <5>1. CASE q \in revoked'
          <6>1. q \in revoked /\ entry[q] # "aged"
            BY <3>1, <5>1 DEF Forgotten
          <6>2. entry[q] = "tombstone" /\ q \notin network
            BY <1>0, <3>1, <4>3, <6>1 DEF RegistryOK
          <6>3. signal'[q]
            BY <3>4, <4>1, <4>3, <6>2
          <6> QED
            BY <3>1, <4>3, <6>2, <6>3 DEF RegistryOK
        <5>2. CASE q \notin revoked'
          BY <3>1, <4>3, <5>2 DEF RegistryOK
        <5> QED
          BY <5>1, <5>2
      <4> QED
        BY <4>2, <4>3
    <3> QED
      BY <3>6 DEF AdmittedOK
  <2> QED
    BY <2>1, <2>2
<1>4. ASSUME NEW r \in Requests, Begin(r)
      PROVE  AdmittedOK'
  <2>1. /\ UNCHANGED <<entry, signal, revoked>> /\ pc[r] = "registered"
        /\ pc'[r] \in {"failed", "ensure", "sending"}
        /\ signal[r] => pc'[r] = "failed" /\ network' = network
        /\ network' \in {network, network \cup {r}}
        /\ \A q \in Requests : q # r => pc'[q] = pc[q]
    BY <1>0, <1>4 DEF Begin
  <2>2. ASSUME NEW q \in Requests PROVE RegistryOK(q)'
    BY <1>0, <2>1 DEF RegistryOK
  <2> QED
    BY <2>2 DEF AdmittedOK
<1>5. ASSUME NEW r \in Requests, Return(r)
      PROVE  AdmittedOK'
  <2>1. /\ UNCHANGED <<signal, revoked, network>> /\ pc[r] \in {"succeeded", "failed"}
        /\ pc'[r] = "returned" /\ entry'[r] = "none"
        /\ \A q \in Requests : q # r => pc'[q] = pc[q] /\ entry'[q] = entry[q]
    BY <1>0, <1>5 DEF Return
  <2>2. ASSUME NEW q \in Requests PROVE RegistryOK(q)'
    BY <1>0, <2>1 DEF RegistryOK
  <2> QED
    BY <2>2 DEF AdmittedOK
<1>6. ASSUME NEW r \in Requests, Send(r)
      PROVE  AdmittedOK'
  <2>1. /\ UNCHANGED <<entry, signal, revoked, network>> /\ pc[r] = "idle"
        /\ pc'[r] = "invoked" /\ \A q \in Requests : q # r => pc'[q] = pc[q]
    BY <1>0, <1>6 DEF Send, ClientOK
  <2>2. ASSUME NEW q \in Requests PROVE RegistryOK(q)'
    BY <1>0, <2>1 DEF RegistryOK
  <2> QED
    BY <2>2 DEF AdmittedOK
<1>7. ASSUME NEW r \in Requests,
             \/ Call(r) \/ Headers(r) \/ FullBatch(r) \/ BodyEnds(r) \/ BodyFails(r)
             \/ EnqueueBatch(r) \/ AwaitWrite(r) \/ Drained(r) \/ Cancelled(r)
      PROVE  AdmittedOK'
  <2>1. UNCHANGED <<entry, signal, revoked, network>>
    BY <1>7 DEF Call, Headers, FullBatch, BodyEnds, BodyFails, EnqueueBatch, AwaitWrite,
       Drained, Cancelled
  <2>2. /\ pc[r] \notin {"idle", "invoked", "registered", "failed", "returned"}
        /\ pc'[r] \notin {"idle", "invoked"}
        /\ \A q \in Requests : q # r => pc'[q] = pc[q]
    <3>1. CASE Call(r)
      BY <1>0, <3>1 DEF Call, Waiting
    <3>2. CASE EnqueueBatch(r)
      BY <1>0, <3>2 DEF EnqueueBatch, AfterEnqueue
    <3>3. CASE AwaitWrite(r)
      BY <1>0, <3>3 DEF AwaitWrite
    <3>4. CASE \/ Headers(r) \/ FullBatch(r) \/ BodyEnds(r) \/ BodyFails(r)
               \/ Drained(r) \/ Cancelled(r)
      BY <1>0, <3>4 DEF Headers, FullBatch, BodyEnds, BodyFails, Drained, Cancelled
    <3> QED
      BY <1>7, <3>1, <3>2, <3>3, <3>4
  <2>3. ASSUME NEW q \in Requests PROVE RegistryOK(q)'
    BY <1>0, <2>1, <2>2 DEF RegistryOK
  <2> QED
    BY <2>3 DEF AdmittedOK
<1>8. ASSUME \/ \E r \in Requests :
                   \/ Abort(r) \/ Receive(r) \/ LetGo(r) \/ Forget(r) \/ Record(r)
                   \/ DeleteExecution(r) \/ RowExpires(r)
             \/ Unlock
      PROVE  AdmittedOK'
  <2>1. UNCHANGED <<entry, signal, revoked, network, pc>>
    BY <1>8 DEF Abort, Receive, LetGo, Drop, Forget, Record, DeleteExecution, RowExpires, Unlock
  <2>2. ASSUME NEW q \in Requests PROVE RegistryOK(q)'
    BY <1>0, <2>1 DEF RegistryOK
  <2> QED
    BY <2>2 DEF AdmittedOK
<1>9. ASSUME CloseWindow \/ Crash
      PROVE  AdmittedOK'
  <2>1. revoked' = {} /\ \A q \in Requests : entry'[q] = "none"
    BY <1>9 DEF CloseWindow, Crash
  <2>2. ASSUME NEW q \in Requests PROVE RegistryOK(q)'
    BY <2>1 DEF RegistryOK
  <2> QED
    BY <2>2 DEF AdmittedOK
<1>10. ASSUME NEW w \in Workers, Work(w)
       PROVE  AdmittedOK'
  <2>1. PICK job : job = Head(queue[w])
    OBVIOUS
  <2>2. PICK r : r = job.request
    OBVIOUS
  <2>3. UNCHANGED <<entry, signal, revoked>>
    BY <1>10 DEF Work
  <2>4. /\ r \in Requests /\ job \in Jobs
        /\ \A q \in Requests : q # r => pc'[q] = pc[q] /\ (q \in network' <=> q \in network)
    BY <1>10, <2>1, <2>2, WorkEffect
  <2>5. PICK fault \in BOOLEAN, ok \in BOOLEAN :
               /\ ok = (~fault /\ Succeeds(w, job, row))
               /\ fault => job.kind # "ensure" /\ row' = row
               /\ ~fault => row' = Applied(w, job, row)
               /\ fault /\ job.kind = "release" => r \in leaked'
               /\ r \in network' => \/ r \in network
                                    \/ job.kind = "ensure" /\ ok /\ pc[r] = "ensuring"
               /\ \/ /\ job.kind = "append" /\ pc'[r] = pc[r]
                     /\ wrote'[r][job.batch] = IF ok THEN "ok" ELSE "error"
                     /\ \A j \in 1..Batches : j # job.batch => wrote'[r][j] = wrote[r][j]
                  \/ job.kind = "drop" /\ UNCHANGED <<wrote, pc>>
                  \/ /\ job.kind \in {"ensure", "create", "finish", "release"}
                     /\ UNCHANGED wrote
                     /\ Answer(r, job.kind, ok)
    BY <1>10, <2>1, <2>2, WorkEffect
  <2>6. \/ pc'[r] = pc[r]
        \/ /\ pc[r] \in {"ensuring", "creating", "finishing", "releasing"}
           /\ pc'[r] \in {"sending", "reading", "succeeded", "release", "failed"}
    <3>1. CASE job.kind \in {"ensure", "create", "finish", "release"}
      <4>1. Answer(r, job.kind, ok)
        BY <2>5, <3>1
      <4>2. /\ pc[r] # Waiting(job.kind) => pc'[r] = pc[r]
            /\ pc[r] = Waiting(job.kind) =>
                  /\ job.kind = "ensure" => pc'[r] = IF ok THEN "sending" ELSE "failed"
                  /\ job.kind = "create" => pc'[r] = IF ok THEN "reading" ELSE "failed"
                  /\ job.kind = "finish" => pc'[r] = IF ok THEN "succeeded" ELSE "release"
                  /\ job.kind = "release" => pc'[r] = "failed"
        BY <1>0, <2>4, <3>1, <4>1, Answered
      <4>3. Waiting(job.kind) \in {"ensuring", "creating", "finishing", "releasing"}
        BY <3>1 DEF Waiting
      <4> QED
        BY <3>1, <4>2, <4>3
    <3>2. CASE job.kind \notin {"ensure", "create", "finish", "release"}
      BY <2>5, <3>2
    <3> QED
      BY <3>1, <3>2
  <2>7. r \in network' => r \in network \/ pc[r] = "ensuring"
    BY <2>5
  <2>8. ASSUME NEW q \in Requests PROVE RegistryOK(q)'
    <3>1. CASE q # r
      BY <1>0, <2>3, <2>4, <3>1 DEF RegistryOK
    <3>2. CASE q = r
      BY <1>0, <2>3, <2>4, <2>6, <2>7, <3>2 DEF RegistryOK
    <3> QED
      BY <3>1, <3>2
  <2> QED
    BY <2>8 DEF AdmittedOK
<1> QED
  BY <1>1, <1>2, <1>3, <1>4, <1>5, <1>6, <1>7, <1>8, <1>9, <1>10 DEF Next, Task

-----------------------------------------------------------------------------
(* The invariant.                                                          *)

\* It holds at the start.
LEMMA InitInvariant ==
  ASSUME CaptureAssumption, Init
  PROVE  IInv
<1>1. TypeOK
  <2>1. NoRow \in Content
    BY DEF NoRow, Content
  <2>2. Len(<<>>) = 0 /\ <<>> \in Seq(Jobs)
    OBVIOUS
  <2>3. \A w \in Workers : queue[w] = <<>>
    BY DEF Init
  <2>4. queue \in [Workers -> Seq(Jobs)] /\ \A w \in Workers : Len(queue[w]) <= Capacity
    BY <2>2, <2>3 DEF CaptureAssumption, Init
  <2>5. row \in [Requests -> Content]
    BY <2>1 DEF Init
  <2>6. pc \in [Requests -> Stages] /\ body \in [Requests -> 0..NotEnded]
    BY DEF CaptureAssumption, Init, Stages, NotEnded
  <2>7. /\ received \in [Requests -> 0..Batches] /\ enqueued \in [Requests -> 0..Batches]
        /\ awaited \in [Requests -> 0..Batches]
        /\ faults \in 0..MaxFaults /\ crashes \in 0..MaxCrashes
    BY DEF CaptureAssumption, Init
  <2> QED
    BY <2>4, <2>5, <2>6, <2>7 DEF Init, TypeOK
<1>2. ASSUME NEW r \in Requests
      PROVE  ClientOK(r) /\ TaskOK(r) /\ RowOK(r) /\ RegistryOK(r) /\ SentOK(r)
  <2>1. /\ client[r] = "idle" /\ pc[r] = "idle" /\ outcome[r] = "none"
        /\ enqueued[r] = 0 /\ received[r] = 0 /\ awaited[r] = 0 /\ body[r] = NotEnded
        /\ \A k \in 1..Batches : wrote[r][k] = "none"
        /\ row[r].state = "absent" /\ entry[r] = "none"
        /\ network = {} /\ revoked = {} /\ leaked = {}
    BY <1>2 DEF Init, NoRow
  <2>2. ClientOK(r) /\ RegistryOK(r) /\ SentOK(r)
    BY <2>1 DEF ClientOK, RegistryOK, SentOK, Reading
  <2>3. TaskOK(r)
    BY <2>1 DEF TaskOK, Working, Reading, Early, Unstarted
  <2>4. RowOK(r)
    BY <2>1 DEF RowOK, Early, Unstarted
  <2> QED
    BY <2>2, <2>3, <2>4
<1>3. \A w \in Workers : \A i \in 1..Len(queue[w]) : JobOK(w, i)
  <2>1. Len(<<>>) = 0 /\ \A i \in 1..0 : FALSE
    OBVIOUS
  <2> QED
    BY <2>1 DEF Init
<1> QED
  BY <1>1, <1>2, <1>3 DEF IInv, ClientsOK, TasksOK, RowsOK, JobsOK, AdmittedOK

\* The jobs, over every step.
LEMMA JobsSteps ==
  ASSUME CaptureAssumption, IInv, Next, TypeOK'
  PROVE  JobsOK'
<1> USE DEF webview, registry, capture, bounds, history
<1>0. TypeOK
  BY DEF IInv
<1>1. ASSUME NEW r \in Requests, Call(r) PROVE JobsOK'
  BY <1>1, CallJobs
<1>2. ASSUME NEW r \in Requests, EnqueueBatch(r) PROVE JobsOK'
  BY <1>2, BatchJobs
<1>3. ASSUME NEW r \in Requests, Receive(r) \/ LetGo(r) PROVE JobsOK'
  BY <1>3, DropJobs
<1>4. ASSUME NEW w \in Workers, Work(w) PROVE JobsOK'
  BY <1>4, WorkJobs
<1>5. ASSUME Crash PROVE JobsOK'
  <2>1. \A w \in Workers : queue'[w] = <<>>
    BY <1>5 DEF Crash
  <2>2. Len(<<>>) = 0 /\ \A i \in 1..0 : FALSE
    OBVIOUS
  <2>3. \A r \in Requests : pc'[r] \notin Reading
    BY <1>5 DEF Crash, Reading
  <2> QED
    BY <2>1, <2>2, <2>3 DEF JobsOK, SentOK
<1>6. ASSUME \/ \E r \in Requests :
                   \/ Cancel(r) \/ TombstoneAges(r) \/ Abort(r) \/ Forget(r) \/ Record(r)
                   \/ DeleteExecution(r) \/ RowExpires(r)
             \/ Unlock \/ CloseWindow
      PROVE  JobsOK'
  <2>1. UNCHANGED <<queue, pc, enqueued>>
    BY <1>6 DEF Cancel, TombstoneAges, Abort, Forget, Record, DeleteExecution, RowExpires,
       Unlock, CloseWindow
  <2>2. \A q \in Requests : Steady(q, pc'[q], handle'[q], enqueued'[q], body'[q], wrote'[q])
    BY <1>6, SteadySteps
  <2> QED
    BY <2>1, <2>2, JobsKept
<1>7. ASSUME NEW r \in Requests,
             \/ Register(r) \/ Begin(r) \/ Headers(r) \/ FullBatch(r) \/ BodyEnds(r)
             \/ BodyFails(r) \/ AwaitWrite(r) \/ Drained(r) \/ Cancelled(r) \/ Return(r)
             \/ Send(r)
      PROVE  JobsOK'
  <2>1. UNCHANGED <<queue, enqueued>>
    BY <1>7 DEF Register, Begin, Headers, FullBatch, BodyEnds, BodyFails, AwaitWrite, Drained,
       Cancelled, Return, Send
  <2>2. \A q \in Requests : Steady(q, pc'[q], handle'[q], enqueued'[q], body'[q], wrote'[q])
    BY <1>7, SteadySteps DEF Task
  <2>3. \A q \in Requests : pc'[q] \in Reading => pc[q] \in Reading
    <3>1. \A q \in Requests : q # r => pc'[q] = pc[q]
      <4>1. \E next : pc' = [pc EXCEPT ![r] = next]
        <5>1. CASE Register(r) \/ Begin(r) \/ Cancelled(r) \/ AwaitWrite(r)
          BY <5>1 DEF Register, Begin, Cancelled, AwaitWrite
        <5>2. CASE \/ Headers(r) \/ FullBatch(r) \/ BodyEnds(r) \/ BodyFails(r)
                   \/ Drained(r) \/ Return(r) \/ Send(r)
          BY <5>2 DEF Headers, FullBatch, BodyEnds, BodyFails, Drained, Return, Send
        <5> QED
          BY <1>7, <5>1, <5>2
      <4>2. pc \in [Requests -> Stages]
        BY <1>0 DEF TypeOK
      <4> QED
        BY <4>1, <4>2
    <3>2. pc'[r] \in Reading => pc[r] \in Reading
      <4>1. CASE AwaitWrite(r)
        BY <1>0, <4>1 DEF TypeOK, AwaitWrite, Reading
      <4>2. CASE ~AwaitWrite(r)
        BY <1>0, <1>7, <4>2 DEF TypeOK, Register, Begin, Headers, FullBatch, BodyEnds,
           BodyFails, Drained, Cancelled, Return, Send, Reading
      <4> QED
        BY <4>1, <4>2
    <3> QED
      BY <3>1, <3>2
  <2> QED
    BY <2>1, <2>2, <2>3, JobsKept
<1> QED
  BY <1>1, <1>2, <1>3, <1>4, <1>5, <1>6, <1>7 DEF Next, Task

\* The types and what is known of each request, over every step.
LEMMA RequestSteps ==
  ASSUME CaptureAssumption, IInv, Next
  PROVE  TypeOK' /\ ClientsOK' /\ TasksOK' /\ RowsOK'
<1>1. TypeOK'
  BY TaskTypes, SendingTypes, WorldTypes DEF Next, Task
<1>2. ASSUME NEW q \in Requests
      PROVE  ClientOK(q)' /\ TaskOK(q)' /\ RowOK(q)'
  <2>1. ASSUME NEW r \in Requests,
               \/ Cancel(r) \/ TombstoneAges(r) \/ Task(r) \/ Send(r) \/ Abort(r)
               \/ Receive(r) \/ LetGo(r) \/ Forget(r) \/ Record(r) \/ DeleteExecution(r)
               \/ RowExpires(r)
        PROVE  ClientOK(q)' /\ TaskOK(q)' /\ RowOK(q)'
    <3>1. CASE q # r
      BY <2>1, <3>1, Others
    <3>2. CASE q = r
      <4>1. CASE Cancel(r) \/ TombstoneAges(r) \/ Register(r) \/ Send(r) \/ Abort(r)
        BY <3>2, <4>1, RegistrySteps
      <4>2. CASE Begin(r) \/ Call(r) \/ Headers(r)
        BY <3>2, <4>2, OpeningSteps
      <4>3. CASE \/ FullBatch(r) \/ BodyEnds(r) \/ BodyFails(r) \/ EnqueueBatch(r)
                 \/ AwaitWrite(r) \/ Drained(r)
        BY <3>2, <4>3, ReadingSteps
      <4>4. CASE Cancelled(r) \/ Return(r)
        BY <3>2, <4>4, ClosingSteps
      <4>5. CASE \/ Receive(r) \/ LetGo(r) \/ Forget(r) \/ Record(r) \/ DeleteExecution(r)
                 \/ RowExpires(r)
        BY <3>2, <4>5, WebviewSteps
      <4> QED
        BY <2>1, <4>1, <4>2, <4>3, <4>4, <4>5 DEF Task
    <3> QED
      BY <3>1, <3>2
  <2>2. ASSUME NEW w \in Workers, Work(w)
        PROVE  ClientOK(q)' /\ TaskOK(q)' /\ RowOK(q)'
    <3>1. PICK job : job = Head(queue[w])
      OBVIOUS
    <3>2. PICK r : r = job.request
      OBVIOUS
    <3>3. CASE q = r
      BY <2>2, <3>1, <3>2, <3>3, WorkSelf
    <3>4. CASE q # r
      BY <2>2, <3>1, <3>2, <3>4, WorkOthers
    <3> QED
      BY <3>3, <3>4
  <2>3. CASE Unlock \/ CloseWindow \/ Crash
    BY <2>3, WorldSteps
  <2> QED
    BY <2>1, <2>2, <2>3 DEF Next
<1> QED
  BY <1>1, <1>2 DEF ClientsOK, TasksOK, RowsOK

\* A step that changes nothing changes nothing of it.
LEMMA Stutters ==
  ASSUME CaptureAssumption, IInv, UNCHANGED vars
  PROVE  IInv'
<1>1. UNCHANGED <<client, aborted, cancels, closed, entry, signal, pc, handle, received,
                  enqueued, awaited, wrote, outcome, queue, current, row, unlocked, faults,
                  crashes, network, revoked, body, leaked>>
  BY DEF vars, webview, registry, capture, bounds, history
<1>2. TypeOK' /\ ClientsOK' /\ AdmittedOK'
  BY <1>1 DEF IInv, TypeOK, ClientsOK, ClientOK, AdmittedOK, RegistryOK
<1>3. TasksOK' /\ RowsOK'
  BY <1>1 DEF IInv, TasksOK, TaskOK, RowsOK, RowOK, Complete
<1>4. JobsOK'
  BY <1>1 DEF IInv, JobsOK, JobOK, SentOK, Complete
<1> QED
  BY <1>2, <1>3, <1>4 DEF IInv

\* The invariant of ResponseCapture: what every stage of a task, every queued
\* job, every stored row and every registry entry may rely on (http/transport.rs,
\* content/actor.rs, content/store.rs, http/operations.rs).
THEOREM ResponseInvariance ==
  ASSUME CaptureAssumption
  PROVE  Spec => []IInv
<1>1. Init => IInv
  BY InitInvariant
<1>2. IInv /\ [Next]_vars => IInv'
  <2>1. ASSUME IInv, Next PROVE IInv'
    BY <2>1, RequestSteps, JobsSteps, AdmittedSteps DEF IInv
  <2> QED
    BY <2>1, Stutters
<1> QED
  BY <1>1, <1>2, PTL DEF Spec

\* What start_http reported is what is stored: readable content is the whole
\* body, and a failed request leaves nothing but what the database refused to
\* release.
THEOREM StoredWhole ==
  ASSUME CaptureAssumption
  PROVE  Spec => []StoredAsReported
<1>1. IInv => StoredAsReported
  <2>1. ASSUME IInv, NEW r \in Requests PROVE RowOK(r)
    BY <2>1 DEF IInv, RowsOK
  <2> QED
    BY <2>1 DEF StoredAsReported, ReadableIsWhole, FailedLeavesNothing, RowOK, Exact
<1> QED
  BY <1>1, ResponseInvariance, PTL

\* A recorded execution keeps its whole response, a cancelled request never
\* reaches the network, and a response that must be encrypted is never with a
\* worker that has no keys.
THEOREM ResponsesGuarded ==
  ASSUME CaptureAssumption
  PROVE  Spec => []ResponsesAreGuarded
<1>1. IInv => ResponsesAreGuarded
  <2>1. SUFFICES ASSUME IInv PROVE ResponsesAreGuarded
    OBVIOUS
  <2>2. \A r \in Requests : RowOK(r) /\ RegistryOK(r)
    BY <2>1 DEF IInv, RowsOK, AdmittedOK
  <2>3. RecordedStaysReadable
    BY <2>2 DEF RecordedStaysReadable, RowOK, Exact
  <2>4. revoked \cap network = {}
    <3>1. revoked \subseteq Requests
      BY <2>1 DEF IInv, TypeOK
    <3> QED
      BY <2>2, <3>1 DEF RegistryOK
  <2>5. \A r \in Encrypted : r \in network \/ row[r].state # "absent" => handle[r] = "keyed"
    BY <2>2 DEF CaptureAssumption, RowOK
  <2> QED
    BY <2>3, <2>4, <2>5 DEF ResponsesAreGuarded, OnlyAdmittedSends
<1> QED
  BY <1>1, ResponseInvariance, PTL
=============================================================================
