---------------------------- MODULE SessionProofs ----------------------------
(***************************************************************************)
(* The theorems of WorkspaceSession, for every set of files and contents   *)
(* and whatever the bounds: its types, that a quiet session is a saved     *)
(* one, and that reloads and deletions undo nobody's work.                 *)
(***************************************************************************)
EXTENDS WorkspaceSession, TLAPS

Saves == {"save", "retried save"}
Reloads == {"reload", "retry"}

\* A workspace is off the disk exactly when the session has forgotten it, and
\* then it counts as deleted for good: only its one deletion, while it waits,
\* could make it count as present again.
DeletionOK ==
    /\ snapshot = Absent <=> disk = Absent
    /\ snapshot = Absent => deleted
    /\ store = Absent => snapshot = Absent
    /\ \A i, j \in DOMAIN queue :
          queue[i].kind = "delete" /\ queue[j].kind = "delete" => i = j

\* What a job was given when it was queued, and what it has learnt before it
\* waits.
JobOK(job, forgotten, gone) ==
    /\ job.kind = "delete" => gone /\ ~forgotten
    /\ job.kind = "save" /\ job.store = Absent => forgotten
    /\ job.kind \in {"retry", "retried save"} => job.store # Absent
    /\ job.phase = "committed" =>
          job.kind \in Saves /\ job.store # Absent /\ ~forgotten
    /\ job.phase = "scanned" =>
          job.kind \in Reloads /\ job.store # Absent /\ job.files # Absent /\ ~forgotten

JobsOK == \A i \in DOMAIN queue : JobOK(queue[i], snapshot = Absent, deleted)

\* An autosave of the store that is shown.
Latest(job) == job.kind = "save" /\ job.latest

\* A save that would leave an older store behind as the baseline.
Outdated(job) == job.kind = "retried save" \/ (job.kind = "save" /\ ~job.latest)

\* Until a deletion is asked for: what is shown is the baseline, or will be
\* saved, or an error is shown, or the workspace is read-only; and unless the
\* timer runs, behind every save of an older store the queue has one of the
\* store that is shown.
SavedOK ==
    ~deleted /\ refusals = 0 =>
        /\ timer \/ saveError \/ readonly \/ store = project
               \/ \E i \in DOMAIN queue : Latest(queue[i])
        /\ \A i \in DOMAIN queue : Latest(queue[i]) => queue[i].store = store
        /\ ~timer => \A i \in DOMAIN queue : Outdated(queue[i]) =>
               \E j \in DOMAIN queue : j > i /\ Latest(queue[j])

IInv == TypeOK /\ DeletionOK /\ JobsOK /\ SavedOK

-----------------------------------------------------------------------------
(* The queue.                                                              *)

\* Taking the head off a queue of jobs.
LEMMA TailOf ==
  ASSUME NEW s \in Seq(Jobs), s # <<>>
  PROVE  /\ Tail(s) \in Seq(Jobs) /\ DOMAIN Tail(s) = 1..Len(s) - 1
         /\ \A i \in DOMAIN Tail(s) : i + 1 \in DOMAIN s /\ Tail(s)[i] = s[i + 1]
         /\ 1 \in DOMAIN s
  OBVIOUS

\* Putting a job behind a queue.
LEMMA AppendOf ==
  ASSUME NEW s \in Seq(Jobs), NEW e \in Jobs
  PROVE  /\ Append(s, e) \in Seq(Jobs) /\ DOMAIN Append(s, e) = 1..Len(s) + 1
         /\ DOMAIN s = 1..Len(s) /\ Len(s) \in Nat
         /\ \A i \in DOMAIN s : Append(s, e)[i] = s[i]
         /\ Append(s, e)[Len(s) + 1] = e
  OBVIOUS

\* A superseded queue has the same jobs, none of them the latest.
LEMMA SupersededOf ==
  ASSUME NEW s \in Seq(Jobs)
  PROVE  /\ Superseded(s) \in Seq(Jobs) /\ Len(Superseded(s)) = Len(s)
         /\ DOMAIN Superseded(s) = DOMAIN s
         /\ \A i \in DOMAIN s :
               /\ Superseded(s)[i] = [s[i] EXCEPT !.latest = FALSE]
               /\ Superseded(s)[i].kind = s[i].kind
               /\ Superseded(s)[i].store = s[i].store
               /\ Superseded(s)[i].files = s[i].files
               /\ Superseded(s)[i].phase = s[i].phase
               /\ ~Superseded(s)[i].latest
<1>1. \A i \in DOMAIN s : s[i] \in Jobs
  OBVIOUS
<1>2. \A i \in DOMAIN s : [s[i] EXCEPT !.latest = FALSE] \in Jobs
  BY <1>1 DEF Jobs
<1>3. Superseded(s) \in Seq(Jobs) /\ Len(Superseded(s)) = Len(s)
  BY <1>2 DEF Superseded
<1>4. \A i \in DOMAIN s : Superseded(s)[i] = [s[i] EXCEPT !.latest = FALSE]
  BY DEF Superseded
<1> QED
  BY <1>1, <1>3, <1>4 DEF Jobs, Superseded

-----------------------------------------------------------------------------
(* The types.                                                              *)

\* What the queue of a session can hold.
QueueOK == queue \in Seq(Jobs) /\ \A i \in DOMAIN queue : i > 1 => queue[i].phase = "queued"

\* A job that has not begun.
LEMMA NewJob ==
  ASSUME NEW kind \in {"save", "retried save", "reload", "retry", "delete"},
         NEW s \in Files \cup {Absent}, NEW paths \in SUBSET Resources
  PROVE  LET job == Job(kind, s, paths) IN
         /\ job \in Jobs /\ job.phase = "queued"
         /\ job.kind = kind /\ job.store = s /\ job.latest
  BY DEF Job, Jobs

\* The ways a queue changes, but for its head.
LEMMA Longer ==
  ASSUME NEW q \in Seq(Jobs), \A i \in DOMAIN q : i > 1 => q[i].phase = "queued",
         NEW job \in Jobs, job.phase = "queued"
  PROVE  /\ Append(q, job) \in Seq(Jobs)
         /\ \A i \in DOMAIN Append(q, job) : i > 1 => Append(q, job)[i].phase = "queued"
<1>1. /\ Append(q, job) \in Seq(Jobs) /\ DOMAIN Append(q, job) = 1..Len(q) + 1
      /\ DOMAIN q = 1..Len(q) /\ Len(q) \in Nat
      /\ \A i \in DOMAIN q : Append(q, job)[i] = q[i]
      /\ Append(q, job)[Len(q) + 1] = job
  OBVIOUS
<1>2. ASSUME NEW i \in DOMAIN Append(q, job), i > 1
      PROVE  Append(q, job)[i].phase = "queued"
  <2>1. i \in DOMAIN q \/ i = Len(q) + 1
    BY <1>1
  <2> QED
    BY <1>1, <1>2, <2>1
<1> QED
  BY <1>1, <1>2

\* The jobs behind the head have not begun.
LEMMA Shortened ==
  ASSUME QueueOK, queue # <<>>
  PROVE  /\ Tail(queue) \in Seq(Jobs)
         /\ \A i \in DOMAIN Tail(queue) : Tail(queue)[i].phase = "queued"
<1>1. /\ Tail(queue) \in Seq(Jobs)
      /\ \A i \in DOMAIN Tail(queue) :
            i + 1 \in DOMAIN queue /\ Tail(queue)[i] = queue[i + 1] /\ i + 1 > 1
  BY DEF QueueOK
<1> QED
  BY <1>1 DEF QueueOK

\* A queue of jobs that are superseded is one.
LEMMA Resumed ==
  ASSUME NEW q \in Seq(Jobs), \A i \in DOMAIN q : i > 1 => q[i].phase = "queued",
         queue' = Superseded(q)
  PROVE  QueueOK'
<1>1. /\ Superseded(q) \in Seq(Jobs) /\ DOMAIN Superseded(q) = DOMAIN q
      /\ \A i \in DOMAIN q : Superseded(q)[i].phase = q[i].phase
  BY SupersededOf
<1> QED
  BY <1>1 DEF QueueOK

\* The queue that is superseded, the one without its head, and both.
LEMMA Moves ==
  ASSUME QueueOK
  PROVE  /\ queue' = Superseded(queue) => QueueOK'
         /\ queue # <<>> =>
               /\ queue' = Tail(queue) => QueueOK'
               /\ queue' = Superseded(Tail(queue)) => QueueOK'
<1>1. ASSUME queue' = Superseded(queue) PROVE QueueOK'
  BY <1>1, Resumed DEF QueueOK
<1>2. ASSUME queue # <<>>, queue' = Tail(queue) PROVE QueueOK'
  BY <1>2, Shortened DEF QueueOK
<1>3. ASSUME queue # <<>>, queue' = Superseded(Tail(queue)) PROVE QueueOK'
  BY <1>3, Shortened, Resumed
<1> QED
  BY <1>1, <1>2, <1>3

\* The queue with a job behind it, or a retried save behind what is left of it.
LEMMA Grows ==
  ASSUME QueueOK, NEW kind \in {"save", "retried save", "reload", "retry", "delete"},
         NEW s \in Files \cup {Absent}, NEW paths \in SUBSET Resources
  PROVE  /\ queue' = Enqueued(kind, s, paths) => QueueOK'
         /\ queue # <<>> =>
               (queue' = Superseded(Append(Superseded(Tail(queue)), Job(kind, s, paths)))
                => QueueOK')
<1> DEFINE job == Job(kind, s, paths)
<1>1. job \in Jobs /\ job.phase = "queued"
  BY DEF Job, Jobs
<1>2. Enqueued(kind, s, paths) = Append(queue, job)
  BY DEF Enqueued
<1> HIDE DEF job
<1>3. ASSUME queue' = Enqueued(kind, s, paths) PROVE QueueOK'
  <2>1. /\ Append(queue, job) \in Seq(Jobs)
        /\ \A i \in DOMAIN Append(queue, job) :
              i > 1 => Append(queue, job)[i].phase = "queued"
    BY <1>1, Longer DEF QueueOK
  <2> QED
    BY <1>2, <1>3, <2>1 DEF QueueOK
<1>4. ASSUME queue # <<>>, queue' = Superseded(Append(Superseded(Tail(queue)), job))
      PROVE  QueueOK'
  <2> DEFINE q == Superseded(Tail(queue))
  <2>1. q \in Seq(Jobs) /\ \A i \in DOMAIN q : q[i].phase = "queued"
    BY <1>4, Shortened, SupersededOf
  <2> HIDE DEF q
  <2>2. /\ Append(q, job) \in Seq(Jobs)
        /\ \A i \in DOMAIN Append(q, job) : i > 1 => Append(q, job)[i].phase = "queued"
    BY <1>1, <2>1, Longer
  <2>3. queue' = Superseded(Append(q, job))
    BY <1>4 DEF q
  <2> QED
    BY <2>2, <2>3, Resumed
<1> QED
  BY <1>3, <1>4 DEF job

\* The head of the queue while it runs.
LEMMA Head1 ==
  ASSUME QueueOK, queue # <<>>
  PROVE  1 \in DOMAIN queue /\ queue[1] \in Jobs
  BY DEF QueueOK

\* The head of the queue learns something.
LEMMA HeadChanged ==
  ASSUME QueueOK, queue # <<>>, NEW job \in Jobs, queue' = [queue EXCEPT ![1] = job]
  PROVE  QueueOK'
<1>1. queue' \in Seq(Jobs) /\ DOMAIN queue' = DOMAIN queue
  BY DEF QueueOK
<1>2. \A i \in DOMAIN queue : i > 1 => queue'[i] = queue[i]
  BY DEF QueueOK
<1> QED
  BY <1>1, <1>2 DEF QueueOK

\* What a session is besides its queue.
SessionOK ==
    /\ store \in Files \cup {Absent}
    /\ timer \in BOOLEAN /\ saving \in BOOLEAN /\ saveError \in BOOLEAN
    /\ snapshot \in Scans \cup {Absent} /\ project \in Files \cup {Absent}
    /\ snapshot = Absent <=> project = Absent
    /\ deleted \in BOOLEAN /\ cache \in Scans /\ readonly \in BOOLEAN
    /\ disk \in Scans \cup {Absent}
    /\ event \in SUBSET Resources
    /\ edits \in 0..MaxEdits /\ externals \in 0..MaxExternal
    /\ retries \in 0..MaxRetries /\ deletes \in 0..MaxDeletes
    /\ refusals \in 0..MaxDeleteFailures
    /\ conflicted \in BOOLEAN

\* Files that can be read are definitions.
LEMMA ReadableFiles ==
  ASSUME NEW files \in Scans, Readable(files)
  PROVE  files \in Files
  BY DEF Readable, Scans, Files

\* The types are preserved.
LEMMA TypeStep ==
  ASSUME TypeOK, DeletionOK, JobsOK, [Next]_vars
  PROVE  TypeOK'
<1> USE SessionAssumption
<1>1. QueueOK /\ SessionOK
  BY DEF TypeOK, QueueOK, SessionOK
<1>2. SUFFICES QueueOK' /\ SessionOK'
  BY DEF TypeOK, QueueOK, SessionOK
<1>3. Absent \notin Files /\ Absent \notin Scans /\ Files \subseteq Scans
  BY DEF Files, Scans
<1>4. ASSUME NEW r \in Resources, NEW v \in Values, Edit(r, v) PROVE QueueOK' /\ SessionOK'
  <2>1. QueueOK'
    BY <1>1, <1>4, Resumed DEF QueueOK, Edit, Show
  <2>2. SessionOK'
    BY <1>1, <1>4 DEF SessionOK, Edit, Show, Files, session
  <2> QED
    BY <2>1, <2>2
<1>5. ASSUME NEW r \in Resources, NEW v \in Values \cup {Garbled}, ExternalEdit(r, v)
      PROVE  QueueOK' /\ SessionOK'
  <2>1. disk' \in Scans /\ event' \in SUBSET Resources
    BY <1>1, <1>5 DEF SessionOK, ExternalEdit, Scans
  <2>2. externals' \in 0..MaxExternal
    BY <1>1, <1>5 DEF SessionOK, ExternalEdit
  <2> QED
    BY <1>1, <1>5, <2>1, <2>2 DEF QueueOK, SessionOK, ExternalEdit, session, editor
<1>6. CASE Autosave
  <2>1. QueueOK'
    BY <1>1, <1>6, Grows DEF Autosave, SessionOK
  <2>2. SessionOK'
    BY <1>1, <1>6 DEF SessionOK, Autosave, session, bounds
  <2> QED
    BY <2>1, <2>2
<1>7. CASE Notify
  <2>1. QueueOK'
    <3>1. PICK paths \in SUBSET Resources : queue' = Enqueued("reload", Absent, paths)
      BY <1>1, <1>7 DEF Notify, SessionOK
    <3> QED
      BY <1>1, <3>1, Grows
  <2>2. SessionOK'
    BY <1>1, <1>7 DEF SessionOK, Notify, editor, session, bounds
  <2> QED
    BY <2>1, <2>2
<1>8. CASE SaveNothing
  <2>1. QueueOK'
    BY <1>1, <1>8, Moves DEF SaveNothing, SaveSucceeded, Working
  <2>2. SessionOK'
    BY <1>1, <1>8, Head1 DEF SessionOK, SaveNothing, SaveSucceeded, Working, Jobs, bounds, Skipped
  <2> QED
    BY <2>1, <2>2
<1>9. CASE Commit
  <2>1. QueueOK'
    <3>1. queue # <<>> /\ queue[1] \in Jobs /\ queue' = [queue EXCEPT ![1].phase = "committed"]
      BY <1>1, <1>9, Head1 DEF Commit, Working
    <3>2. [queue[1] EXCEPT !.phase = "committed"] \in Jobs
      BY <3>1 DEF Jobs
    <3> QED
      BY <1>1, <3>1, <3>2, HeadChanged
  <2>2. disk' \in Scans
    <3>1. queue[1].store \in Files
      BY <1>1, <1>9, Head1 DEF Commit, Working, Jobs, Skipped
    <3> QED
      BY <1>1, <1>9, <3>1 DEF SessionOK, Commit, Files, Scans
  <2>3. event' \in SUBSET Resources
    BY <1>1, <1>9 DEF SessionOK, Commit
  <2>4. SessionOK'
    BY <1>1, <1>9, <2>2, <2>3 DEF SessionOK, Commit, editor, session, bounds
  <2> QED
    BY <2>1, <2>4
<1>10. CASE CommitRejected
  <2>1. QueueOK'
    BY <1>1, <1>10, Moves DEF CommitRejected, SaveFailed, Working
  <2>2. SessionOK'
    BY <1>1, <1>10 DEF SessionOK, CommitRejected, SaveFailed, session, bounds
  <2> QED
    BY <2>1, <2>2
<1>11. CASE Saved
  <2>1. QueueOK'
    BY <1>1, <1>11, Moves DEF Saved, SaveSucceeded, Working
  <2>2. queue[1].store \in Files
    BY <1>1, <1>11, Head1 DEF JobsOK, JobOK, Saved, Working, Jobs
  <2>3. cache' \in Scans
    BY <1>1, <1>11, <2>2 DEF SessionOK, Saved, Files, Scans
  <2>4. SessionOK'
    BY <1>1, <1>3, <1>11, <2>2, <2>3 DEF SessionOK, Saved, SaveSucceeded, bounds
  <2> QED
    BY <2>1, <2>4
<1>12. CASE Rescan
  <2>1. Scanned(snapshot, queue[1].paths) \in Scans /\ Scanned(cache, queue[1].paths) \in Scans
    <3>1. disk \in Scans /\ snapshot \in Scans /\ cache \in Scans
      BY <1>1, <1>12 DEF SessionOK, DeletionOK, Rescan
    <3> QED
      BY <3>1 DEF Scanned, Scans
  <2>2. QueueOK'
    <3> DEFINE files == Scanned(snapshot, queue[1].paths)
               job == [queue[1] EXCEPT !.phase = "scanned", !.files = files,
                                       !.store = IF @ = Absent THEN store ELSE @]
    <3>1. queue # <<>> /\ queue[1] \in Jobs /\ queue' = [queue EXCEPT ![1] = job]
      BY <1>1, <1>12, Head1 DEF Rescan, Working
    <3>2. job \in Jobs
      BY <1>1, <2>1, <3>1 DEF Jobs, SessionOK
    <3> QED
      BY <1>1, <3>1, <3>2, HeadChanged
  <2>3. SessionOK'
    BY <1>1, <1>12, <2>1 DEF SessionOK, Rescan, editor, bounds
  <2> QED
    BY <2>2, <2>3
<1>13. CASE NothingToReload
  <2>1. queue # <<>> /\ queue[1] \in Jobs
    BY <1>1, <1>13, Head1 DEF NothingToReload, Working
  <2>2. QueueOK'
    <3>1. CASE queue[1].kind = "reload"
      BY <1>1, <1>13, <2>1, <3>1, Moves DEF NothingToReload
    <3>2. CASE queue[1].kind # "reload"
      <4>1. queue[1].store \in Files \cup {Absent}
        BY <2>1 DEF Jobs
      <4>2. queue' = Superseded(Append(Superseded(Tail(queue)), Job("retried save", queue[1].store, {})))
        BY <1>13, <3>2 DEF NothingToReload, Show, RetrySave
      <4> QED
        BY <1>1, <2>1, <4>1, <4>2, Grows
    <3> QED
      BY <3>1, <3>2
  <2>3. SessionOK'
    BY <1>1, <1>13, <2>1 DEF SessionOK, NothingToReload, Show, Jobs, session, bounds
  <2> QED
    BY <2>2, <2>3
<1>14. CASE ReloadConflict
  <2>1. QueueOK'
    BY <1>1, <1>14, Moves DEF ReloadConflict, ReloadFails, Working
  <2>2. SessionOK'
    BY <1>1, <1>14 DEF SessionOK, ReloadConflict, ReloadFails, bounds
  <2> QED
    BY <2>1, <2>2
<1>15. CASE Reload
  <2>1. queue # <<>> /\ queue[1] \in Jobs /\ queue[1].store \in Files
           /\ queue[1].files \in Files /\ project \in Files
    <3>1. queue # <<>> /\ queue[1] \in Jobs /\ queue[1].store \in Files
             /\ queue[1].files \in Scans /\ project \in Files
      BY <1>1, <1>15, Head1 DEF SessionOK, JobsOK, JobOK, Reload, Working, Jobs
    <3>2. Readable(queue[1].files)
      BY <1>15 DEF Reload
    <3> QED
      BY <3>1, <3>2, ReadableFiles
  <2>2. Merged(queue[1].store, queue[1].files) \in Files
    BY <2>1 DEF Merged, Files
  <2>3. QueueOK'
    <3>1. CASE queue[1].kind = "reload"
      BY <1>1, <1>15, <2>1, <3>1, Moves DEF Reload, Show
    <3>2. CASE queue[1].kind # "reload"
      <4> DEFINE merged == Merged(queue[1].store, queue[1].files)
      <4>1. queue' = Superseded(Append(Superseded(Tail(queue)), Job("retried save", merged, {})))
        BY <1>15, <3>2 DEF Reload, Show, RetrySave, Working
      <4> QED
        BY <1>1, <2>1, <2>2, <4>1, Grows
    <3> QED
      BY <3>1, <3>2
  <2>4. SessionOK'
    BY <1>1, <1>3, <1>15, <2>1, <2>2 DEF SessionOK, Reload, Show, bounds
  <2> QED
    BY <2>3, <2>4
<1>16. CASE Delete
  <2>1. QueueOK'
    BY <1>1, <1>16, Moves DEF Delete, Show, Working
  <2>2. SessionOK'
    BY <1>1, <1>16 DEF SessionOK, Delete, Show, Forget, bounds
  <2> QED
    BY <2>1, <2>2
<1>17. CASE DeleteRefused
  <2>1. QueueOK'
    BY <1>1, <1>17, Moves DEF DeleteRefused, Working
  <2>2. SessionOK'
    <3>1. refusals' \in 0..MaxDeleteFailures
      BY <1>1, <1>17 DEF SessionOK, DeleteRefused
    <3> QED
      BY <1>1, <1>17, <3>1 DEF SessionOK, DeleteRefused, editor
  <2> QED
    BY <2>1, <2>2
<1>18. CASE ClickRetry
  <2>1. QueueOK'
    BY <1>1, <1>18, Grows DEF ClickRetry, SessionOK
  <2>2. SessionOK'
    <3>1. retries' \in 0..MaxRetries
      <4>1. retries < MaxRetries /\ retries' = retries + 1
        BY <1>18 DEF ClickRetry
      <4> QED
        BY <1>1, <4>1 DEF SessionOK
    <3> QED
      BY <1>1, <1>18, <3>1 DEF SessionOK, ClickRetry, session
  <2> QED
    BY <2>1, <2>2
<1>19. CASE ClickDelete
  <2>1. QueueOK'
    BY <1>1, <1>19, Grows DEF ClickDelete
  <2>2. SessionOK'
    BY <1>1, <1>19 DEF SessionOK, ClickDelete, editor
  <2> QED
    BY <2>1, <2>2
<1>20. CASE UNCHANGED vars
  BY <1>1, <1>20 DEF QueueOK, SessionOK, vars, editor, session, bounds
<1>21. CASE ReloadUnreadable
  <2>1. QueueOK'
    BY <1>1, <1>21, Moves DEF ReloadUnreadable, ReloadFails, Working
  <2>2. SessionOK'
    BY <1>1, <1>21 DEF SessionOK, ReloadUnreadable, ReloadFails, bounds
  <2> QED
    BY <2>1, <2>2
<1> QED
  BY <1>21, <1>4, <1>5, <1>6, <1>7, <1>8, <1>9, <1>10, <1>11, <1>12, <1>13, <1>14, <1>15,
     <1>16, <1>17, <1>18, <1>19, <1>20 DEF Next, RunQueue

-----------------------------------------------------------------------------
(* Where the jobs of the next queue come from.                             *)

SameJob(a, b) ==
    b.kind = a.kind /\ b.store = a.store /\ b.files = a.files /\ b.phase = a.phase

\* Behind the head: every job of the next queue was one place further back.
LEMMA OfTail ==
  ASSUME QueueOK, queue # <<>>, queue' = Tail(queue)
  PROVE  /\ Len(queue) \in Nat \ {0} /\ DOMAIN queue = 1..Len(queue)
         /\ DOMAIN queue' = 1..Len(queue) - 1
         /\ \A i \in DOMAIN queue' : i + 1 \in DOMAIN queue /\ queue'[i] = queue[i + 1]
  BY DEF QueueOK

\* Every job but the last was where it is.
LEMMA OfEnqueued ==
  ASSUME QueueOK, NEW kind, NEW s, NEW paths, queue' = Enqueued(kind, s, paths)
  PROVE  /\ Len(queue) \in Nat /\ DOMAIN queue = 1..Len(queue)
         /\ DOMAIN queue' = 1..Len(queue) + 1
         /\ \A i \in DOMAIN queue : queue'[i] = queue[i]
         /\ queue'[Len(queue) + 1] = Job(kind, s, paths)
<1> DEFINE job == Job(kind, s, paths)
<1>1. queue' = Append(queue, job)
  BY DEF Enqueued
<1> HIDE DEF job
<1> QED
  BY <1>1 DEF QueueOK, job

\* Every job is where it was, and outdated.
LEMMA OfSuperseded ==
  ASSUME QueueOK, queue' = Superseded(queue)
  PROVE  /\ DOMAIN queue' = DOMAIN queue
         /\ \A i \in DOMAIN queue : SameJob(queue[i], queue'[i]) /\ ~queue'[i].latest
<1>1. queue \in Seq(Jobs)
  BY DEF QueueOK
<1>2. /\ DOMAIN Superseded(queue) = DOMAIN queue
      /\ \A i \in DOMAIN queue :
            SameJob(queue[i], Superseded(queue)[i]) /\ ~Superseded(queue)[i].latest
  BY <1>1, SupersededOf DEF SameJob
<1> QED
  BY <1>2

\* Every job was one place further back, and is outdated.
LEMMA OfResumed ==
  ASSUME QueueOK, queue # <<>>, queue' = Superseded(Tail(queue))
  PROVE  /\ Len(queue) \in Nat \ {0} /\ DOMAIN queue = 1..Len(queue)
         /\ DOMAIN queue' = 1..Len(queue) - 1
         /\ \A i \in DOMAIN queue' :
               i + 1 \in DOMAIN queue /\ SameJob(queue[i + 1], queue'[i]) /\ ~queue'[i].latest
<1>1. /\ Len(queue) \in Nat \ {0} /\ DOMAIN queue = 1..Len(queue)
      /\ Tail(queue) \in Seq(Jobs) /\ DOMAIN Tail(queue) = 1..Len(queue) - 1
      /\ \A i \in DOMAIN Tail(queue) : i + 1 \in DOMAIN queue /\ Tail(queue)[i] = queue[i + 1]
  BY DEF QueueOK
<1>2. /\ DOMAIN Superseded(Tail(queue)) = DOMAIN Tail(queue)
      /\ \A i \in DOMAIN Tail(queue) :
            /\ SameJob(Tail(queue)[i], Superseded(Tail(queue))[i])
            /\ ~Superseded(Tail(queue))[i].latest
  BY <1>1, SupersededOf DEF SameJob
<1> QED
  BY <1>1, <1>2

\* Every job but the last, the retried save, was one place further back.
LEMMA OfRetry ==
  ASSUME QueueOK, queue # <<>>, NEW s \in Files \cup {Absent},
         queue' = Superseded(RetrySave(s, Tail(queue)))
  PROVE  /\ Len(queue) \in Nat \ {0} /\ DOMAIN queue = 1..Len(queue)
         /\ DOMAIN queue' = 1..Len(queue)
         /\ \A i \in 1..Len(queue) - 1 :
               i + 1 \in DOMAIN queue /\ SameJob(queue[i + 1], queue'[i]) /\ ~queue'[i].latest
         /\ LET job == queue'[Len(queue)] IN
               /\ job.kind = "retried save" /\ job.store = s /\ job.phase = "queued"
               /\ ~job.latest
<1> DEFINE job == Job("retried save", s, {})
           q == Superseded(Tail(queue))
<1>1. /\ Len(queue) \in Nat \ {0} /\ DOMAIN queue = 1..Len(queue)
      /\ Tail(queue) \in Seq(Jobs) /\ Len(Tail(queue)) = Len(queue) - 1
      /\ \A i \in 1..Len(queue) - 1 : i + 1 \in DOMAIN queue /\ Tail(queue)[i] = queue[i + 1]
  BY DEF QueueOK
<1>2. /\ q \in Seq(Jobs) /\ Len(q) = Len(queue) - 1
      /\ \A i \in 1..Len(queue) - 1 : SameJob(queue[i + 1], q[i])
  <2>1. \A i \in 1..Len(queue) - 1 : i \in DOMAIN Tail(queue)
    BY <1>1
  <2>2. /\ q \in Seq(Jobs) /\ Len(q) = Len(Tail(queue))
        /\ \A i \in DOMAIN Tail(queue) :
              /\ q[i].kind = Tail(queue)[i].kind /\ q[i].store = Tail(queue)[i].store
              /\ q[i].files = Tail(queue)[i].files /\ q[i].phase = Tail(queue)[i].phase
    BY <1>1, SupersededOf
  <2> QED
    BY <1>1, <2>1, <2>2 DEF SameJob
<1>3. /\ job \in Jobs /\ job.kind = "retried save" /\ job.store = s /\ job.phase = "queued"
  BY DEF Job, Jobs
<1>4. queue' = Superseded(Append(q, job))
  BY DEF RetrySave
<1> HIDE DEF job, q
<1> DEFINE p == Append(q, job)
<1>5. /\ p \in Seq(Jobs) /\ DOMAIN p = 1..Len(queue)
      /\ \A i \in 1..Len(queue) - 1 : SameJob(queue[i + 1], p[i])
      /\ p[Len(queue)] = job
  <2>1. /\ p \in Seq(Jobs) /\ DOMAIN p = 1..Len(q) + 1 /\ DOMAIN q = 1..Len(q)
        /\ \A i \in DOMAIN q : p[i] = q[i]
        /\ p[Len(q) + 1] = job
    BY <1>2, <1>3, AppendOf
  <2> HIDE DEF p
  <2>2. Len(q) + 1 = Len(queue) /\ DOMAIN q = 1..Len(queue) - 1
    BY <1>1, <1>2, <2>1
  <2> QED
    BY <1>1, <1>2, <2>1, <2>2
<1> HIDE DEF p
<1>6. queue' = Superseded(p)
  BY <1>4 DEF p
<1>7. /\ DOMAIN Superseded(p) = DOMAIN p
      /\ \A i \in DOMAIN p : SameJob(p[i], Superseded(p)[i]) /\ ~Superseded(p)[i].latest
  BY <1>5, SupersededOf DEF SameJob
<1>8. \A i \in 1..Len(queue) - 1 : i \in DOMAIN p
  BY <1>1, <1>5
<1>9. Len(queue) \in DOMAIN p
  BY <1>1, <1>5
<1> QED
  BY <1>1, <1>3, <1>5, <1>6, <1>7, <1>8, <1>9 DEF SameJob

-----------------------------------------------------------------------------
(* Deletion, and what the jobs know.                                       *)

\* A job keeps what it knows as long as the session does.
LEMMA JobKept ==
  ASSUME NEW a, NEW b, SameJob(a, b), NEW forgotten \in BOOLEAN, NEW gone \in BOOLEAN,
         NEW gone2 \in BOOLEAN, gone => gone2, JobOK(a, forgotten, gone)
  PROVE  JobOK(b, forgotten, gone2)
  BY DEF SameJob, JobOK

\* The workspace and its jobs stay in step.
LEMMA SafeStep ==
  ASSUME TypeOK, DeletionOK, JobsOK, [Next]_vars
  PROVE  DeletionOK' /\ JobsOK'
<1>1. QueueOK
  BY DEF TypeOK, QueueOK
<1>2. deleted \in BOOLEAN /\ store \in Files \cup {Absent} /\ disk \in Scans \cup {Absent}
        /\ cache \in Scans /\ snapshot \in Scans \cup {Absent} /\ Absent \notin Files
        /\ Absent \notin Scans /\ Files \subseteq Scans /\ event \in SUBSET Resources
  BY SessionAssumption DEF TypeOK, Files, Scans
<1>3. ASSUME UNCHANGED queue, UNCHANGED <<snapshot, deleted>> PROVE JobsOK'
  BY <1>3 DEF JobsOK
<1>4. ASSUME NEW r \in Resources, NEW v \in Values, Edit(r, v) PROVE DeletionOK' /\ JobsOK'
  <2>1. queue' = Superseded(queue) /\ store' # Absent
          /\ UNCHANGED <<snapshot, disk, deleted>>
    BY <1>2, <1>4 DEF Edit, Show, session, Files
  <2>2. /\ DOMAIN queue' = DOMAIN queue
        /\ \A i \in DOMAIN queue : SameJob(queue[i], queue'[i])
    BY <1>1, <2>1, OfSuperseded
  <2>3. DeletionOK'
    BY <1>2, <2>1, <2>2 DEF DeletionOK, SameJob
  <2>4. JobsOK'
    BY <2>1, <2>2 DEF JobsOK, JobOK, SameJob
  <2> QED
    BY <2>3, <2>4
<1>5. ASSUME NEW r \in Resources, NEW v \in Values \cup {Garbled}, ExternalEdit(r, v)
      PROVE  DeletionOK' /\ JobsOK'
  <2>1. disk' # Absent /\ UNCHANGED <<store, snapshot, deleted, queue>>
    BY <1>2, <1>5 DEF ExternalEdit, session, editor, Scans
  <2> QED
    BY <1>3, <1>5, <2>1 DEF DeletionOK, ExternalEdit
\* A job joins the queue, and nothing else happens to the workspace.
<1>6. ASSUME NEW kind, NEW s, NEW paths, queue' = Enqueued(kind, s, paths), deleted => deleted',
             UNCHANGED <<store, snapshot, disk>>,
             JobOK(Job(kind, s, paths), snapshot = Absent, deleted'),
             snapshot = Absent => deleted',
             kind = "delete" => ~deleted
      PROVE  DeletionOK' /\ JobsOK'
  <2>1. /\ Len(queue) \in Nat /\ DOMAIN queue = 1..Len(queue)
        /\ DOMAIN queue' = 1..Len(queue) + 1
        /\ \A i \in DOMAIN queue : queue'[i] = queue[i]
        /\ queue'[Len(queue) + 1] = Job(kind, s, paths)
    BY <1>1, <1>6, OfEnqueued
  <2>2. \A i \in DOMAIN queue' : i \in DOMAIN queue \/ i = Len(queue) + 1
    BY <2>1
  <2>3. JobsOK'
    BY <1>6, <2>1, <2>2 DEF JobsOK, JobOK
  <2>4. \A i, j \in DOMAIN queue' :
           queue'[i].kind = "delete" /\ queue'[j].kind = "delete" => i = j
    <3>1. Job(kind, s, paths).kind = kind
      BY DEF Job
    <3>2. kind = "delete" => \A i \in DOMAIN queue : queue[i].kind # "delete"
      BY <1>6 DEF JobsOK, JobOK
    <3> QED
      BY <2>1, <2>2, <3>1, <3>2 DEF DeletionOK
  <2>5. DeletionOK'
    BY <1>6, <2>4 DEF DeletionOK
  <2> QED
    BY <2>3, <2>5
<1>7. CASE Autosave
  <2>1. JobOK(Job("save", store, {}), snapshot = Absent, deleted)
    BY DEF JobOK, Job, DeletionOK, Saves, Reloads
  <2> QED
    BY <1>6, <1>7, <2>1 DEF Autosave, session, DeletionOK
<1>8. CASE Notify
  <2>1. PICK paths \in SUBSET Resources : queue' = Enqueued("reload", Absent, paths)
    BY <1>2, <1>8 DEF Notify
  <2>2. JobOK(Job("reload", Absent, paths), snapshot = Absent, deleted)
    BY DEF JobOK, Job, DeletionOK, Saves, Reloads
  <2> QED
    BY <1>6, <1>8, <2>1, <2>2 DEF Notify, session, editor, DeletionOK
<1>9. CASE ClickRetry
  <2>1. JobOK(Job("retry", store, Resources), snapshot = Absent, deleted)
    BY <1>9 DEF JobOK, Job, ClickRetry, Saves, Reloads
  <2> QED
    BY <1>6, <1>9, <2>1 DEF ClickRetry, session, DeletionOK
<1>10. CASE ClickDelete
  <2>1. snapshot # Absent
    BY <1>10 DEF ClickDelete, DeletionOK
  <2>2. JobOK(Job("delete", Absent, {}), snapshot = Absent, TRUE)
    BY <2>1 DEF JobOK, Job, Saves, Reloads
  <2> QED
    BY <1>6, <1>10, <2>1, <2>2 DEF ClickDelete, editor
\* The head of the queue is done.
<1>11. ASSUME queue # <<>>, queue' = Tail(queue), UNCHANGED <<store, disk, deleted>>,
              snapshot' = Absent <=> snapshot = Absent
       PROVE  DeletionOK' /\ JobsOK'
  <2>1. \A i \in DOMAIN queue' : i + 1 \in DOMAIN queue /\ queue'[i] = queue[i + 1] /\ i \in Nat
    BY <1>1, <1>11, OfTail
  <2>2. JobsOK'
    BY <1>11, <2>1 DEF JobsOK, JobOK
  <2>3. DeletionOK'
    BY <1>11, <2>1 DEF DeletionOK
  <2> QED
    BY <2>2, <2>3
<1>12. CASE SaveNothing
  BY <1>11, <1>12 DEF SaveNothing, SaveSucceeded, Working
<1>13. CASE CommitRejected
  BY <1>11, <1>13 DEF CommitRejected, SaveFailed, Working, session
<1>14. CASE Saved
  <2>1. queue # <<>> /\ 1 \in DOMAIN queue
    BY <1>1, <1>14, Head1 DEF Saved, Working
  <2>2. snapshot # Absent
    BY <1>14, <2>1 DEF Saved, JobsOK, JobOK
  <2>3. snapshot' \in Scans
    BY <1>14, <2>1, TypeStep DEF Saved, TypeOK
  <2> QED
    BY <1>2, <1>11, <1>14, <2>1, <2>2, <2>3 DEF Saved, SaveSucceeded
<1>15. CASE ReloadConflict
  BY <1>11, <1>15 DEF ReloadConflict, ReloadFails, Working
<1>26. CASE ReloadUnreadable
  BY <1>11, <1>26 DEF ReloadUnreadable, ReloadFails, Working
\* The head of the queue has learnt something.
<1>16. ASSUME queue # <<>>, NEW job, queue' = [queue EXCEPT ![1] = job],
              job.kind = queue[1].kind, JobOK(job, snapshot = Absent, deleted),
              UNCHANGED <<store, snapshot, deleted>>, disk' = Absent <=> disk = Absent
       PROVE  DeletionOK' /\ JobsOK'
  <2>1. /\ DOMAIN queue' = DOMAIN queue /\ 1 \in DOMAIN queue /\ queue'[1] = job
        /\ \A i \in DOMAIN queue : i # 1 => queue'[i] = queue[i]
    BY <1>1, <1>16 DEF QueueOK
  <2>2. JobsOK'
    BY <1>16, <2>1 DEF JobsOK
  <2>3. \A i \in DOMAIN queue : queue'[i].kind = queue[i].kind
    BY <1>16, <2>1
  <2>4. DeletionOK'
    BY <1>16, <2>1, <2>3 DEF DeletionOK
  <2> QED
    BY <2>2, <2>4
<1>17. CASE Commit
  <2> DEFINE job == [queue[1] EXCEPT !.phase = "committed"]
  <2>1. /\ queue # <<>> /\ 1 \in DOMAIN queue /\ queue[1] \in Jobs
        /\ queue[1].kind \in Saves /\ queue[1].store # Absent /\ snapshot # Absent
        /\ queue' = [queue EXCEPT ![1] = job]
    BY <1>1, <1>17, Head1 DEF Commit, Working, Skipped, DeletionOK, Saves
  <2>2. job.kind = queue[1].kind /\ JobOK(job, snapshot = Absent, deleted)
    BY <2>1 DEF Jobs, JobOK, Saves, Reloads
  <2>3. disk # Absent /\ disk' # Absent
    <3>1. snapshot # Absent /\ disk' = [r \in Resources |->
              IF r \in Changes(queue[1].store) THEN queue[1].store[r] ELSE disk[r]]
      BY <1>17, <2>1, ZenonT(40) DEF Commit
    <3>2. disk \in Scans /\ queue[1].store \in Files
      BY <1>2, <2>1 DEF DeletionOK, Jobs
    <3>3. disk' \in Scans
      BY <3>1, <3>2 DEF Files, Scans
    <3> QED
      BY <1>2, <3>2, <3>3
  <2> HIDE DEF job
  <2> QED
    BY <1>16, <1>17, <2>1, <2>2, <2>3 DEF Commit, editor, session
<1>18. CASE Rescan
  <2> DEFINE files == Scanned(snapshot, queue[1].paths)
             job == [queue[1] EXCEPT !.phase = "scanned", !.files = files,
                                     !.store = IF @ = Absent THEN store ELSE @]
  <2>0. files # Absent
    BY <1>2, <1>18 DEF Rescan, DeletionOK, Scanned, Scans
  <2>1. /\ queue # <<>> /\ 1 \in DOMAIN queue /\ queue[1] \in Jobs
        /\ queue[1].kind \in Reloads /\ snapshot # Absent /\ store # Absent /\ disk # Absent
        /\ queue' = [queue EXCEPT ![1] = job]
    BY <1>1, <1>18, Head1 DEF Rescan, Working, DeletionOK, Reloads
  <2> HIDE DEF files
  <2>2. job.kind = queue[1].kind /\ JobOK(job, snapshot = Absent, deleted)
    BY <2>0, <2>1 DEF Jobs, JobOK, Saves, Reloads
  <2> HIDE DEF job
  <2> QED
    BY <1>16, <1>18, <2>1, <2>2 DEF Rescan, editor
\* The head is done and the store is replaced.
<1>19. ASSUME queue # <<>>, queue' = Superseded(Tail(queue)), UNCHANGED deleted,
              disk' = Absent <=> snapshot' = Absent, snapshot' = Absent => deleted,
              store' = Absent => snapshot' = Absent,
              (snapshot' = Absent) = (snapshot = Absent)
       PROVE  DeletionOK' /\ JobsOK'
  <2>1. \A i \in DOMAIN queue' :
           i \in Nat /\ i + 1 \in DOMAIN queue /\ SameJob(queue[i + 1], queue'[i])
    BY <1>1, <1>19, OfResumed
  <2>2. JobsOK'
    BY <1>19, <2>1, ZenonT(40) DEF JobsOK, JobOK, SameJob
  <2>3. DeletionOK'
    BY <1>19, <2>1 DEF DeletionOK, SameJob
  <2> QED
    BY <2>2, <2>3
<1>20. ASSUME queue # <<>>, NEW s \in Files, queue' = Superseded(RetrySave(s, Tail(queue))),
              store' = s, UNCHANGED <<deleted, disk>>,
              snapshot' = Absent <=> snapshot = Absent
       PROVE  DeletionOK' /\ JobsOK'
  <2>1. /\ Len(queue) \in Nat \ {0} /\ DOMAIN queue = 1..Len(queue)
        /\ DOMAIN queue' = 1..Len(queue)
        /\ \A i \in 1..Len(queue) - 1 :
              i + 1 \in DOMAIN queue /\ SameJob(queue[i + 1], queue'[i])
        /\ queue'[Len(queue)].kind = "retried save" /\ queue'[Len(queue)].store = s
        /\ queue'[Len(queue)].phase = "queued"
    BY <1>1, <1>20, OfRetry
  <2>2. \A i \in DOMAIN queue' : i \in 1..Len(queue) - 1 \/ i = Len(queue)
    <3>1. Len(queue) \in Nat \ {0} /\ DOMAIN queue' = 1..Len(queue)
      BY <2>1
    <3> QED
      BY <3>1
  <2>3. JobOK(queue'[Len(queue)], snapshot = Absent, deleted)
    BY <1>2, <1>20, <2>1 DEF JobOK
  <2>4. \A i \in 1..Len(queue) - 1 : JobOK(queue'[i], snapshot = Absent, deleted)
    BY <2>1 DEF JobsOK, JobOK, SameJob
  <2>5. JobsOK'
    BY <1>20, <2>2, <2>3, <2>4 DEF JobsOK
  <2>6. \A i, j \in DOMAIN queue' :
           queue'[i].kind = "delete" /\ queue'[j].kind = "delete" => i = j
    <3>1. \A i \in DOMAIN queue' : queue'[i].kind = "delete" =>
             i \in Nat /\ i + 1 \in DOMAIN queue /\ queue[i + 1].kind = "delete"
      <4>1. queue'[Len(queue)].kind # "delete"
        BY <2>1
      <4>2. \A i \in 1..Len(queue) - 1 : i \in Nat /\ i + 1 \in DOMAIN queue
        <5>1. Len(queue) \in Nat \ {0} /\ DOMAIN queue = 1..Len(queue)
          BY <2>1
        <5> QED
          BY <5>1
      <4>3. \A i \in 1..Len(queue) - 1 : queue'[i].kind = queue[i + 1].kind
        BY <2>1 DEF SameJob
      <4> QED
        BY <2>2, <4>1, <4>2, <4>3
    <3> QED
      BY <3>1 DEF DeletionOK
  <2>7. DeletionOK'
    BY <1>2, <1>20, <2>6 DEF DeletionOK
  <2> QED
    BY <2>5, <2>7
<1>21. CASE NothingToReload
  <2>1. /\ queue # <<>> /\ 1 \in DOMAIN queue /\ queue[1] \in Jobs
        /\ queue[1].kind \in Reloads
    BY <1>1, <1>21, Head1 DEF NothingToReload, Working, Reloads
  <2>2. CASE queue[1].kind = "reload"
    BY <1>11, <1>21, <2>1, <2>2 DEF NothingToReload, session
  <2>3. CASE queue[1].kind = "retry"
    <3>1. queue[1].store \in Files
      BY <2>1, <2>3 DEF Jobs, JobsOK, JobOK
    <3> QED
      BY <1>20, <1>21, <2>1, <2>3, <3>1 DEF NothingToReload, Show, session
  <2> QED
    BY <2>1, <2>2, <2>3 DEF Reloads
<1>22. CASE Reload
  <2>1. /\ queue # <<>> /\ 1 \in DOMAIN queue /\ queue[1] \in Jobs
        /\ queue[1].kind \in Reloads /\ snapshot # Absent /\ disk # Absent
        /\ queue[1].store \in Files /\ queue[1].files \in Files
    <3>1. /\ queue # <<>> /\ 1 \in DOMAIN queue /\ queue[1] \in Jobs
          /\ queue[1].kind \in Reloads /\ snapshot # Absent /\ disk # Absent
          /\ queue[1].store \in Files /\ queue[1].files \in Scans
      BY <1>1, <1>22, Head1 DEF Reload, Working, Reloads, Jobs, JobsOK, JobOK, DeletionOK
    <3>2. Readable(queue[1].files)
      BY <1>22 DEF Reload
    <3> QED
      BY <3>1, <3>2, ReadableFiles
  <2> DEFINE merged == Merged(queue[1].store, queue[1].files)
  <2>2. /\ merged \in Files /\ store' = merged /\ snapshot' \in Files
        /\ UNCHANGED <<deleted, disk>>
    <3>1. project \in Files
      BY <2>1 DEF TypeOK
    <3> QED
      BY <1>22, <2>1, <3>1 DEF Merged, Files, Reload, Show
  <2>3. CASE queue[1].kind = "reload"
    <3>1. queue' = Superseded(Tail(queue))
      BY <1>22, <2>3 DEF Reload, Show
    <3> QED
      BY <1>2, <1>19, <2>1, <2>2, <3>1
  <2>4. CASE queue[1].kind = "retry"
    <3>1. queue' = Superseded(RetrySave(merged, Tail(queue)))
      BY <1>22, <2>4 DEF Reload, Show
    <3> HIDE DEF merged
    <3> QED
      BY <1>2, <1>20, <2>1, <2>2, <3>1
  <2> QED
    BY <2>1, <2>3, <2>4 DEF Reloads
<1>23. CASE Delete
  <2>1. /\ queue # <<>> /\ 1 \in DOMAIN queue /\ queue[1].kind = "delete"
        /\ queue' = Superseded(Tail(queue)) /\ deleted /\ deleted'
        /\ disk' = Absent /\ snapshot' = Absent
    BY <1>1, <1>23, Head1 DEF Delete, Show, Forget, Working, JobsOK, JobOK
  <2>2. /\ Len(queue) \in Nat \ {0} /\ DOMAIN queue = 1..Len(queue)
        /\ \A i \in DOMAIN queue' :
              i \in Nat /\ i + 1 \in DOMAIN queue /\ SameJob(queue[i + 1], queue'[i])
    BY <1>1, <2>1, OfResumed
  <2>3. \A i \in DOMAIN queue' : i + 1 > 1 /\ queue[i + 1].phase = "queued"
                                   /\ queue[i + 1].kind # "delete"
    <3>1. \A i \in DOMAIN queue' : i + 1 > 1
      BY <1>1, <2>1, OfResumed
    <3> QED
      BY <1>1, <2>1, <2>2, <3>1 DEF QueueOK, DeletionOK
  <2>4. JobsOK'
    <3>1. ASSUME NEW i \in DOMAIN queue' PROVE JobOK(queue'[i], TRUE, TRUE)
      <4>1. JobOK(queue[i + 1], snapshot = Absent, deleted)
        BY <2>2 DEF JobsOK
      <4> QED
        BY <2>2, <2>3, <4>1 DEF JobOK, SameJob
    <3> QED
      BY <2>1, <3>1 DEF JobsOK
  <2>5. DeletionOK'
    BY <2>1, <2>2, <2>3 DEF DeletionOK, SameJob
  <2> QED
    BY <2>4, <2>5
<1>24. CASE DeleteRefused
  <2>1. /\ queue # <<>> /\ 1 \in DOMAIN queue /\ queue[1].kind = "delete"
        /\ queue' = Tail(queue) /\ ~deleted' /\ UNCHANGED <<store, snapshot, disk>>
        /\ snapshot # Absent
    BY <1>1, <1>24, Head1 DEF DeleteRefused, Working, editor, JobsOK, JobOK
  <2>2. \A i \in DOMAIN queue' : i \in Nat /\ i + 1 > 1 /\ i + 1 \in DOMAIN queue
                                   /\ queue'[i] = queue[i + 1]
    BY <1>1, <2>1, OfTail
  <2>3. \A i \in DOMAIN queue' : queue'[i].kind # "delete"
    BY <2>1, <2>2 DEF DeletionOK
  <2>4. JobsOK'
    BY <2>1, <2>2, <2>3 DEF JobsOK, JobOK
  <2>5. DeletionOK'
    BY <2>1, <2>3 DEF DeletionOK
  <2> QED
    BY <2>4, <2>5
<1>25. CASE UNCHANGED vars
  BY <1>3, <1>25 DEF vars, editor, session, DeletionOK
<1> QED
  BY <1>4, <1>5, <1>7, <1>8, <1>9, <1>10, <1>12, <1>13, <1>14, <1>15, <1>17, <1>18, <1>21,
     <1>22, <1>23, <1>24, <1>25, <1>26 DEF Next, RunQueue

-----------------------------------------------------------------------------
(* What is shown and what is saved.                                        *)

\* Until a deletion is asked for no job that could undo it is there.
LEMMA NotDeleted ==
  ASSUME DeletionOK, ~deleted
  PROVE  snapshot # Absent /\ store # Absent
  BY DEF DeletionOK

\* A save in the queue for what is shown, whatever else happens to the queue.
LEMMA SavedStep ==
  ASSUME TypeOK, DeletionOK, JobsOK, SavedOK, [Next]_vars
  PROVE  SavedOK'
<1>1. QueueOK
  BY DEF TypeOK, QueueOK
<1>2. DeletionOK' /\ JobsOK'
  BY SafeStep
<1>3. SUFFICES ASSUME ~deleted', refusals' = 0 PROVE SavedOK'
  BY DEF SavedOK
<1>4. refusals \in Nat
  BY SessionAssumption DEF TypeOK
\* The store is replaced: the timer runs, and no save is the latest.
<1>5. ASSUME timer', \A i \in DOMAIN queue' : ~Latest(queue'[i]) PROVE SavedOK'
  BY <1>5 DEF SavedOK
\* Nothing but the rest of the session moves.
<1>6. ASSUME ~deleted, refusals = 0,
             UNCHANGED <<timer, store, project, readonly>>, saveError => saveError',
             DOMAIN queue' = DOMAIN queue,
             \A i \in DOMAIN queue : /\ queue'[i].kind = queue[i].kind
                                     /\ queue'[i].latest = queue[i].latest
                                     /\ queue[i].kind = "save" => queue'[i].store = queue[i].store
      PROVE  SavedOK'
  BY <1>6, ZenonT(40) DEF SavedOK, Latest, Outdated
\* A job joins the queue, which is a save of what is shown if it is a save.
<1>7. ASSUME ~deleted, refusals = 0, NEW kind, NEW s, NEW paths,
             queue' = Enqueued(kind, s, paths),
             UNCHANGED <<store, project, readonly, saveError>>,
             \/ kind = "save" /\ s = store
             \/ kind \notin Saves /\ UNCHANGED timer
      PROVE  SavedOK'
  <2>1. /\ Len(queue) \in Nat /\ DOMAIN queue = 1..Len(queue)
        /\ DOMAIN queue' = 1..Len(queue) + 1
        /\ \A i \in DOMAIN queue : queue'[i] = queue[i]
        /\ queue'[Len(queue) + 1] = Job(kind, s, paths)
    BY <1>1, <1>7, OfEnqueued
  <2>2. /\ \A i \in DOMAIN queue' : i \in DOMAIN queue \/ i = Len(queue) + 1
        /\ \A i \in DOMAIN queue : i \in DOMAIN queue' /\ Len(queue) + 1 > i
        /\ Len(queue) + 1 \in DOMAIN queue'
    <3>1. Len(queue) \in Nat /\ DOMAIN queue = 1..Len(queue) /\ DOMAIN queue' = 1..Len(queue) + 1
      BY <2>1
    <3> QED
      BY <3>1
  <2>3. CASE kind = "save" /\ s = store
    <3>1. Latest(queue'[Len(queue) + 1]) /\ queue'[Len(queue) + 1].store = store
      BY <2>1, <2>3 DEF Latest, Job
    <3>2. \A i \in DOMAIN queue' : Latest(queue'[i]) => queue'[i].store = store'
      BY <1>7, <2>1, <2>2, <3>1 DEF SavedOK
    <3>3. \A i \in DOMAIN queue' : Outdated(queue'[i]) => i \in DOMAIN queue
      BY <2>2, <3>1 DEF Latest, Outdated
    <3> QED
      BY <2>2, <3>1, <3>2, <3>3 DEF SavedOK
  <2>4. CASE kind \notin Saves /\ UNCHANGED timer
    <3>1. ~Latest(queue'[Len(queue) + 1]) /\ ~Outdated(queue'[Len(queue) + 1])
      <4>1. Job(kind, s, paths).kind = kind
        BY DEF Job
      <4> QED
        BY <2>1, <2>4, <4>1 DEF Latest, Outdated, Saves
    <3> QED
      BY <1>7, <2>1, <2>2, <2>4, <3>1 DEF SavedOK
  <2> QED
    BY <1>7, <2>3, <2>4
\* The head of the queue is done.
<1>8. ASSUME ~deleted, refusals = 0, queue # <<>>, queue' = Tail(queue),
             UNCHANGED <<timer, store>>,
             \/ saveError' \/ readonly'
             \/ UNCHANGED <<saveError, project, readonly>> /\ ~Latest(queue[1])
             \/ Latest(queue[1]) /\ project' = store
             \/ Outdated(queue[1])
      PROVE  SavedOK'
  <2>1. \A i \in DOMAIN queue' : i \in Nat /\ i + 1 \in DOMAIN queue /\ queue'[i] = queue[i + 1]
    BY <1>1, <1>8, OfTail
  <2>2. \A k \in DOMAIN queue : k > 1 => k \in Nat /\ k - 1 \in DOMAIN queue' /\ queue'[k - 1] = queue[k]
    <3>1. /\ Len(queue) \in Nat \ {0} /\ DOMAIN queue = 1..Len(queue)
          /\ DOMAIN queue' = 1..Len(queue) - 1
      BY <1>1, <1>8, OfTail
    <3>2. \A k \in DOMAIN queue : k > 1 => k \in Nat /\ k - 1 \in DOMAIN queue' /\ (k - 1) + 1 = k
      BY <3>1
    <3> QED
      BY <2>1, <3>2
  <2>3. \A i \in DOMAIN queue' : Latest(queue'[i]) => queue'[i].store = store'
    BY <1>8, <2>1 DEF SavedOK
  <2>4. ASSUME ~timer', NEW i \in DOMAIN queue', Outdated(queue'[i])
        PROVE  \E j \in DOMAIN queue' : j > i /\ Latest(queue'[j])
    <3>1. PICK k \in DOMAIN queue : k > i + 1 /\ Latest(queue[k])
      BY <1>8, <2>1, <2>4 DEF SavedOK
    <3>2. i \in Nat /\ k > 1
      <4>1. i \in Nat /\ k \in Nat
        BY <1>1, <2>1 DEF QueueOK
      <4> QED
        BY <3>1, <4>1
    <3>3. k - 1 > i /\ k - 1 \in DOMAIN queue' /\ Latest(queue'[k - 1])
      BY <2>2, <3>1, <3>2
    <3> QED
      BY <3>3
  <2>5. timer' \/ saveError' \/ readonly' \/ store' = project' \/ \E i \in DOMAIN queue' : Latest(queue'[i])
    <3>1. ASSUME NEW k \in DOMAIN queue, k > 1, Latest(queue[k])
          PROVE  \E i \in DOMAIN queue' : Latest(queue'[i])
      BY <2>2, <3>1
    <3>2. CASE UNCHANGED <<saveError, project, readonly>> /\ ~Latest(queue[1])
      <4>1. \A k \in DOMAIN queue : k = 1 \/ k > 1
        BY <1>1 DEF QueueOK
      <4> QED
        BY <1>8, <3>1, <3>2, <4>1 DEF SavedOK
    <3>3. CASE Outdated(queue[1])
      <4>1. 1 \in DOMAIN queue
        BY <1>1, <1>8, Head1
      <4> QED
        BY <1>8, <3>1, <3>3, <4>1 DEF SavedOK
    <3> QED
      BY <1>8, <3>2, <3>3
  <2> QED
    BY <2>3, <2>4, <2>5 DEF SavedOK
<1>9. ASSUME NEW r \in Resources, NEW v \in Values, Edit(r, v) PROVE SavedOK'
  <2>1. queue' = Superseded(queue) /\ timer'
    BY <1>9 DEF Edit, Show
  <2>2. \A i \in DOMAIN queue' : ~queue'[i].latest
    BY <1>1, <2>1, OfSuperseded
  <2> QED
    BY <1>5, <2>1, <2>2 DEF Latest
<1>10. ASSUME NEW r \in Resources, NEW v \in Values \cup {Garbled}, ExternalEdit(r, v)
      PROVE  SavedOK'
  BY <1>3, <1>6, <1>10 DEF ExternalEdit, session, editor
<1>11. CASE Autosave
  BY <1>3, <1>7, <1>11 DEF Autosave, session, bounds
<1>12. CASE Notify
  <2>1. PICK paths : queue' = Enqueued("reload", Absent, paths)
    BY <1>12 DEF Notify
  <2> QED
    BY <1>3, <1>7, <1>12, <2>1 DEF Notify, editor, session, bounds, Saves
<1>13. CASE ClickRetry
  BY <1>3, <1>7, <1>13 DEF ClickRetry, session, Saves
<1>14. CASE ClickDelete
  BY <1>3, <1>14 DEF ClickDelete
<1>15. CASE SaveNothing
  <2>1. queue # <<>> /\ 1 \in DOMAIN queue /\ queue[1].kind \in Saves
    BY <1>1, <1>15, Head1 DEF SaveNothing, Working, Saves
  <2>2. ~deleted /\ refusals = 0 /\ store # Absent /\ snapshot # Absent
    BY <1>3, <1>15, NotDeleted DEF SaveNothing, bounds
  <2>3. queue[1].store # Absent
    BY <2>1, <2>2 DEF JobsOK, JobOK, Saves
  <2>4. readonly' \/ project' = queue[1].store
    BY <1>15, <2>2, <2>3 DEF SaveNothing, Skipped
  <2>5. Latest(queue[1]) => queue[1].store = store
    BY <2>1, <2>2 DEF SavedOK
  <2>6. Latest(queue[1]) \/ Outdated(queue[1])
    BY <2>1 DEF Latest, Outdated, Saves
  <2> QED
    BY <1>8, <1>15, <2>1, <2>2, <2>4, <2>5, <2>6 DEF SaveNothing, SaveSucceeded
<1>16. CASE Saved
  <2>1. queue # <<>> /\ 1 \in DOMAIN queue /\ queue[1].kind \in Saves
    BY <1>1, <1>16, Head1 DEF Saved, Working, Saves
  <2>2. ~deleted /\ refusals = 0
    BY <1>3, <1>16 DEF Saved, bounds
  <2>3. project' = queue[1].store
    BY <1>16 DEF Saved
  <2>4. Latest(queue[1]) => queue[1].store = store
    BY <2>1, <2>2 DEF SavedOK
  <2>5. Latest(queue[1]) \/ Outdated(queue[1])
    BY <2>1 DEF Latest, Outdated, Saves
  <2> QED
    BY <1>8, <1>16, <2>1, <2>2, <2>3, <2>4, <2>5 DEF Saved, SaveSucceeded
<1>17. CASE CommitRejected
  BY <1>3, <1>8, <1>17 DEF CommitRejected, SaveFailed, Working, session, bounds
<1>18. CASE ReloadConflict
  BY <1>3, <1>8, <1>18 DEF ReloadConflict, ReloadFails, Working, bounds
<1>27. CASE ReloadUnreadable
  BY <1>3, <1>8, <1>27 DEF ReloadUnreadable, ReloadFails, Working, bounds
<1>19. CASE Commit
  <2>1. /\ queue \in Seq(Jobs) /\ 1 \in DOMAIN queue /\ queue[1] \in Jobs
        /\ queue' = [queue EXCEPT ![1] = [queue[1] EXCEPT !.phase = "committed"]]
    BY <1>1, <1>19, Head1 DEF Commit, Working, QueueOK
  <2>2. /\ DOMAIN queue' = DOMAIN queue
        /\ \A i \in DOMAIN queue : /\ queue'[i].kind = queue[i].kind
                                   /\ queue'[i].latest = queue[i].latest
                                   /\ queue'[i].store = queue[i].store
    BY <2>1 DEF Jobs
  <2> QED
    BY <1>3, <1>6, <1>19, <2>2 DEF Commit, editor, session, bounds
<1>20. CASE Rescan
  <2> DEFINE files == Scanned(snapshot, queue[1].paths)
             job == [queue[1] EXCEPT !.phase = "scanned", !.files = files,
                                     !.store = IF @ = Absent THEN store ELSE @]
  <2>1. /\ queue \in Seq(Jobs) /\ 1 \in DOMAIN queue /\ queue[1] \in Jobs
        /\ queue[1].kind \in Reloads /\ queue' = [queue EXCEPT ![1] = job]
    BY <1>1, <1>20, Head1 DEF Rescan, Working, QueueOK, Reloads
  <2>2. /\ job.kind = queue[1].kind /\ job.latest = queue[1].latest
        /\ queue[1].kind # "save"
    BY <2>1 DEF Jobs, Reloads
  <2> HIDE DEF job, files
  <2>3. /\ DOMAIN queue' = DOMAIN queue
        /\ \A i \in DOMAIN queue : /\ queue'[i].kind = queue[i].kind
                                   /\ queue'[i].latest = queue[i].latest
                                   /\ queue[i].kind = "save" => queue'[i].store = queue[i].store
    BY <2>1, <2>2
  <2> QED
    BY <1>3, <1>6, <1>20, <2>3 DEF Rescan, editor, bounds
\* A queue that is resumed with the store replaced has no latest save.
<1>21. ASSUME queue # <<>>, timer',
              \/ queue' = Superseded(Tail(queue))
              \/ \E s \in Files : queue' = Superseded(RetrySave(s, Tail(queue)))
       PROVE  SavedOK'
  <2>1. CASE queue' = Superseded(Tail(queue))
    BY <1>1, <1>5, <1>21, <2>1, OfResumed DEF Latest
  <2>2. ASSUME NEW s \in Files, queue' = Superseded(RetrySave(s, Tail(queue)))
        PROVE  SavedOK'
    <3>1. /\ Len(queue) \in Nat \ {0} /\ DOMAIN queue' = 1..Len(queue)
          /\ \A i \in 1..Len(queue) - 1 : ~queue'[i].latest
          /\ ~queue'[Len(queue)].latest
      BY <1>1, <1>21, <2>2, OfRetry
    <3>2. \A i \in DOMAIN queue' : i \in 1..Len(queue) - 1 \/ i = Len(queue)
      <4>1. Len(queue) \in Nat \ {0} /\ DOMAIN queue' = 1..Len(queue)
        BY <3>1
      <4> QED
        BY <4>1
    <3> QED
      BY <1>5, <1>21, <3>1, <3>2 DEF Latest
  <2> QED
    BY <1>21, <2>1, <2>2
<1>22. CASE NothingToReload
  <2>1. queue # <<>> /\ 1 \in DOMAIN queue /\ queue[1] \in Jobs /\ queue[1].kind \in Reloads
    BY <1>1, <1>22, Head1 DEF NothingToReload, Working, Reloads
  <2>2. CASE queue[1].kind = "reload"
    <3>1. ~Latest(queue[1])
      BY <2>2 DEF Latest
    <3> QED
      BY <1>3, <1>8, <1>22, <2>1, <2>2, <3>1 DEF NothingToReload, session, bounds
  <2>3. CASE queue[1].kind = "retry"
    <3>1. queue[1].store \in Files
      BY <2>1, <2>3 DEF Jobs, JobsOK, JobOK
    <3>2. queue' = Superseded(RetrySave(queue[1].store, Tail(queue))) /\ timer'
      BY <1>22, <2>3 DEF NothingToReload, Show
    <3> QED
      BY <1>21, <2>1, <3>1, <3>2
  <2> QED
    BY <2>1, <2>2, <2>3 DEF Reloads
<1>23. CASE Reload
  <2>1. /\ queue # <<>> /\ 1 \in DOMAIN queue /\ queue[1] \in Jobs /\ queue[1].kind \in Reloads
        /\ queue[1].store \in Files /\ queue[1].files \in Files
    <3>1. /\ queue # <<>> /\ 1 \in DOMAIN queue /\ queue[1] \in Jobs
          /\ queue[1].kind \in Reloads
          /\ queue[1].store \in Files /\ queue[1].files \in Scans
      BY <1>1, <1>23, Head1 DEF Reload, Working, Reloads, Jobs, JobsOK, JobOK
    <3>2. Readable(queue[1].files)
      BY <1>23 DEF Reload
    <3> QED
      BY <3>1, <3>2, ReadableFiles
  <2> DEFINE merged == Merged(queue[1].store, queue[1].files)
  <2>2. merged \in Files
    <3>1. project \in [Resources -> Values]
      <4>1. snapshot # Absent
        BY <1>23, <2>1 DEF Reload, JobsOK, JobOK
      <4> QED
        BY <4>1 DEF TypeOK, Files
    <3> QED
      BY <2>1 DEF Merged, Files
  <2>3. CASE queue[1].kind = "reload"
    BY <1>21, <1>23, <2>1, <2>3 DEF Reload, Show
  <2>4. CASE queue[1].kind = "retry"
    <3>1. queue' = Superseded(RetrySave(merged, Tail(queue))) /\ timer'
      BY <1>23, <2>4 DEF Reload, Show
    <3> HIDE DEF merged
    <3> QED
      BY <1>21, <2>1, <2>2, <3>1
  <2> QED
    BY <2>1, <2>3, <2>4 DEF Reloads
<1>24. CASE Delete
  BY <1>21, <1>24 DEF Delete, Show, Working
<1>25. CASE DeleteRefused
  BY <1>3, <1>4, <1>25 DEF DeleteRefused
<1>26. CASE UNCHANGED vars
  BY <1>26 DEF vars, editor, session, bounds, SavedOK
<1> QED
  BY <1>9, <1>10, <1>11, <1>12, <1>13, <1>14, <1>15, <1>16, <1>17, <1>18, <1>19, <1>20, <1>22,
     <1>23, <1>24, <1>25, <1>26, <1>27 DEF Next, RunQueue

-----------------------------------------------------------------------------
(* What is promised.                                                       *)

\* A workspace starts in step.
LEMMA Started == Init => IInv
<1> SUFFICES ASSUME Init PROVE IInv
  OBVIOUS
<1>1. store \in Files /\ store # Absent
  BY SessionAssumption DEF Init, Files
<1>2. TypeOK
  <2>1. /\ snapshot \in Scans /\ project \in Files /\ cache \in Scans /\ disk \in Scans
        /\ snapshot # Absent /\ project # Absent
    BY <1>1 DEF Init, Files, Scans
  <2>2. queue \in Seq(Jobs) /\ \A i \in DOMAIN queue : i > 1 => queue[i].phase = "queued"
    BY DEF Init
  <2>3. /\ edits \in 0..MaxEdits /\ externals \in 0..MaxExternal /\ retries \in 0..MaxRetries
        /\ deletes \in 0..MaxDeletes /\ refusals \in 0..MaxDeleteFailures
    BY SessionAssumption DEF Init
  <2>4. /\ timer \in BOOLEAN /\ saving \in BOOLEAN /\ saveError \in BOOLEAN
        /\ deleted \in BOOLEAN /\ event \in SUBSET Resources /\ conflicted \in BOOLEAN
        /\ readonly \in BOOLEAN
    BY DEF Init
  <2> QED
    BY <1>1, <2>1, <2>2, <2>3, <2>4 DEF TypeOK
<1>3. queue = <<>> /\ DOMAIN queue = {}
  BY DEF Init
<1>4. DeletionOK /\ JobsOK /\ SavedOK
  BY <1>1, <1>3 DEF Init, DeletionOK, JobsOK, SavedOK
<1> QED
  BY <1>2, <1>4 DEF IInv

\* Types, deletion, jobs and saves together are inductive.
THEOREM SessionInvariance == Spec => []IInv
<1>1. IInv /\ [Next]_vars => IInv'
  BY TypeStep, SafeStep, SavedStep DEF IInv
<1> QED
  BY <1>1, Started, PTL DEF Spec

\* "Autosave/flush failures stay visible": a session with nothing left to do,
\* that is not read-only and has no error on screen, shows what it last saved
\* or loaded, with any number of files, edits, outside changes, unreadable ones
\* among them, and retries before that.
THEOREM SavedWhenQuiet == Spec => []QuietMeansSaved
<1>1. IInv => QuietMeansSaved
  BY DEF IInv, SavedOK, QuietMeansSaved, Quiet
<1> QED
  BY <1>1, SessionInvariance, PTL

\* A reload that is no conflict has every change of either side.
LEMMA MergeStep ==
  ASSUME Reload, NEW r \in Resources
  PROVE  /\ queue[1].store[r] # project[r] => store'[r] = queue[1].store[r]
         /\ queue[1].files[r] # project[r] => store'[r] = queue[1].files[r]
<1>1. store' = Merged(queue[1].store, queue[1].files)
  BY DEF Reload, Show
<1>2. store'[r] = IF queue[1].store[r] # project[r] THEN queue[1].store[r] ELSE queue[1].files[r]
  BY <1>1 DEF Merged
<1>3. ~Conflicting(queue[1].store, queue[1].files)
  BY DEF Reload
<1> QED
  BY <1>2, <1>3 DEF Conflicting

\* No job puts a directory there that a deletion removed.
LEMMA GoneStep ==
  ASSUME IInv, [Next]_vars, disk = Absent
  PROVE  disk' = Absent
<1>1. snapshot = Absent /\ deleted
  BY DEF IInv, DeletionOK
<1>2. ~Commit
  BY <1>1 DEF Commit, Skipped
<1>3. ASSUME NEW r \in Resources, NEW v \in Values \cup {Garbled} PROVE ~ExternalEdit(r, v)
  BY DEF ExternalEdit
<1> QED
  BY <1>2, <1>3 DEF Next, RunQueue, vars, session, editor, bounds, Edit, Autosave, Notify,
     SaveNothing, CommitRejected, Saved, Rescan, NothingToReload, ReloadUnreadable,
     ReloadConflict, Reload,
     ClickRetry, ClickDelete, Delete, DeleteRefused

\* Neither side's work is undone by the other's: a reload drops no change of
\* the store or of the files for the other's, and no save that was waiting
\* brings back a deleted directory.
THEOREM BothSides == Spec => BothSidesKept
<1>1. [Next]_vars =>
        [Reload => \A r \in Resources :
            /\ queue[1].store[r] # project[r] => store'[r] = queue[1].store[r]
            /\ queue[1].files[r] # project[r] => store'[r] = queue[1].files[r]]_vars
  BY MergeStep
<1>2. IInv /\ [Next]_vars => [disk = Absent => disk' = Absent]_vars
  BY GoneStep
<1>3. Spec => MergeKeepsBoth
  BY <1>1, PTL DEF Spec, MergeKeepsBoth
<1>4. Spec => DeletedStaysDeleted
  BY <1>2, SessionInvariance, PTL DEF Spec, DeletedStaysDeleted
<1> QED
  BY <1>3, <1>4 DEF BothSidesKept
=============================================================================
