--------------------------- MODULE RequestUploads ---------------------------
(***************************************************************************)
(* A staged request body (http/request_body.rs, http/upload_stream.rs) and *)
(* the execution that owns it (prepareBody, executeRequest and the         *)
(* adapter's requestBodies.stage).                                         *)
(*                                                                         *)
(* The webview copies a file, chunk by chunk, into an encrypted file of    *)
(* the application's cache, or has the native side copy a stored           *)
(* attachment into a handle; start_http opens a reader, again for each     *)
(* 307/308 hop; the execution releases the handle whatever happens.        *)
(* Handles expire, the window may close, the process may end, and          *)
(* whatever cleans or damages the cache may alter the file.                *)
(*                                                                         *)
(* Executions meet in the registry only: its limit, the clean-up each of   *)
(* them triggers and the closed window.  The module follows one execution; *)
(* the handles of the others are a number.                                 *)
(*                                                                         *)
(* Every command runs under the locks of RequestFileState and is one step. *)
(* A reader runs in a thread of its own, behind a pipe.  Chunk k is        *)
(* authentic at position k of its own file only: it is encrypted for that  *)
(* position.                                                               *)
(***************************************************************************)
EXTENDS Naturals, SequencesExt

CONSTANTS
    Absent,      \* stands for "no file on disk"
    MaxChunks,   \* bound: chunks of a file
    MaxEntries,  \* pending handles the registry accepts (128)
    MaxHops,     \* bound: 307/308 answers to one execution
    MaxFaults,   \* bound: failing writes
    MaxDamage,   \* bound: alterations by other programs
    MaxCrashes   \* bound: ends of the process

ASSUME UploadAssumption ==
    /\ MaxChunks \in Nat /\ MaxEntries \in Nat /\ MaxHops \in Nat
    /\ MaxFaults \in Nat /\ MaxDamage \in Nat /\ MaxCrashes \in Nat

Torn == 0                \* bytes that decrypt as nothing
Chunks == 0..MaxChunks
Hops == 0..MaxHops

VARIABLES
    size,     \* chunks of the file the user picked
    ui,       \* where the execution is in stage / executeRequest
    aborted,  \* its AbortSignal fired
    hop,      \* 307/308 answers so far
    entry,    \* its entry in RequestFileStore.entries
    others,   \* the number of other entries
    file,     \* its encrypted file in the request-bodies directory
    reader,   \* per hop: EncryptedReader, its pipe, the body that consumes it
    closed,   \* RequestFileState.closed holds the window
    opened,   \* the store has been opened in this process
    faults, damage, crashes

execution == <<size, aborted, hop>>
registry == <<entry, others, closed, opened>>
bounds == <<faults, damage, crashes>>
vars == <<execution, ui, registry, file, reader, bounds>>

None == [kind |-> "none"]
NoReader == [thread |-> "none", source |-> "none", body |-> "none",
             index |-> 0, pipe |-> <<>>, result |-> "none", sent |-> <<>>]

Init ==
    /\ size \in Chunks /\ aborted = FALSE /\ hop = 0
    /\ ui = "idle"
    /\ entry = None /\ others = 0
    /\ closed = FALSE /\ opened = TRUE
    /\ file = Absent
    /\ reader = [h \in Hops |-> NoReader]
    /\ faults = 0 /\ damage = 0 /\ crashes = 0

-----------------------------------------------------------------------------
(* The registry of handles. *)

\* Mutant: the number of pending handles is not checked.
Unlimited(n) == FALSE

\* A registry of 128 pending handles accepts no more.
Full(n) == n >= MaxEntries

\* An entry older than an hour goes whenever any create or reader runs.
Cleaned == IF entry # None /\ entry.expired THEN None ELSE entry

\* The Arc of an EncryptedFile: held by the entry and by the threads that read
\* it.  The last one to drop it removes the file.
Leased(e, rs) ==
    \/ e.kind = "temporary"
    \/ \E h \in Hops : rs[h].thread = "reading" /\ rs[h].source = "temporary"

Dropping(e, rs) ==
    file' = IF Leased(entry, reader) /\ ~Leased(e, rs) THEN Absent ELSE file

\* Mutant: commands are not refused after the window is gone.
NeverRefused == FALSE

\* Every command but initialize is refused once its window is closed.
Refused == closed

\* RequestFileStore::open removes what an earlier process left behind.
Open ==
    /\ ~opened
    /\ opened' = TRUE
    /\ file' = Absent
    /\ UNCHANGED <<execution, ui, entry, others, closed, reader, bounds>>

Expire ==
    /\ entry # None /\ ~entry.expired
    /\ entry' = [entry EXCEPT !.expired = TRUE]
    /\ UNCHANGED <<execution, ui, others, closed, opened, file, reader, bounds>>

\* Another execution makes a handle or opens a body, and may let one go.
Others ==
    /\ opened /\ ~Refused
    /\ entry' = Cleaned
    /\ Dropping(entry', reader)
    /\ \/ UNCHANGED others
       \/ /\ ~Full(others + (IF entry' = None THEN 0 ELSE 1))
          /\ others' = others + 1
       \/ others > 0 /\ others' = others - 1
    /\ UNCHANGED <<execution, ui, closed, opened, reader, bounds>>

-----------------------------------------------------------------------------
(* Staging. *)

\* create: a handle and an empty file, unless the window is closed or too many
\* are pending.
Create ==
    /\ ui = "idle" /\ opened
    /\ IF Refused \/ Full(others)
       THEN ui' = "done" /\ UNCHANGED <<entry, file>>
       ELSE /\ ui' = "staging"
            /\ entry' = [kind |-> "temporary", written |-> 0,
                         complete |-> FALSE, expired |-> FALSE]
            /\ file' = <<>>
    /\ UNCHANGED <<execution, others, closed, opened, reader, bounds>>

\* request_file_from_attachment reads and checks the attachment first, outside
\* the locks; the window may close meanwhile.
CopyAttachment ==
    /\ ui = "idle" /\ opened /\ ~closed
    /\ ui' = "copying"
    /\ UNCHANGED <<execution, registry, file, reader, bounds>>

\* attachment: the handle is complete at once; the empty file that create made
\* for it is dropped with the source it replaces.
Attach ==
    /\ ui = "copying" /\ opened
    /\ IF Refused \/ Full(others)
       THEN ui' = "done" /\ UNCHANGED entry
       ELSE /\ ui' = IF aborted THEN "releasing" ELSE "ready"
            /\ entry' = [kind |-> "attachment", written |-> size,
                         complete |-> TRUE, expired |-> FALSE]
    /\ UNCHANGED <<execution, others, closed, opened, file, reader, bounds>>

\* A command of stage fails: closed, aborted or without its handle.
StageFails ==
    /\ ui = "staging" /\ opened
    /\ Refused \/ aborted \/ entry = None
    /\ ui' = "releasing"
    /\ UNCHANGED <<execution, registry, file, reader, bounds>>

\* stage gives up on the first chunk that fails.
AfterFailedWrite == "releasing"

\* append of the next chunk.  A failing write leaves part of it behind, or
\* nothing, and does not count.
AppendChunk ==
    /\ ui = "staging" /\ opened
    /\ ~Refused /\ ~aborted /\ entry # None
    /\ entry.written < size
    /\ \/ /\ entry' = [entry EXCEPT !.written = @ + 1]
          /\ file' = Append(file, entry.written + 1)
          /\ UNCHANGED <<ui, faults>>
       \/ /\ faults < MaxFaults
          /\ faults' = faults + 1
          /\ file' \in {file, Append(file, Torn)}
          /\ ui' = AfterFailedWrite
          /\ UNCHANGED entry
    /\ UNCHANGED <<execution, others, closed, opened, reader, damage, crashes>>

\* finish: every chunk was acknowledged.  The signal is looked at again.
Finish ==
    /\ ui = "staging" /\ opened
    /\ ~Refused /\ ~aborted /\ entry # None
    /\ entry.written = size
    /\ entry' = [entry EXCEPT !.complete = TRUE]
    /\ ui' = "ready"
    /\ UNCHANGED <<execution, others, closed, opened, file, reader, bounds>>

-----------------------------------------------------------------------------
(* One hop: start_http, its body, its end. *)

\* start_http registers the operation unless the window is closed.
Start ==
    /\ ui = "ready"
    /\ ui' = IF Refused \/ aborted THEN "releasing" ELSE "started"
    /\ UNCHANGED <<execution, registry, file, reader, bounds>>

\* reader: the handle is there, complete and this execution's.
OpenBody ==
    /\ ui = "started" /\ opened
    /\ entry' = IF Refused THEN entry ELSE Cleaned
    /\ IF Refused \/ entry' = None
       THEN ui' = "releasing" /\ UNCHANGED reader
       ELSE /\ ui' = "sending"
            /\ reader' = [reader EXCEPT ![hop].thread = "reading",
                              ![hop].source = entry.kind, ![hop].body = "open"]
    /\ Dropping(entry', reader')
    /\ UNCHANGED <<execution, others, closed, opened, bounds>>

\* What a reader reads: its file, or the snapshot of the attachment.
Bytes(r) == IF r.source = "attachment" THEN [k \in 1..size |-> k] ELSE file

\* EncryptedReader::read: the next chunk must be authentic for its position,
\* and nothing may follow the last one, which is looked at before the last one
\* is handed out.
Reads(r) ==
    LET bytes == Bytes(r)
        next == r.index + 1
    IN  IF next > size
        THEN IF Len(bytes) = size THEN "end" ELSE "damaged"
        ELSE IF /\ next <= Len(bytes) /\ bytes[next] = next
                /\ next = size => Len(bytes) = size
        THEN "chunk" ELSE "damaged"

\* A reader after its next read: the chunk waits in the pipe, or the result is
\* stored before the pipe is closed, and the reader is dropped.
AfterRead(r) ==
    IF Reads(r) = "chunk"
    THEN [r EXCEPT !.index = @ + 1, !.pipe = Append(@, r.index + 1)]
    ELSE [r EXCEPT !.thread = "stopped", !.result = Reads(r)]

\* The producer reads into the pipe, at most one chunk ahead of what the pipe
\* holds.
Produce(h) ==
    /\ reader[h].thread = "reading" /\ reader[h].body = "open"
    /\ Len(reader[h].pipe) < 2
    /\ reader' = [reader EXCEPT ![h] = AfterRead(@)]
    /\ Dropping(entry, reader')
    /\ UNCHANGED <<execution, ui, registry, bounds>>

\* Mutant: the end of the pipe is taken for the end of the body.
EofIsEnd(result) == "complete"

\* At the end of the pipe the producer's result decides.
AtEof(result) == IF result = "end" THEN "complete" ELSE "failed"

Consume(h) ==
    /\ reader[h].body = "open"
    /\ \/ /\ reader[h].pipe # <<>>
          /\ reader' = [reader EXCEPT ![h].pipe = Tail(@),
                            ![h].sent = Append(@, Head(reader[h].pipe))]
       \/ /\ reader[h].pipe = <<>> /\ reader[h].result # "none"
          /\ reader' = [reader EXCEPT ![h].body = AtEof(reader[h].result)]
    /\ UNCHANGED <<execution, ui, registry, file, bounds>>

\* The thread of a dropped body ends with its next write.
Stop(h) ==
    /\ reader[h].thread = "reading" /\ reader[h].body = "dropped"
    /\ reader' = [reader EXCEPT ![h].thread = "stopped"]
    /\ Dropping(entry, reader')
    /\ UNCHANGED <<execution, ui, registry, bounds>>

BodyDropped ==
    reader' = [reader EXCEPT ![hop].body = IF @ = "open" THEN "dropped" ELSE @]

\* The server answers 307 or 308, at any time: the next hop reopens the body.
Redirect ==
    /\ ui = "sending" /\ hop < MaxHops
    /\ ui' = "ready"
    /\ hop' = hop + 1
    /\ BodyDropped
    /\ UNCHANGED <<size, aborted, registry, file, bounds>>

\* Mutant: a cancelled execution does not release its bodies.
AnsweredReleases == IF aborted THEN "done" ELSE "releasing"

\* The finally of executeRequest, whatever the hop ended with.
AfterHop == "releasing"

\* The hop is answered, fails or is cancelled.
HopEnds ==
    /\ ui \in {"started", "sending"}
    /\ ui' = AfterHop
    /\ BodyDropped
    /\ UNCHANGED <<execution, registry, file, bounds>>

Release ==
    /\ ui = "releasing" /\ opened
    /\ ui' = "done"
    /\ entry' = IF Refused THEN entry ELSE None
    /\ Dropping(entry', reader)
    /\ UNCHANGED <<execution, others, closed, opened, reader, bounds>>

-----------------------------------------------------------------------------
(* The user, the window, the process and other programs. *)

Abort ==
    /\ ui \notin {"idle", "done"} /\ ~aborted
    /\ aborted' = TRUE
    /\ UNCHANGED <<size, hop, ui, registry, file, reader, bounds>>

\* clear_window, then cancel_all: commands that are under way run into Refused,
\* requests end by HopEnds.
CloseWindow ==
    /\ ~closed
    /\ closed' = TRUE
    /\ entry' = None /\ others' = 0
    /\ Dropping(entry', reader)
    /\ UNCHANGED <<execution, ui, opened, reader, bounds>>

\* The file is cut, gets something more, or holds something else at a place.
Damage ==
    /\ file # Absent /\ damage < MaxDamage
    /\ damage' = damage + 1
    /\ \/ file # <<>> /\ file' = Front(file)
       \/ \E c \in Chunks : file' = Append(file, c)
       \/ \E i \in DOMAIN file : \E c \in Chunks : file' = [file EXCEPT ![i] = c]
    /\ UNCHANGED <<execution, ui, registry, reader, faults, crashes>>

\* The process ends; the file stays, the execution is gone.
Crash ==
    /\ crashes < MaxCrashes
    /\ crashes' = crashes + 1
    /\ ui' = IF ui = "idle" THEN "idle" ELSE "done"
    /\ entry' = None /\ others' = 0
    /\ reader' = [h \in Hops |-> NoReader]
    /\ closed' = FALSE /\ opened' = FALSE
    /\ UNCHANGED <<execution, file, faults, damage>>

-----------------------------------------------------------------------------

\* The execution's own progress once it has begun.
Execution ==
    \/ Attach \/ StageFails \/ AppendChunk \/ Finish
    \/ Start \/ OpenBody \/ Redirect \/ HopEnds \/ Release

Transfer(h) == Produce(h) \/ Consume(h) \/ Stop(h)

Next ==
    \/ Create \/ CopyAttachment \/ Execution
    \/ \E h \in Hops : Transfer(h)
    \/ Open \/ Expire \/ Others \/ Abort \/ CloseWindow \/ Damage \/ Crash

Spec == Init /\ [][Next]_vars

\* Commands are answered, requests are answered or time out, threads run, and
\* start-up opens the store.
FairSpec ==
    /\ Spec
    /\ WF_vars(Open) /\ WF_vars(Execution)
    /\ \A h \in Hops : WF_vars(Transfer(h))

-----------------------------------------------------------------------------
(* What staging and sending a request body must guarantee.                 *)

Entry == [kind : {"temporary", "attachment"}, written : Chunks,
          complete : BOOLEAN, expired : BOOLEAN]

Readers ==
    [thread : {"none", "reading", "stopped"},
     source : {"none", "temporary", "attachment"},
     body : {"none", "open", "dropped", "complete", "failed"},
     index : Chunks, pipe : Seq(Chunks),
     result : {"none", "end", "damaged"}, sent : Seq(Chunks)]

\* Type invariant of RequestUploads; the registry never holds more handles
\* than its limit.
TypeOK ==
    /\ size \in Chunks /\ aborted \in BOOLEAN /\ hop \in Hops
    /\ ui \in {"idle", "copying", "staging", "ready", "started", "sending",
               "releasing", "done"}
    /\ entry \in Entry \cup {None}
    /\ others \in Nat /\ others + (IF entry = None THEN 0 ELSE 1) <= MaxEntries
    /\ closed \in BOOLEAN /\ opened \in BOOLEAN
    /\ file = Absent \/ file \in Seq(Chunks)
    /\ reader \in [Hops -> Readers]
    /\ faults \in 0..MaxFaults
    /\ damage \in 0..MaxDamage
    /\ crashes \in 0..MaxCrashes

-----------------------------------------------------------------------------

\* "Corruption, incorrect sizes and missing/trailing chunks fail closed"
\* (docs/request-lifecycle.md): what the network gets is a prefix of the file
\* the user picked, and a body that ends without an error is all of it, on
\* every hop, whatever happened to the encrypted file, the handle, the window
\* or the producer's thread while it was read.  A file nobody altered never
\* fails a body that was begun: no upload with a half-written chunk is ever
\* finished, and when a release, an expiry or a closed window takes the
\* handle, the lease of a reader keeps the file.
BodyIsExact ==
    \A h \in Hops :
        LET r == reader[h] IN
        /\ r.sent = [k \in 1..Len(r.sent) |-> k]
        /\ r.body = "complete" => Len(r.sent) = size
        /\ damage = 0 => r.result # "damaged"

\* "Window destruction cancels HTTP operations and rejects late upload/start
\* calls" (docs/request-lifecycle.md): once the window is closed no handle is
\* made, even by a copy that was under way, and no body is begun.
ClosedStaysClosed ==
    [][closed /\ closed' =>
        /\ entry' = None
        /\ \A h \in Hops : reader[h].thread = "none" =>
               reader'[h].thread = "none"]_vars

\* What is sent is the file, and nothing is begun for a window that is gone.
UploadsAreExact == []BodyIsExact /\ ClosedStaysClosed

\* An execution that has begun ends, and then neither its handle nor its file
\* is left, whether it was answered, cancelled, refused, or cut off by the end
\* of the process.
UploadEnded == ui = "done" /\ entry = None /\ file = Absent
UploadEnds == ui # "idle" ~> UploadEnded
=============================================================================
