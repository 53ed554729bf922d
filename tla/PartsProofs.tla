----------------------------- MODULE PartsProofs -----------------------------
(***************************************************************************)
(* The theorems of the smaller machines of the native side, as MCParts     *)
(* composes them: an upload, the deletion of a workspace and the capture   *)
(* of responses, for every value of their parameters.  What ResponseProofs *)
(* proves of a capture is taken over by its instance.                      *)
(***************************************************************************)
EXTENDS MCParts, TLAPS

-----------------------------------------------------------------------------
(* Uploads, for every size of a file and any number of hops, failures,     *)
(* alterations and ends of the process: the types, that the network gets   *)
(* the file, and that a closed window begins nothing.                      *)

\* The chunks of a file of n chunks.
Exact(n) == [k \in 1..n |-> k]

\* What a body has sent and what waits in its pipe are the first chunks of a
\* file of n chunks, in order, as many as its reader has read; nothing fails
\* before an alteration (d counts them).
ReaderOK(r, n, d) ==
    /\ r.index \in 0..n
    /\ Len(r.sent) + Len(r.pipe) = r.index
    /\ \A k \in 1..Len(r.sent) : r.sent[k] = k
    /\ \A k \in 1..Len(r.pipe) : r.pipe[k] = Len(r.sent) + k
    /\ r.thread = "reading" => r.result = "none" /\ r.source # "none"
    /\ r.result = "end" => r.index = n
    /\ r.body = "complete" => Len(r.sent) = n
    /\ d = 0 => r.result # "damaged"

ReadersOK == \A h \in Hops : ReaderOK(reader[h], size, damage)

Reading(h) == reader[h].thread = "reading" /\ reader[h].source = "temporary"

\* While a handle or a thread holds the encrypted file it is there, and unless
\* somebody altered it, it is what has been acknowledged of it, and all of it
\* once the handle is complete.
FileOK ==
    /\ \A h \in Hops : Reading(h) =>
          file \in Seq(Chunks) /\ (damage = 0 => file = Exact(size))
    /\ entry.kind = "temporary" =>
          /\ file \in Seq(Chunks)
          /\ damage = 0 /\ entry.complete => file = Exact(size)
          /\ damage = 0 /\ ui = "staging" => file = Exact(entry.written)

\* The handle an execution has at each of its stages, and the hops it has not
\* come to.
StageOK ==
    /\ ~opened \/ closed => entry = None
    /\ ~opened => \A h \in Hops : reader[h].thread # "reading"
    /\ ui \in {"idle", "copying"} => entry = None
    /\ ui \in {"idle", "copying", "staging"} => hop = 0
    /\ ui = "staging" /\ entry # None =>
          entry.kind = "temporary" /\ ~entry.complete /\ entry.written \in 0..size
    /\ ui \in {"ready", "started", "sending"} /\ entry # None => entry.complete
    /\ \A h \in Hops :
          h > hop \/ (h = hop /\ ui \in {"idle", "copying", "staging", "ready", "started"})
          => reader[h] = NoReader

IInv == TypeOK /\ ReadersOK /\ FileOK /\ StageOK

-----------------------------------------------------------------------------
(* Readers and leases.                                                     *)

\* What the proofs take from the types.
LEMMA Types ==
  ASSUME TypeOK
  PROVE  /\ reader \in [Hops -> Readers] /\ size \in Nat /\ size <= MaxChunks
         /\ hop \in Hops /\ Hops \subseteq Nat /\ damage \in Nat
         /\ entry \in Entry \cup {None} /\ None.kind = "none"
  BY UploadAssumption DEF TypeOK, Chunks, Hops, None

\* One reader changes.
LEMMA OneReader ==
  ASSUME reader \in [Hops -> Readers], NEW h \in Hops, NEW r \in Readers,
         reader' = [reader EXCEPT ![h] = r]
  PROVE  /\ reader' \in [Hops -> Readers] /\ reader'[h] = r
         /\ \A i \in Hops : i # h => reader'[i] = reader[i]
  OBVIOUS

\* A file stays while it is leased.
LEMMA KeptByLease ==
  ASSUME Dropping(entry', reader')
  PROVE  /\ entry'.kind = "temporary" => file' = file
         /\ \A h \in Hops : Reading(h)' => file' = file
         /\ file' \in {file, Absent}
  BY DEF Dropping, Leased, Reading

\* The body of a reader is dropped, and nothing else of it changes.
LEMMA Dropped ==
  ASSUME TypeOK, BodyDropped
  PROVE  /\ reader' \in [Hops -> Readers]
         /\ \A h \in Hops :
               /\ reader'[h] = [reader[h] EXCEPT !.body = reader'[h].body]
               /\ reader'[h].body \in {reader[h].body, "dropped"}
               /\ reader[h].body # "open" \/ h # hop => reader'[h] = reader[h]
<1> DEFINE r == [reader[hop] EXCEPT !.body = IF @ = "open" THEN "dropped" ELSE @]
<1>1. reader[hop] \in Readers /\ hop \in Hops
  BY Types
<1>2. r \in Readers /\ r.body \in {reader[hop].body, "dropped"}
        /\ r = [reader[hop] EXCEPT !.body = r.body]
        /\ (reader[hop].body # "open" => r = reader[hop])
  BY <1>1 DEF Readers
<1>3. reader' = [reader EXCEPT ![hop] = r]
  BY DEF BodyDropped
<1> HIDE DEF r
<1>4. /\ reader' \in [Hops -> Readers] /\ reader'[hop] = r
      /\ \A i \in Hops : i # hop => reader'[i] = reader[i]
  BY <1>1, <1>2, <1>3, Types, OneReader
<1>5. \A h \in Hops : reader[h] = [reader[h] EXCEPT !.body = reader[h].body]
  BY Types DEF Readers
<1> QED
  BY <1>2, <1>4, <1>5

-----------------------------------------------------------------------------
(* The types.                                                              *)

\* What an execution and its registry are besides the readers.
ExecutionOK ==
    /\ size \in Chunks /\ aborted \in BOOLEAN /\ hop \in Hops
    /\ ui \in {"idle", "copying", "staging", "ready", "started", "sending",
               "releasing", "done"}
    /\ entry \in Entry \cup {None}
    /\ others \in Nat /\ others + (IF entry = None THEN 0 ELSE 1) <= MaxEntries
    /\ closed \in BOOLEAN /\ opened \in BOOLEAN
    /\ file = Absent \/ file \in Seq(Chunks)
    /\ faults \in 0..MaxFaults
    /\ damage \in 0..MaxDamage
    /\ crashes \in 0..MaxCrashes

\* What other programs make of the file decrypts or does not: it is a sequence
\* of chunks.
LEMMA DamagedFile ==
  ASSUME TypeOK, Damage
  PROVE  file' \in Seq(Chunks)
<1>1. file \in Seq(Chunks)
  BY DEF TypeOK, Damage
<1>2. ASSUME file # <<>> PROVE Front(file) \in Seq(Chunks)
  BY <1>1, <1>2 DEF Front
<1>3. \A c \in Chunks : /\ Append(file, c) \in Seq(Chunks)
                        /\ \A i \in DOMAIN file : [file EXCEPT ![i] = c] \in Seq(Chunks)
  BY <1>1
<1> QED
  BY <1>2, <1>3 DEF Damage

\* Steps of the execution, the registry or the surroundings leave the readers.
LEMMA ExecutionTypes ==
  ASSUME TypeOK, FileOK, StageOK, UNCHANGED reader,
         \/ Open \/ Expire \/ Others \/ Create \/ CopyAttachment \/ Attach \/ StageFails
         \/ AppendChunk \/ Finish \/ Start \/ Release \/ Abort \/ CloseWindow \/ Damage
  PROVE  TypeOK'
<1> USE UploadAssumption DEF execution, registry, bounds, None
<1>1. ExecutionOK /\ reader \in [Hops -> Readers]
  BY DEF TypeOK, ExecutionOK
<1>2. SUFFICES ExecutionOK'
  BY <1>1 DEF TypeOK, ExecutionOK
<1>3. CASE Open
  BY <1>1, <1>3 DEF ExecutionOK, Open
<1>4. CASE Expire
  <2>1. entry' \in Entry \cup {None} /\ entry' # None
    BY <1>1, <1>4 DEF ExecutionOK, Expire, Entry
  <2> QED
    BY <1>1, <1>4, <2>1 DEF ExecutionOK, Expire
<1>5. CASE Others
  <2>1. entry' \in {entry, None} /\ file' \in {file, Absent}
    BY <1>5 DEF Others, Cleaned, Dropping
  <2>2. others' \in Nat /\ others' + (IF entry' = None THEN 0 ELSE 1) <= MaxEntries
    BY <1>1, <1>5, <2>1 DEF ExecutionOK, Others, Full
  <2> QED
    BY <1>1, <1>5, <2>1, <2>2 DEF ExecutionOK, Others
<1>6. CASE Create
  <2>1. entry = None
    BY <1>6 DEF Create, StageOK
  <2>2. file' = file \/ file' \in Seq(Chunks)
    <3>1. file' \in {file, <<>>} /\ <<>> \in Seq(Chunks)
      BY <1>6 DEF Create
    <3> QED
      BY <3>1
  <2>3. entry' \in Entry \cup {None}
    <3>1. [kind |-> "temporary", written |-> 0, complete |-> FALSE, expired |-> FALSE] \in Entry
      BY DEF Entry, Chunks
    <3> QED
      BY <2>1, <1>6, <3>1 DEF Create
  <2>4. others' \in Nat /\ others' + (IF entry' = None THEN 0 ELSE 1) <= MaxEntries
    BY <1>1, <1>6, <2>1 DEF ExecutionOK, Create, Full
  <2> QED
    BY <1>1, <1>6, <2>2, <2>3, <2>4 DEF ExecutionOK, Create
<1>7. CASE CopyAttachment
  BY <1>1, <1>7 DEF ExecutionOK, CopyAttachment
<1>8. CASE Attach
  <2>1. entry = None
    BY <1>8 DEF Attach, StageOK
  <2>2. entry' \in Entry \cup {None}
    <3>1. [kind |-> "attachment", written |-> size, complete |-> TRUE, expired |-> FALSE] \in Entry
      BY <1>1 DEF Entry, ExecutionOK
    <3> QED
      BY <2>1, <1>8, <3>1 DEF Attach
  <2>3. others' \in Nat /\ others' + (IF entry' = None THEN 0 ELSE 1) <= MaxEntries
    BY <1>1, <1>8, <2>1 DEF ExecutionOK, Attach, Full
  <2> QED
    BY <1>1, <1>8, <2>2, <2>3 DEF ExecutionOK, Attach
<1>9. CASE StageFails
  BY <1>1, <1>9 DEF ExecutionOK, StageFails
<1>10. CASE AppendChunk
  <2>1. entry \in Entry /\ entry.kind = "temporary" /\ entry.written \in Nat
    BY <1>1, <1>10 DEF AppendChunk, StageOK, ExecutionOK, Entry, Chunks
  <2>2. entry' \in Entry
    BY <1>1, <1>10, <2>1 DEF AppendChunk, ExecutionOK, Entry, Chunks
  <2>3. file' \in Seq(Chunks)
    <3>1. file \in Seq(Chunks) /\ entry.written + 1 \in Chunks /\ Torn \in Chunks
      <4>1. file \in Seq(Chunks)
        BY <2>1 DEF FileOK
      <4>2. entry.written + 1 \in Chunks /\ Torn \in Chunks
        BY <1>1, <1>10, <2>1, SMTT(30) DEF AppendChunk, ExecutionOK, Chunks, Torn
      <4> QED
        BY <4>1, <4>2
    <3>2. Append(file, entry.written + 1) \in Seq(Chunks) /\ Append(file, Torn) \in Seq(Chunks)
      BY <3>1
    <3> QED
      BY <1>10, <3>1, <3>2 DEF AppendChunk
  <2>4. faults' \in 0..MaxFaults
    BY <1>1, <1>10 DEF AppendChunk, ExecutionOK
  <2>5. entry # None /\ entry' # None
    BY <2>1, <2>2 DEF Entry
  <2> QED
    BY <1>1, <1>10, <2>2, <2>3, <2>4, <2>5 DEF ExecutionOK, AppendChunk, AfterFailedWrite
<1>11. CASE Finish
  <2>1. entry' \in Entry /\ entry' # None
    BY <1>1, <1>11 DEF Finish, StageOK, ExecutionOK, Entry
  <2> QED
    BY <1>1, <1>11, <2>1 DEF ExecutionOK, Finish
<1>12. CASE Start
  BY <1>1, <1>12 DEF ExecutionOK, Start
<1>13. CASE Release
  <2>1. entry' \in {entry, None} /\ file' \in {file, Absent}
    BY <1>13 DEF Release, Dropping
  <2> QED
    BY <1>1, <1>13, <2>1 DEF ExecutionOK, Release
<1>14. CASE Abort
  BY <1>1, <1>14 DEF ExecutionOK, Abort
<1>15. CASE CloseWindow
  <2>1. file' \in {file, Absent}
    BY <1>15 DEF CloseWindow, Dropping
  <2> QED
    BY <1>1, <1>15, <2>1 DEF ExecutionOK, CloseWindow
<1>16. CASE Damage
  <2>1. file' \in Seq(Chunks)
    BY <1>16, DamagedFile
  <2>2. damage' \in 0..MaxDamage
    BY <1>1, <1>16 DEF ExecutionOK, Damage
  <2> QED
    BY <1>1, <1>16, <2>1, <2>2 DEF ExecutionOK, Damage
<1> QED
  BY <1>3, <1>4, <1>5, <1>6, <1>7, <1>8, <1>9, <1>10, <1>11, <1>12, <1>13, <1>14, <1>15, <1>16

\* Steps of one hop: its body is opened, read, sent or dropped.
LEMMA HopTypes ==
  ASSUME IInv, \/ OpenBody \/ Redirect \/ HopEnds \/ Crash
               \/ \E h \in Hops : Transfer(h)
  PROVE  TypeOK'
<1> USE UploadAssumption DEF execution, registry, bounds
<1>1. ExecutionOK /\ reader \in [Hops -> Readers] /\ TypeOK
  BY DEF IInv, TypeOK, ExecutionOK
<1>2. ExecutionOK' /\ reader' \in [Hops -> Readers] => TypeOK'
  BY DEF TypeOK, ExecutionOK
<1>3. CASE OpenBody
  <2>1. entry' \in {entry, None} /\ file' \in {file, Absent}
    BY <1>3 DEF OpenBody, Cleaned, Dropping
  <2>2. ExecutionOK'
    BY <1>1, <1>3, <2>1 DEF ExecutionOK, OpenBody
  <2>3. reader' \in [Hops -> Readers]
    <3>1. CASE UNCHANGED reader
      BY <1>1, <3>1
    <3>2. CASE ~UNCHANGED reader
      <4> DEFINE r == [reader[hop] EXCEPT !.thread = "reading", !.source = entry.kind,
                                          !.body = "open"]
      <4>1. entry \in Entry /\ reader[hop] \in Readers /\ reader' = [reader EXCEPT ![hop] = r]
        BY <1>1, <1>3, <3>2, Types DEF OpenBody, Cleaned
      <4>2. r \in Readers
        BY <4>1 DEF Readers, Entry
      <4> HIDE DEF r
      <4> QED
        BY <1>1, <4>1, <4>2, Types
    <3> QED
      BY <3>1, <3>2
  <2> QED
    BY <1>2, <2>2, <2>3
<1>4. CASE Redirect
  <2>1. hop' \in Hops
    BY <1>1, <1>4 DEF ExecutionOK, Redirect, Hops
  <2>2. ExecutionOK'
    BY <1>1, <1>4, <2>1 DEF ExecutionOK, Redirect
  <2> QED
    BY <1>1, <1>2, <1>4, <2>2, Dropped DEF Redirect
<1>5. CASE HopEnds
  <2>1. ExecutionOK'
    BY <1>1, <1>5 DEF ExecutionOK, HopEnds, AfterHop
  <2> QED
    BY <1>1, <1>2, <1>5, <2>1, Dropped DEF HopEnds
<1>6. CASE Crash
  <2>1. crashes' \in 0..MaxCrashes
    BY <1>1, <1>6 DEF ExecutionOK, Crash
  <2>2. ExecutionOK'
    <3>1. entry' = None /\ others' = 0
          /\ ui' \in {"idle", "copying", "staging", "ready", "started", "sending",
                     "releasing", "done"}
      BY <1>6 DEF Crash
    <3>2. others' \in Nat /\ others' + (IF entry' = None THEN 0 ELSE 1) <= MaxEntries
      BY <3>1
    <3>3. /\ size' \in Chunks /\ aborted' \in BOOLEAN /\ hop' \in Hops
          /\ closed' \in BOOLEAN /\ opened' \in BOOLEAN
          /\ file' = Absent \/ file' \in Seq(Chunks)
          /\ faults' \in 0..MaxFaults /\ damage' \in 0..MaxDamage
      BY <1>1, <1>6 DEF ExecutionOK, Crash
    <3> QED
      BY <2>1, <3>1, <3>2, <3>3 DEF ExecutionOK
  <2>3. NoReader \in Readers
    BY DEF NoReader, Readers, Chunks
  <2>4. reader' \in [Hops -> Readers]
    BY <1>6, <2>3 DEF Crash
  <2> QED
    BY <1>2, <2>2, <2>4
<1>7. ASSUME NEW h \in Hops, Transfer(h) PROVE TypeOK'
  <2>1. file' \in {file, Absent} /\ UNCHANGED <<execution, ui, registry, bounds>>
    BY <1>7 DEF Transfer, Produce, Consume, Stop, Dropping
  <2>2. ExecutionOK'
    BY <1>1, <2>1 DEF ExecutionOK
  <2>3. reader[h] \in Readers /\ ReaderOK(reader[h], size, damage) /\ size \in Nat /\ size <= MaxChunks
    BY <1>1, Types DEF IInv, ReadersOK
  <2>4. CASE Produce(h)
    <3> DEFINE r == IF Reads(reader[h]) = "chunk"
                    THEN [reader[h] EXCEPT !.index = @ + 1,
                                           !.pipe = Append(@, reader[h].index + 1)]
                    ELSE [reader[h] EXCEPT !.thread = "stopped", !.result = Reads(reader[h])]
    <3>1. reader' = [reader EXCEPT ![h] = r]
      BY <2>4 DEF Produce, AfterRead
    <3>2. Reads(reader[h]) \in {"chunk", "end", "damaged"}
      BY DEF Reads
    <3>3. Reads(reader[h]) = "chunk" => reader[h].index + 1 \in Chunks
      BY <2>3 DEF Reads, Readers, Chunks, ReaderOK
    <3>4. r \in Readers
      <4>1. CASE Reads(reader[h]) = "chunk"
        <5>1. Append(reader[h].pipe, reader[h].index + 1) \in Seq(Chunks)
          BY <2>3, <3>3, <4>1 DEF Readers
        <5> QED
          BY <2>3, <3>3, <4>1, <5>1 DEF Readers
      <4>2. CASE Reads(reader[h]) # "chunk"
        BY <2>3, <3>2, <4>2 DEF Readers
      <4> QED
        BY <4>1, <4>2
    <3> HIDE DEF r
    <3> QED
      BY <1>1, <1>2, <2>2, <3>1, <3>4
  <2>5. CASE Consume(h)
    <3>1. CASE /\ reader[h].pipe # <<>>
               /\ reader' = [reader EXCEPT ![h].pipe = Tail(@),
                                 ![h].sent = Append(@, Head(reader[h].pipe))]
      <4> DEFINE r == [reader[h] EXCEPT !.pipe = Tail(@),
                                        !.sent = Append(@, Head(reader[h].pipe))]
      <4>1. reader' = [reader EXCEPT ![h] = r]
        BY <3>1
      <4>2. Tail(reader[h].pipe) \in Seq(Chunks)
              /\ Append(reader[h].sent, Head(reader[h].pipe)) \in Seq(Chunks)
        BY <2>3, <3>1 DEF Readers
      <4>3. r \in Readers
        BY <2>3, <4>2 DEF Readers
      <4> HIDE DEF r
      <4> QED
        BY <1>1, <1>2, <2>2, <4>1, <4>3
    <3>2. CASE reader' = [reader EXCEPT ![h].body = AtEof(reader[h].result)]
      <4> DEFINE r == [reader[h] EXCEPT !.body = AtEof(reader[h].result)]
      <4>1. reader' = [reader EXCEPT ![h] = r]
        BY <3>2
      <4>2. r \in Readers
        BY <2>3 DEF Readers, AtEof
      <4> HIDE DEF r
      <4> QED
        BY <1>1, <1>2, <2>2, <4>1, <4>2
    <3> QED
      BY <2>5, <3>1, <3>2 DEF Consume
  <2>6. CASE Stop(h)
    <3> DEFINE r == [reader[h] EXCEPT !.thread = "stopped"]
    <3>1. reader' = [reader EXCEPT ![h] = r]
      BY <2>6 DEF Stop
    <3>2. r \in Readers
      BY <2>3 DEF Readers
    <3> HIDE DEF r
    <3> QED
      BY <1>1, <1>2, <2>2, <3>1, <3>2
  <2> QED
    BY <1>7, <2>4, <2>5, <2>6 DEF Transfer
<1> QED
  BY <1>3, <1>4, <1>5, <1>6, <1>7

-----------------------------------------------------------------------------
(* What has been read and sent.                                            *)

\* Steps that leave the readers alone.
LEMMA ReadersKept ==
  ASSUME IInv, UNCHANGED <<reader, size>>, damage' = 0 => damage = 0
  PROVE  ReadersOK'
  BY DEF IInv, ReadersOK, ReaderOK

\* The body of the hop is dropped.
LEMMA ReadersDropped ==
  ASSUME IInv, BodyDropped, UNCHANGED <<size, damage>>
  PROVE  ReadersOK'
<1> SUFFICES ASSUME NEW h \in Hops PROVE ReaderOK(reader'[h], size, damage)
  BY DEF ReadersOK
<1> DEFINE b == reader'[h].body
           r == [reader[h] EXCEPT !.body = b]
<1>1. reader'[h] = r /\ b \in {reader[h].body, "dropped"}
  BY Dropped DEF IInv
<1>2. reader[h] \in Readers /\ ReaderOK(reader[h], size, damage)
  BY Types DEF IInv, ReadersOK
<1>3. /\ r.index = reader[h].index /\ r.sent = reader[h].sent
      /\ r.pipe = reader[h].pipe /\ r.thread = reader[h].thread
      /\ r.result = reader[h].result /\ r.source = reader[h].source
      /\ r.body = b
  BY <1>2 DEF Readers
<1> HIDE DEF r, b
<1>4. ReaderOK(r, size, damage)
  BY <1>1, <1>2, <1>3 DEF ReaderOK
<1> QED
  BY <1>1, <1>4

\* A step of one reader.
LEMMA ReaderSteps ==
  ASSUME IInv, NEW h \in Hops, NEW r \in Readers, ReaderOK(r, size, damage),
         reader' = [reader EXCEPT ![h] = r], UNCHANGED <<size, damage>>
  PROVE  ReadersOK'
<1>1. /\ reader'[h] = r
      /\ \A i \in Hops : i # h => reader'[i] = reader[i]
  BY OneReader, Types DEF IInv
<1> QED
  BY <1>1 DEF IInv, ReadersOK

\* What a reader reads of a file that nobody altered is the file.
LEMMA ReadsExact ==
  ASSUME IInv, NEW h \in Hops, reader[h].thread = "reading", damage = 0
  PROVE  Reads(reader[h]) # "damaged"
<1>1. /\ reader[h] \in Readers /\ ReaderOK(reader[h], size, damage)
      /\ size \in Nat
  BY Types DEF IInv, ReadersOK
<1>2. Bytes(reader[h]) = Exact(size)
  <2>1. CASE reader[h].source = "attachment"
    BY <2>1 DEF Bytes, Exact
  <2>2. CASE reader[h].source # "attachment"
    <3>1. reader[h].source = "temporary"
      BY <1>1, <2>2 DEF Readers, ReaderOK
    <3> QED
      BY <2>2, <3>1 DEF Bytes, IInv, FileOK, Reading
  <2> QED
    BY <2>1, <2>2
<1>3. Len(Exact(size)) = size /\ \A k \in 1..size : Exact(size)[k] = k
  BY <1>1 DEF Exact
<1>4. reader[h].index + 1 \in Nat /\ reader[h].index + 1 >= 1
  BY <1>1 DEF Readers, Chunks
<1> QED
  BY <1>1, <1>2, <1>3, <1>4 DEF Reads

\* A read keeps the order of the chunks.
LEMMA ProduceKeeps ==
  ASSUME IInv, NEW h \in Hops, Produce(h), AfterRead(reader[h]) \in Readers
  PROVE  ReadersOK'
<1> DEFINE r == AfterRead(reader[h])
<1>1. /\ reader[h] \in Readers /\ ReaderOK(reader[h], size, damage)
      /\ size \in Nat
  BY Types DEF IInv, ReadersOK
<1>2. reader' = [reader EXCEPT ![h] = r] /\ UNCHANGED <<size, damage>>
        /\ reader[h].thread = "reading"
  BY DEF Produce, execution, bounds
<1>3. ReaderOK(r, size, damage)
  <2>1. CASE Reads(reader[h]) = "chunk"
    <3> DEFINE i == reader[h].index
               p == Append(reader[h].pipe, i + 1)
               m == Len(reader[h].pipe)
               n == Len(reader[h].sent)
    <3>1. i \in Nat /\ i + 1 <= size
      BY <1>1, <2>1 DEF Reads, Readers, Chunks
    <3>2. /\ r.index = i + 1 /\ r.pipe = p /\ r.sent = reader[h].sent
          /\ r.thread = reader[h].thread /\ r.source = reader[h].source
          /\ r.body = reader[h].body /\ r.result = reader[h].result
      BY <1>1, <2>1 DEF AfterRead, Readers
    <3>3. /\ m \in Nat /\ n \in Nat /\ Len(p) = m + 1
          /\ p[m + 1] = i + 1
          /\ \A k \in 1..m : p[k] = reader[h].pipe[k]
      BY <1>1 DEF Readers
    <3>4. n + m = i /\ \A k \in 1..m : reader[h].pipe[k] = n + k
      BY <1>1 DEF ReaderOK
    <3> HIDE DEF i, p, r, m, n
    <3>5. \A k \in 1..Len(p) : p[k] = n + k
      <4>1. TAKE k \in 1..Len(p)
      <4>2. CASE k = m + 1
        <5>1. i + 1 = n + (m + 1)
          BY <3>3, <3>4
        <5> QED
          BY <3>3, <4>2, <5>1
      <4>3. CASE k \in 1..m
        BY <3>3, <3>4, <4>3
      <4> QED
        BY <3>3, <4>2, <4>3
    <3>6. reader[h].result = "none" /\ reader[h].source # "none"
      BY <1>1, <1>2 DEF ReaderOK
    <3>7. Len(r.sent) + Len(r.pipe) = r.index /\ r.index \in 0..size
      <4>1. Len(r.sent) = n /\ Len(r.pipe) = m + 1 /\ r.index = i + 1
        BY <3>2, <3>3 DEF n
      <4>2. n + (m + 1) = i + 1 /\ i + 1 \in 0..size
        BY <1>1, <3>1, <3>3, <3>4
      <4> QED
        BY <4>1, <4>2
    <3>8. /\ \A k \in 1..Len(r.sent) : r.sent[k] = k
          /\ r.body = "complete" => Len(r.sent) = size
      BY <1>1, <3>2 DEF ReaderOK
    <3>9. \A k \in 1..Len(r.pipe) : r.pipe[k] = Len(r.sent) + k
      BY <3>2, <3>5 DEF n
    <3> QED
      BY <3>2, <3>6, <3>7, <3>8, <3>9 DEF ReaderOK
  <2>2. CASE Reads(reader[h]) # "chunk"
    <3>1. /\ r.index = reader[h].index /\ r.pipe = reader[h].pipe
          /\ r.sent = reader[h].sent /\ r.thread = "stopped"
          /\ r.body = reader[h].body /\ r.result = Reads(reader[h])
      BY <1>1, <2>2 DEF AfterRead, Readers
    <3>2. Reads(reader[h]) = "end" => reader[h].index = size
      <4>1. reader[h].index \in 0..size
        BY <1>1 DEF ReaderOK
      <4> QED
        BY <1>1, <4>1 DEF Reads
    <3>3. damage = 0 => Reads(reader[h]) # "damaged"
      BY <1>2, ReadsExact
    <3> HIDE DEF r
    <3> QED
      BY <1>1, <3>1, <3>2, <3>3 DEF ReaderOK
  <2> QED
    BY <2>1, <2>2
<1> HIDE DEF r
<1>4. r \in Readers
  BY DEF r
<1> QED
  BY <1>2, <1>3, <1>4, ReaderSteps


\* The network takes the first chunk of the pipe, or the result at its end.
LEMMA ConsumeKeeps ==
  ASSUME IInv, NEW h \in Hops, Consume(h)
  PROVE  ReadersOK'
<1>1. /\ reader[h] \in Readers /\ ReaderOK(reader[h], size, damage)
      /\ size \in Nat
  BY Types DEF IInv, ReadersOK
<1>2. UNCHANGED <<size, damage>>
  BY DEF Consume, execution, bounds
<1>3. CASE /\ reader[h].pipe # <<>>
           /\ reader' = [reader EXCEPT ![h].pipe = Tail(@),
                             ![h].sent = Append(@, Head(reader[h].pipe))]
  <2> DEFINE p == reader[h].pipe
             q == reader[h].sent
             tail == Tail(p)
             sent == Append(q, Head(p))
             r == [reader[h] EXCEPT !.pipe = tail, !.sent = sent]
  <2>1. p \in Seq(Chunks) /\ q \in Seq(Chunks) /\ p # <<>>
    BY <1>1, <1>3 DEF Readers
  <2>2. reader' = [reader EXCEPT ![h] = r]
    BY <1>3
  <2>3. /\ r.index = reader[h].index /\ r.thread = reader[h].thread
        /\ r.result = reader[h].result /\ r.source = reader[h].source
        /\ r.body = reader[h].body /\ r.pipe = tail /\ r.sent = sent
        /\ r \in Readers
    <3>1. tail \in Seq(Chunks) /\ sent \in Seq(Chunks)
      BY <2>1
    <3> HIDE DEF tail, sent
    <3> QED
      BY <1>1, <3>1 DEF Readers
  <2>4. /\ Len(p) \in Nat /\ Len(q) \in Nat /\ Len(p) >= 1
        /\ Len(tail) = Len(p) - 1
        /\ \A k \in 1..Len(tail) : tail[k] = p[k + 1]
        /\ Len(sent) = Len(q) + 1 /\ sent[Len(q) + 1] = p[1]
        /\ \A k \in 1..Len(q) : sent[k] = q[k]
    BY <2>1
  <2>5. /\ Len(q) + Len(p) = reader[h].index
        /\ \A k \in 1..Len(q) : q[k] = k
        /\ \A k \in 1..Len(p) : p[k] = Len(q) + k
        /\ reader[h].index \in 0..size
        /\ reader[h].body = "open"
    BY <1>1, <1>3 DEF ReaderOK, Consume
  <2> HIDE DEF p, q, tail, sent, r
  <2>6. Len(sent) + Len(tail) = reader[h].index
    BY <2>4, <2>5
  <2>7. \A k \in 1..Len(sent) : sent[k] = k
    <3>1. TAKE k \in 1..Len(sent)
    <3>2. CASE k = Len(q) + 1
      <4>1. p[1] = Len(q) + 1
        BY <2>4, <2>5
      <4> QED
        BY <2>4, <3>2, <4>1
    <3>3. CASE k \in 1..Len(q)
      BY <2>4, <2>5, <3>3
    <3> QED
      BY <2>4, <3>2, <3>3
  <2>8. \A k \in 1..Len(tail) : tail[k] = Len(sent) + k
    <3>1. TAKE k \in 1..Len(tail)
    <3>2. k + 1 \in 1..Len(p) /\ k \in Nat
      BY <2>4
    <3>3. p[k + 1] = Len(q) + (k + 1)
      BY <2>5, <3>2
    <3> QED
      BY <2>4, <3>2, <3>3
  <2>9. ReaderOK(r, size, damage)
    BY <1>1, <2>3, <2>5, <2>6, <2>7, <2>8 DEF ReaderOK
  <2> QED
    BY <1>2, <2>2, <2>3, <2>9, ReaderSteps
<1>4. CASE /\ reader[h].pipe = <<>> /\ reader[h].result # "none"
           /\ reader' = [reader EXCEPT ![h].body = AtEof(reader[h].result)]
  <2> DEFINE b == AtEof(reader[h].result)
             r == [reader[h] EXCEPT !.body = b]
  <2>1. reader' = [reader EXCEPT ![h] = r]
    BY <1>4
  <2>2. b \in {"complete", "failed"} /\ (b = "complete" => reader[h].result = "end")
    BY DEF AtEof
  <2> HIDE DEF b
  <2>3. /\ r.index = reader[h].index /\ r.sent = reader[h].sent
        /\ r.pipe = reader[h].pipe /\ r.thread = reader[h].thread
        /\ r.result = reader[h].result /\ r.source = reader[h].source
        /\ r.body = b /\ r \in Readers
    BY <1>1, <2>2 DEF Readers
  <2> HIDE DEF r
  <2>4. Len(reader[h].sent) = reader[h].index
    <3>1. Len(reader[h].pipe) = 0 /\ Len(reader[h].sent) \in Nat
      BY <1>1, <1>4 DEF Readers
    <3> QED
      BY <1>1, <3>1 DEF ReaderOK
  <2>5. ReaderOK(r, size, damage)
    BY <1>1, <2>2, <2>3, <2>4 DEF ReaderOK
  <2> QED
    BY <1>2, <2>1, <2>3, <2>5, ReaderSteps
<1> QED
  BY <1>3, <1>4 DEF Consume

\* The thread of a dropped body ends.
LEMMA StopKeeps ==
  ASSUME IInv, NEW h \in Hops, Stop(h)
  PROVE  ReadersOK'
<1> DEFINE r == [reader[h] EXCEPT !.thread = "stopped"]
<1>1. reader[h] \in Readers /\ ReaderOK(reader[h], size, damage)
  BY Types DEF IInv, ReadersOK
<1>2. /\ r.index = reader[h].index /\ r.sent = reader[h].sent
      /\ r.pipe = reader[h].pipe /\ r.thread = "stopped"
      /\ r.result = reader[h].result /\ r.source = reader[h].source
      /\ r.body = reader[h].body /\ r \in Readers
  BY <1>1 DEF Readers
<1>3. reader' = [reader EXCEPT ![h] = r] /\ UNCHANGED <<size, damage>>
  BY DEF Stop, execution, bounds
<1> HIDE DEF r
<1>4. ReaderOK(r, size, damage)
  BY <1>1, <1>2 DEF ReaderOK
<1> QED
  BY <1>2, <1>3, <1>4, ReaderSteps

\* A body is opened for the hop, which has none.
LEMMA OpenKeeps ==
  ASSUME IInv, OpenBody
  PROVE  ReadersOK'
<1>1. UNCHANGED <<size, damage>>
  BY DEF OpenBody, execution, bounds
<1>2. CASE UNCHANGED reader
  BY <1>1, <1>2 DEF IInv, ReadersOK
<1>3. CASE ~UNCHANGED reader
  <2> DEFINE r == [reader[hop] EXCEPT !.thread = "reading", !.source = entry.kind,
                                      !.body = "open"]
  <2>1. /\ entry \in Entry /\ hop \in Hops /\ size \in Nat
        /\ reader' = [reader EXCEPT ![hop] = r]
    BY <1>3, Types DEF IInv, OpenBody, Cleaned
  <2>2. reader[hop] = NoReader
    BY <2>1 DEF IInv, StageOK, OpenBody
  <2>3. /\ r.index = 0 /\ r.sent = <<>> /\ r.pipe = <<>> /\ r.thread = "reading"
        /\ r.result = "none" /\ r.source = entry.kind /\ r.body = "open"
    BY <2>2 DEF NoReader
  <2>4. r \in Readers /\ entry.kind # "none"
    <3>1. reader[hop] \in Readers
      BY <2>1, Types DEF IInv
    <3> QED
      BY <2>1, <3>1 DEF Readers, Entry
  <2> HIDE DEF r
  <2>5. ReaderOK(r, size, damage)
    BY <2>1, <2>3, <2>4 DEF ReaderOK
  <2> QED
    BY <1>1, <2>1, <2>4, <2>5, ReaderSteps
<1> QED
  BY <1>2, <1>3

\* No hop has a reader after the process ended.
LEMMA NoneRead ==
  ASSUME size' \in Nat, reader' = [h \in Hops |-> NoReader]
  PROVE  ReadersOK'
  BY DEF ReadersOK, ReaderOK, NoReader

-----------------------------------------------------------------------------
(* The file and the handle.                                                *)

\* Nobody takes up the file, and the handle at most goes or ages.
LEMMA FileKept ==
  ASSUME IInv, UNCHANGED <<size, damage>>,
         Dropping(entry', reader') \/ UNCHANGED file,
         \A h \in Hops : Reading(h)' => Reading(h),
         entry'.kind = "temporary" =>
            /\ entry.kind = "temporary"
            /\ entry'.complete = entry.complete /\ entry'.written = entry.written,
         ui' = "staging" => ui = "staging"
  PROVE  FileOK'
<1>1. FileOK
  BY DEF IInv
<1>2. (entry'.kind = "temporary" => file' = file) /\ \A h \in Hops : Reading(h)' => file' = file
  BY KeptByLease
<1>3. entry'.kind = "temporary" =>
         /\ file' \in Seq(Chunks)
         /\ damage' = 0 /\ entry'.complete => file' = Exact(size')
         /\ damage' = 0 /\ ui' = "staging" => file' = Exact(entry'.written)
  BY <1>1, <1>2 DEF FileOK
<1>4. \A h \in Hops : Reading(h)' =>
         file' \in Seq(Chunks) /\ (damage' = 0 => file' = Exact(size'))
  BY <1>1, <1>2 DEF FileOK
<1> QED
  BY <1>3, <1>4 DEF FileOK

\* The readers are left alone, and so are the stages and the hop, or they move
\* on without them.
LEMMA StageKept ==
  ASSUME IInv, UNCHANGED <<reader, size, hop>>,
         ~opened' \/ closed' => entry' = None,
         opened' = FALSE => opened = FALSE,
         ui' \in {"idle", "copying"} => entry' = None,
         ui' \in {"idle", "copying", "staging"} => ui \in {"idle", "copying", "staging"},
         ui' = "staging" /\ entry' # None =>
            entry'.kind = "temporary" /\ ~entry'.complete /\ entry'.written \in 0..size,
         ui' \in {"ready", "started", "sending"} /\ entry' # None => entry'.complete,
         ui' \in {"idle", "copying", "staging", "ready", "started"} =>
            ui \in {"idle", "copying", "staging", "ready", "started"}
  PROVE  StageOK'
<1>1. StageOK
  BY DEF IInv
<1>2. \A h \in Hops :
          h > hop' \/ (h = hop' /\ ui' \in {"idle", "copying", "staging", "ready", "started"})
          => reader'[h] = NoReader
  BY <1>1 DEF StageOK
<1>3. ~opened' => \A h \in Hops : reader'[h].thread # "reading"
  BY <1>1 DEF StageOK
<1>4. ui' \in {"idle", "copying", "staging"} => hop' = 0
  BY <1>1 DEF StageOK
<1> QED
  BY <1>2, <1>3, <1>4 DEF StageOK

\* While the handle is made no hop reads.
LEMMA NoneReads ==
  ASSUME IInv, ui \in {"idle", "copying", "staging"}
  PROVE  \A h \in Hops : ~Reading(h)
<1>1. hop = 0
  BY DEF IInv, StageOK
<1>2. \A h \in Hops : h \in Nat
  BY Types DEF IInv
<1>3. ASSUME NEW h \in Hops PROVE h > hop \/ h = hop
  BY <1>1, <1>2
<1>4. \A h \in Hops : reader[h] = NoReader
  BY <1>3 DEF IInv, StageOK
<1> QED
  BY <1>4 DEF Reading, NoReader

\* The registry, the user and the window: the readers are left alone.
LEMMA RegistryKeeps ==
  ASSUME IInv, \/ Open \/ Expire \/ Others \/ CopyAttachment \/ Attach \/ StageFails
               \/ Start \/ Release \/ Abort \/ CloseWindow
  PROVE  ReadersOK' /\ FileOK' /\ StageOK'
<1> USE DEF execution, registry, bounds
<1>0. TypeOK /\ StageOK /\ ReadersOK /\ FileOK /\ None.kind = "none"
  BY Types DEF IInv
<1>1. UNCHANGED <<reader, size, hop, damage>>
  BY DEF Open, Expire, Others, CopyAttachment, Attach, StageFails, Start, Release,
         Abort, CloseWindow
<1>2. ReadersOK' /\ \A h \in Hops : Reading(h)' = Reading(h)
  BY <1>1, ReadersKept DEF Reading
<1>3. CASE Open
  <2>1. entry = None /\ \A h \in Hops : reader[h].thread # "reading"
    BY <1>0, <1>3 DEF Open, StageOK
  <2>2. FileOK'
    BY <1>0, <1>1, <1>3, <2>1 DEF Open, FileOK, Reading
  <2>3. StageOK'
    BY <1>0, <1>1, <1>3, <2>1, StageKept DEF Open, StageOK
  <2> QED
    BY <1>2, <2>2, <2>3
<1>4. CASE Expire
  <2>1. /\ entry \in Entry /\ entry' \in Entry /\ entry'.kind = entry.kind
        /\ entry'.written = entry.written /\ entry'.complete = entry.complete
    BY <1>0, <1>4 DEF Expire, TypeOK, Entry
  <2>2. FileOK'
    BY <1>1, <1>2, <1>4, <2>1, FileKept DEF Expire
  <2>3. StageOK'
    BY <1>0, <1>1, <1>4, <2>1, StageKept DEF Expire, StageOK
  <2> QED
    BY <1>2, <2>2, <2>3
<1>5. CASE Others
  <2>1. entry' \in {entry, None}
    BY <1>5 DEF Others, Cleaned
  <2>2. FileOK'
    BY <1>0, <1>1, <1>2, <1>5, <2>1, FileKept DEF Others
  <2>3. StageOK'
    BY <1>0, <1>1, <1>5, <2>1, StageKept DEF Others, StageOK
  <2> QED
    BY <1>2, <2>2, <2>3
<1>6. CASE CopyAttachment
  <2>1. FileOK'
    BY <1>1, <1>2, <1>6, FileKept DEF CopyAttachment
  <2>2. StageOK'
    BY <1>0, <1>1, <1>6, StageKept DEF CopyAttachment, StageOK
  <2> QED
    BY <1>2, <2>1, <2>2
<1>7. CASE Attach
  <2>1. entry = None
    BY <1>0, <1>7 DEF Attach, StageOK
  <2>2. FileOK'
    BY <1>0, <1>1, <1>2, <1>7, <2>1, FileKept DEF Attach
  <2>3. StageOK'
    BY <1>0, <1>1, <1>7, <2>1, StageKept DEF Attach, StageOK, Refused
  <2> QED
    BY <1>2, <2>2, <2>3
<1>8. CASE StageFails
  <2>1. FileOK'
    BY <1>1, <1>2, <1>8, FileKept DEF StageFails
  <2>2. StageOK'
    BY <1>0, <1>1, <1>8, StageKept DEF StageFails, StageOK
  <2> QED
    BY <1>2, <2>1, <2>2
<1>9. CASE Start
  <2>1. FileOK'
    BY <1>1, <1>2, <1>9, FileKept DEF Start
  <2>2. StageOK'
    BY <1>0, <1>1, <1>9, StageKept DEF Start, StageOK
  <2> QED
    BY <1>2, <2>1, <2>2
<1>10. CASE Release
  <2>1. entry' \in {entry, None}
    BY <1>10 DEF Release
  <2>2. FileOK'
    BY <1>0, <1>1, <1>2, <1>10, <2>1, FileKept DEF Release
  <2>3. StageOK'
    BY <1>0, <1>1, <1>10, <2>1, StageKept DEF Release, StageOK
  <2> QED
    BY <1>2, <2>2, <2>3
<1>11. CASE Abort
  <2>1. FileOK'
    BY <1>1, <1>2, <1>11, FileKept DEF Abort
  <2>2. StageOK'
    BY <1>0, <1>1, <1>11, StageKept DEF Abort, StageOK
  <2> QED
    BY <1>2, <2>1, <2>2
<1>12. CASE CloseWindow
  <2>1. FileOK'
    BY <1>0, <1>1, <1>2, <1>12, FileKept DEF CloseWindow
  <2>2. StageOK'
    BY <1>0, <1>1, <1>12, StageKept DEF CloseWindow, StageOK
  <2> QED
    BY <1>2, <2>1, <2>2
<1> QED
  BY <1>3, <1>4, <1>5, <1>6, <1>7, <1>8, <1>9, <1>10, <1>11, <1>12

\* The file is written, or altered.
LEMMA WritingKeeps ==
  ASSUME IInv, Create \/ AppendChunk \/ Finish \/ Damage
  PROVE  ReadersOK' /\ FileOK' /\ StageOK'
<1> USE DEF execution, registry, bounds
<1>0. /\ TypeOK /\ StageOK /\ ReadersOK /\ FileOK /\ None.kind = "none"
      /\ size \in Nat /\ damage \in Nat
  BY Types DEF IInv
<1>1. UNCHANGED <<reader, size, hop>> /\ (damage' = 0 => damage = 0)
  BY <1>0 DEF Create, AppendChunk, Finish, Damage
<1>2. ReadersOK' /\ \A h \in Hops : Reading(h)' = Reading(h)
  BY <1>1, ReadersKept DEF Reading
<1>3. CASE Create
  <2>1. \A h \in Hops : ~Reading(h)
    BY <1>3, NoneReads DEF Create
  <2>2. FileOK'
    <3>1. CASE Refused \/ Full(others)
      <4>1. UNCHANGED <<entry, file>> /\ ui' # "staging" /\ damage' = damage
        BY <1>3, <3>1 DEF Create
      <4> QED
        BY <1>1, <1>2, <4>1, FileKept
    <3>2. CASE ~(Refused \/ Full(others))
      <4>1. /\ file' = <<>> /\ ~entry'.complete /\ entry'.written = 0
        BY <1>3, <3>2 DEF Create
      <4>2. Exact(0) = <<>> /\ <<>> \in Seq(Chunks)
        BY DEF Exact
      <4> QED
        BY <1>2, <2>1, <4>1, <4>2 DEF FileOK
    <3> QED
      BY <3>1, <3>2
  <2>3. StageOK'
    <3>1. CASE Refused \/ Full(others)
      BY <1>0, <1>1, <1>3, <3>1, StageKept DEF Create, StageOK
    <3>2. CASE ~(Refused \/ Full(others))
      BY <1>0, <1>1, <1>3, <3>2, StageKept DEF Create, StageOK, Refused
    <3> QED
      BY <3>1, <3>2
  <2> QED
    BY <1>2, <2>2, <2>3
<1>4. CASE AppendChunk
  <2>1. /\ \A h \in Hops : ~Reading(h)
        /\ entry \in Entry /\ entry.kind = "temporary" /\ ~entry.complete
        /\ entry.written \in Nat /\ entry.written + 1 <= size /\ entry.written + 1 \in Chunks
        /\ file \in Seq(Chunks) /\ (damage = 0 => file = Exact(entry.written))
    <3>1. /\ \A h \in Hops : ~Reading(h)
          /\ entry \in Entry /\ entry.kind = "temporary" /\ ~entry.complete
          /\ entry.written < size
      BY <1>0, <1>4, NoneReads DEF AppendChunk, StageOK, TypeOK
    <3>2. entry.written \in Nat /\ size <= MaxChunks
      BY <1>0, <3>1, Types DEF Entry, Chunks
    <3>3. file \in Seq(Chunks) /\ (damage = 0 => file = Exact(entry.written))
      BY <1>0, <1>4, <3>1 DEF FileOK, AppendChunk
    <3> QED
      BY <1>0, <3>1, <3>2, <3>3, UploadAssumption DEF Chunks
  <2>2. CASE /\ entry' = [entry EXCEPT !.written = @ + 1]
             /\ file' = Append(file, entry.written + 1)
             /\ UNCHANGED <<ui, faults>>
    <3>1. /\ entry'.kind = "temporary" /\ ~entry'.complete
          /\ entry'.written = entry.written + 1 /\ entry'.written \in 0..size
      BY <1>0, <2>1, <2>2 DEF Entry
    <3>2. file' \in Seq(Chunks)
      BY <2>1, <2>2
    <3>3. damage = 0 => file' = Exact(entry.written + 1)
      <4> DEFINE w == entry.written
      <4>1. w \in Nat
        BY <2>1
      <4> HIDE DEF w
      <4>2. Append(Exact(w), w + 1) = Exact(w + 1)
        BY <4>1 DEF Exact
      <4> QED
        BY <2>1, <2>2, <4>2 DEF w
    <3>4. FileOK'
      BY <1>1, <1>2, <2>1, <3>1, <3>2, <3>3 DEF FileOK
    <3>5. StageOK'
      BY <1>0, <1>1, <1>4, <2>2, <3>1, StageKept DEF AppendChunk, StageOK
    <3> QED
      BY <1>2, <3>4, <3>5
  <2>3. CASE /\ file' \in {file, Append(file, Torn)}
             /\ ui' = AfterFailedWrite
             /\ UNCHANGED entry
    <3>1. file' \in Seq(Chunks)
      BY <2>1, <2>3, UploadAssumption DEF Torn, Chunks
    <3>2. FileOK'
      BY <1>2, <2>1, <2>3, <3>1 DEF FileOK, AfterFailedWrite
    <3>3. StageOK'
      BY <1>0, <1>1, <1>4, <2>3, StageKept DEF AppendChunk, StageOK, AfterFailedWrite
    <3> QED
      BY <1>2, <3>2, <3>3
  <2> QED
    BY <1>4, <2>2, <2>3 DEF AppendChunk
<1>5. CASE Finish
  <2>1. /\ \A h \in Hops : ~Reading(h)
        /\ entry \in Entry /\ entry.kind = "temporary" /\ entry.written = size
    BY <1>0, <1>5, NoneReads DEF Finish, StageOK, TypeOK
  <2>2. /\ entry'.kind = "temporary" /\ entry'.complete /\ entry'.written = size
        /\ file' = file /\ ui' = "ready" /\ damage' = damage
    BY <1>5, <2>1 DEF Finish, Entry
  <2>3. FileOK'
    BY <1>0, <1>1, <1>2, <1>5, <2>1, <2>2 DEF FileOK, Finish
  <2>4. StageOK'
    BY <1>0, <1>1, <1>5, <2>2, StageKept DEF Finish, StageOK
  <2> QED
    BY <1>2, <2>3, <2>4
<1>6. CASE Damage
  <2>1. TypeOK' /\ damage' # 0 /\ UNCHANGED <<entry, ui>>
    BY <1>0, <1>6, ExecutionTypes DEF Damage
  <2>2. file' \in Seq(Chunks)
    BY <1>0, <1>6, DamagedFile
  <2>3. FileOK'
    BY <2>1, <2>2 DEF FileOK
  <2>4. StageOK'
    BY <1>0, <1>1, <1>6, StageKept DEF Damage, StageOK
  <2> QED
    BY <1>2, <2>3, <2>4
<1> QED
  BY <1>3, <1>4, <1>5, <1>6

\* A step of one reader: no other reader moves, and no thread begins.
LEMMA TransferTouches ==
  ASSUME TypeOK, NEW h \in Hops, Transfer(h)
  PROVE  /\ \A i \in Hops : i # h => reader'[i] = reader[i]
         /\ reader'[h].thread = "reading" => reader[h].thread = "reading"
         /\ reader'[h].source = reader[h].source
         /\ reader[h].thread = "none" => reader'[h].thread = "none"
<1>1. reader[h] \in Readers /\ reader \in [Hops -> Readers]
  BY Types
<1>2. CASE Produce(h)
  <2>1. reader' = [reader EXCEPT ![h] = AfterRead(reader[h])] /\ reader[h].thread = "reading"
    BY <1>2 DEF Produce
  <2>2. /\ AfterRead(reader[h]).thread \in {reader[h].thread, "stopped"}
        /\ AfterRead(reader[h]).source = reader[h].source
    BY <1>1 DEF AfterRead, Readers
  <2> QED
    BY <1>1, <2>1, <2>2
<1>3. CASE Consume(h)
  <2>1. \E r : reader' = [reader EXCEPT ![h] = r] /\ r.thread = reader[h].thread
                  /\ r.source = reader[h].source
    <3>1. ASSUME NEW p, NEW q, reader' = [reader EXCEPT ![h].pipe = p, ![h].sent = q]
          PROVE  \E r : reader' = [reader EXCEPT ![h] = r] /\ r.thread = reader[h].thread
                          /\ r.source = reader[h].source
      <4> DEFINE r == [reader[h] EXCEPT !.pipe = p, !.sent = q]
      <4>1. reader' = [reader EXCEPT ![h] = r]
        BY <3>1
      <4>2. r.thread = reader[h].thread /\ r.source = reader[h].source
        BY <1>1 DEF Readers
      <4> HIDE DEF r
      <4> QED
        BY <4>1, <4>2
    <3>2. ASSUME NEW b, reader' = [reader EXCEPT ![h].body = b]
          PROVE  \E r : reader' = [reader EXCEPT ![h] = r] /\ r.thread = reader[h].thread
                          /\ r.source = reader[h].source
      <4> DEFINE r == [reader[h] EXCEPT !.body = b]
      <4>1. reader' = [reader EXCEPT ![h] = r]
        BY <3>2
      <4>2. r.thread = reader[h].thread /\ r.source = reader[h].source
        BY <1>1 DEF Readers
      <4> HIDE DEF r
      <4> QED
        BY <4>1, <4>2
    <3> QED
      BY <1>3, <3>1, <3>2 DEF Consume
  <2> QED
    BY <1>1, <2>1
<1>4. CASE Stop(h)
  BY <1>1, <1>4 DEF Stop, Readers
<1> QED
  BY <1>2, <1>3, <1>4 DEF Transfer

\* Steps of one hop.
LEMMA HopKeeps ==
  ASSUME IInv, \/ OpenBody \/ Redirect \/ HopEnds \/ Crash
               \/ \E h \in Hops : Transfer(h)
  PROVE  ReadersOK' /\ FileOK' /\ StageOK'
<1> USE DEF execution, registry, bounds
<1>0. /\ TypeOK /\ StageOK /\ ReadersOK /\ FileOK /\ None.kind = "none"
      /\ size \in Nat /\ reader \in [Hops -> Readers] /\ hop \in Hops
      /\ Hops \subseteq Nat
  BY Types DEF IInv
<1>1. CASE OpenBody
  <2>1. entry' \in {entry, None} /\ UNCHANGED <<size, hop, damage, opened, closed>>
        /\ ui = "started" /\ opened
    BY <1>1 DEF OpenBody, Cleaned
  <2>2. reader[hop] = NoReader
    BY <1>0, <2>1 DEF StageOK
  <2>3. CASE Refused \/ entry' = None
    <3>1. UNCHANGED reader /\ ui' = "releasing" /\ Dropping(entry', reader')
      BY <1>1, <2>3 DEF OpenBody
    <3>2. \A h \in Hops : Reading(h)' = Reading(h)
      BY <3>1 DEF Reading
    <3>3. FileOK'
      BY <1>0, <2>1, <3>1, <3>2, FileKept
    <3>4. StageOK'
      BY <1>0, <2>1, <3>1, StageKept DEF StageOK
    <3> QED
      BY <1>1, <3>3, <3>4, OpenKeeps
  <2>4. CASE ~(Refused \/ entry' = None)
    <3> DEFINE r == [reader[hop] EXCEPT !.thread = "reading", !.source = entry.kind,
                                        !.body = "open"]
    <3>1. /\ entry' = entry /\ entry \in Entry /\ entry.complete /\ ~closed
          /\ ui' = "sending" /\ Dropping(entry', reader')
          /\ reader' = [reader EXCEPT ![hop] = r]
      BY <1>0, <1>1, <2>1, <2>4 DEF OpenBody, TypeOK, StageOK, Refused
    <3>2. r \in Readers /\ r.thread = "reading" /\ r.source = entry.kind
      BY <1>0, <3>1 DEF Readers, Entry
    <3> HIDE DEF r
    <3>3. reader'[hop] = r /\ \A i \in Hops : i # hop => reader'[i] = reader[i]
      BY <1>0, <3>1, <3>2, OneReader
    <3>4. /\ entry'.kind = "temporary" => file' = file
          /\ \A h \in Hops : Reading(h)' => file' = file
      BY <3>1, KeptByLease
    <3>5. \A h \in Hops : Reading(h)' => Reading(h) \/ entry.kind = "temporary"
      BY <3>2, <3>3 DEF Reading
    <3>6. FileOK'
      BY <1>0, <2>1, <3>1, <3>4, <3>5 DEF FileOK
    <3>7. StageOK'
      <4>1. \A h \in Hops : h > hop => h # hop /\ reader[h] = NoReader
        BY <1>0 DEF StageOK
      <4> QED
        BY <2>1, <3>1, <3>3, <4>1 DEF StageOK
    <3> QED
      BY <1>1, <3>6, <3>7, OpenKeeps
  <2> QED
    BY <2>3, <2>4
<1>2. ASSUME Redirect \/ HopEnds PROVE ReadersOK' /\ FileOK' /\ StageOK'
  <2>1. /\ BodyDropped /\ UNCHANGED <<size, damage, file, entry, opened, closed>>
        /\ ui \in {"started", "sending"}
        /\ \/ ui' = "ready" /\ hop' = hop + 1
           \/ ui' = "releasing" /\ hop' = hop
    BY <1>2 DEF Redirect, HopEnds, AfterHop
  <2>2. \A h \in Hops :
            /\ reader'[h] = [reader[h] EXCEPT !.body = reader'[h].body]
            /\ reader[h].body # "open" \/ h # hop => reader'[h] = reader[h]
    BY <1>0, <2>1, Dropped
  <2>3. \A h \in Hops : /\ reader'[h].thread = reader[h].thread
                        /\ reader'[h].source = reader[h].source
    BY <1>0, <2>2 DEF Readers
  <2>4. FileOK'
    BY <2>1, <2>3, FileKept DEF Reading
  <2>5. StageOK'
    <3>1. \A h \in Hops : h > hop => h # hop /\ reader'[h] = NoReader
      <4>1. \A h \in Hops : h > hop => h # hop
        BY <1>0
      <4>2. \A h \in Hops : h > hop => reader[h] = NoReader
        BY <1>0 DEF StageOK
      <4> QED
        BY <2>2, <4>1, <4>2
    <3>2. \A h \in Hops :
             h > hop' \/ (h = hop' /\ ui' \in {"idle", "copying", "staging", "ready", "started"})
             => h > hop
      BY <1>0, <2>1
    <3>3. ui' \in {"ready", "started", "sending"} /\ entry' # None => entry'.complete
      BY <1>0, <2>1 DEF StageOK
    <3>4. /\ ~opened' \/ closed' => entry' = None
          /\ ~opened' => \A h \in Hops : reader'[h].thread # "reading"
      BY <1>0, <2>1, <2>3 DEF StageOK
    <3> QED
      BY <2>1, <3>1, <3>2, <3>3, <3>4 DEF StageOK
  <2> QED
    BY <2>1, <2>4, <2>5, ReadersDropped
<1>3. CASE Crash
  <2>1. /\ reader' = [h \in Hops |-> NoReader] /\ entry' = None /\ size' = size
        /\ ui' \in {"idle", "done"} /\ (ui' = "idle" => ui = "idle") /\ hop' = hop
    BY <1>3 DEF Crash
  <2>2. \A h \in Hops : reader'[h] = NoReader /\ ~Reading(h)'
    BY <2>1 DEF NoReader, Reading
  <2>3. FileOK'
    BY <1>0, <2>1, <2>2 DEF FileOK
  <2>4. StageOK'
    BY <1>0, <2>1, <2>2 DEF StageOK, NoReader
  <2> QED
    BY <1>0, <2>1, <2>3, <2>4, NoneRead
<1>4. ASSUME NEW h \in Hops, Transfer(h) PROVE ReadersOK' /\ FileOK' /\ StageOK'
  <2>1. /\ UNCHANGED <<size, hop, damage, entry, opened, closed, ui>>
        /\ Dropping(entry', reader') \/ UNCHANGED file
        /\ reader[h] # NoReader
    BY <1>4 DEF Transfer, Produce, Consume, Stop, NoReader
  <2>2. /\ \A i \in Hops : i # h => reader'[i] = reader[i]
        /\ reader'[h].thread = "reading" => reader[h].thread = "reading"
        /\ reader'[h].source = reader[h].source
    BY <1>0, <1>4, TransferTouches
  <2>3. \A i \in Hops : Reading(i)' => Reading(i)
    BY <2>2 DEF Reading
  <2>4. FileOK'
    BY <2>1, <2>3, FileKept
  <2>5. StageOK'
    <3>1. \A i \in Hops : reader[i] = NoReader => reader'[i] = NoReader
      BY <2>1, <2>2
    <3>2. ~opened' => \A i \in Hops : reader'[i].thread # "reading"
      BY <1>0, <2>1, <2>2 DEF StageOK
    <3> QED
      BY <1>0, <2>1, <3>1, <3>2 DEF StageOK
  <2>6. ReadersOK'
    <3>1. TypeOK'
      BY <1>4, HopTypes
    <3>2. Produce(h) => AfterRead(reader[h]) \in Readers
      <4>1. ASSUME Produce(h) PROVE AfterRead(reader[h]) \in Readers
        <5>1. reader' = [reader EXCEPT ![h] = AfterRead(reader[h])]
          BY <4>1 DEF Produce
        <5>2. reader'[h] = AfterRead(reader[h]) /\ reader' \in [Hops -> Readers]
          BY <1>0, <3>1, <5>1 DEF TypeOK
        <5> QED
          BY <5>2
      <4> QED
        BY <4>1
    <3> QED
      BY <1>4, <3>2, ProduceKeeps, ConsumeKeeps, StopKeeps DEF Transfer
  <2> QED
    BY <2>4, <2>5, <2>6
<1> QED
  BY <1>1, <1>2, <1>3, <1>4

-----------------------------------------------------------------------------
(* The theorems.                                                           *)

\* Before the application runs nothing is staged and nothing read.
LEMMA Initially == Init => IInv
<1> SUFFICES ASSUME Init PROVE IInv
  OBVIOUS
<1>1. TypeOK
  <2>1. NoReader \in Readers /\ 0 \in Hops
    BY UploadAssumption DEF NoReader, Readers, Chunks, Hops
  <2>2. /\ reader \in [Hops -> Readers] /\ entry = None
        /\ others \in Nat /\ others + 0 <= MaxEntries
    BY <2>1, UploadAssumption DEF Init
  <2>3. others + (IF entry = None THEN 0 ELSE 1) <= MaxEntries
    BY <2>2
  <2>4. faults \in 0..MaxFaults /\ damage \in 0..MaxDamage /\ crashes \in 0..MaxCrashes
    BY UploadAssumption DEF Init
  <2>5. size \in Chunks /\ aborted \in BOOLEAN /\ hop \in Hops /\ closed \in BOOLEAN
          /\ opened \in BOOLEAN /\ ui = "idle" /\ file = Absent
    BY <2>1 DEF Init
  <2>6. /\ ui \in {"idle", "copying", "staging", "ready", "started", "sending",
                   "releasing", "done"}
        /\ entry \in Entry \cup {None}
    BY <2>2, <2>5
  <2> QED
    BY <2>2, <2>3, <2>4, <2>5, <2>6 DEF TypeOK
<1>2. \A h \in Hops : reader[h] = NoReader
  BY DEF Init
<1>3. size \in Nat
  BY <1>1, Types
<1>4. ReadersOK
  <2>1. ReaderOK(NoReader, size, damage)
    BY <1>3 DEF ReaderOK, NoReader
  <2> QED
    BY <1>2, <2>1 DEF ReadersOK
<1>5. FileOK
  BY <1>2 DEF Init, FileOK, Reading, NoReader, None
<1>6. StageOK
  BY <1>2 DEF Init, StageOK
<1> QED
  BY <1>1, <1>4, <1>5, <1>6 DEF IInv

\* Every step keeps the invariant.
LEMMA Steps == IInv /\ [Next]_vars => IInv'
<1> SUFFICES ASSUME IInv, [Next]_vars PROVE IInv'
  OBVIOUS
<1>1. CASE \/ Open \/ Expire \/ Others \/ CopyAttachment \/ Attach \/ StageFails
           \/ Start \/ Release \/ Abort \/ CloseWindow
  <2>1. UNCHANGED reader
    BY <1>1 DEF Open, Expire, Others, CopyAttachment, Attach, StageFails, Start,
                Release, Abort, CloseWindow
  <2>2. TypeOK'
    BY <1>1, <2>1, ExecutionTypes DEF IInv
  <2> QED
    BY <1>1, <2>2, RegistryKeeps DEF IInv
<1>2. CASE Create \/ AppendChunk \/ Finish \/ Damage
  <2>1. UNCHANGED reader
    BY <1>2 DEF Create, AppendChunk, Finish, Damage
  <2>2. TypeOK'
    BY <1>2, <2>1, ExecutionTypes DEF IInv
  <2> QED
    BY <1>2, <2>2, WritingKeeps DEF IInv
<1>3. CASE \/ OpenBody \/ Redirect \/ HopEnds \/ Crash \/ \E h \in Hops : Transfer(h)
  BY <1>3, HopTypes, HopKeeps DEF IInv
<1>4. CASE UNCHANGED vars
  BY <1>4 DEF IInv, TypeOK, ReadersOK, FileOK, Reading, StageOK, vars, execution,
              registry, bounds
<1> QED
  BY <1>1, <1>2, <1>3, <1>4 DEF Next, Execution

\* The types, the readers, the file and the stages, in every reachable state
\* and for every size of a file, every limit of the registry and any number of
\* hops, failing writes, alterations and ends of the process.
THEOREM UploadInvariance == Spec => []IInv
  BY Initially, Steps, PTL DEF Spec

\* What the network gets is the file the user picked (BodyIsExact), and a
\* closed window begins nothing (ClosedStaysClosed): UploadsAreExact for every
\* instance.
THEOREM UploadsExact == Spec => UploadsAreExact
<1>1. IInv => BodyIsExact
  <2> SUFFICES ASSUME IInv, NEW h \in Hops
               PROVE  LET r == reader[h] IN
                      /\ r.sent = [k \in 1..Len(r.sent) |-> k]
                      /\ r.body = "complete" => Len(r.sent) = size
                      /\ damage = 0 => r.result # "damaged"
    BY DEF BodyIsExact
  <2>1. reader[h] \in Readers /\ ReaderOK(reader[h], size, damage)
    BY Types DEF IInv, ReadersOK
  <2>2. reader[h].sent \in Seq(Chunks)
    BY <2>1 DEF Readers
  <2>3. reader[h].sent = [k \in 1..Len(reader[h].sent) |-> k]
    BY <2>1, <2>2 DEF ReaderOK
  <2> QED
    BY <2>1, <2>3 DEF ReaderOK
<1>2. ASSUME IInv, [Next]_vars, closed, closed'
      PROVE  /\ entry' = None
             /\ \A h \in Hops : reader[h].thread = "none" => reader'[h].thread = "none"
  <2>1. entry' = None
    BY <1>2, Steps DEF IInv, StageOK
  <2>2. CASE Crash
    BY <1>2, <2>2 DEF Crash
  <2>3. CASE Redirect \/ HopEnds
    <3>1. BodyDropped
      BY <2>3 DEF Redirect, HopEnds
    <3>2. \A h \in Hops : reader[h] \in Readers
            /\ reader'[h] = [reader[h] EXCEPT !.body = reader'[h].body]
      BY <1>2, <3>1, Dropped, Types DEF IInv
    <3> QED
      BY <2>1, <3>2 DEF Readers
  <2>4. ASSUME NEW h \in Hops, Transfer(h)
        PROVE  \A i \in Hops : reader[i].thread = "none" => reader'[i].thread = "none"
    BY <1>2, <2>4, TransferTouches DEF IInv
  <2>5. CASE OpenBody
    <3>1. UNCHANGED reader
      BY <1>2, <2>5 DEF OpenBody, Refused
    <3> QED
      BY <2>1, <3>1
  <2>6. CASE UNCHANGED vars
    BY <2>1, <2>6 DEF vars
  <2>7. CASE \/ Open \/ Expire \/ Others \/ CopyAttachment \/ Attach \/ StageFails
             \/ Start \/ Release \/ Abort \/ CloseWindow \/ Create \/ AppendChunk
             \/ Finish \/ Damage
    <3>1. UNCHANGED reader
      BY <2>7 DEF Open, Expire, Others, CopyAttachment, Attach, StageFails, Start,
                  Release, Abort, CloseWindow, Create, AppendChunk, Finish, Damage
    <3> QED
      BY <2>1, <3>1
  <2> QED
    BY <1>2, <2>1, <2>2, <2>3, <2>4, <2>5, <2>6, <2>7 DEF Next, Execution
<1> QED
  BY <1>1, <1>2, UploadInvariance, PTL DEF Spec, UploadsAreExact, ClosedStaysClosed

-----------------------------------------------------------------------------
(* The machines together.  Whichever of them runs, its variables change by *)
(* its own steps, so what holds of each alone holds of them together; what *)
(* CleanupProofs and ResponseProofs prove is cited of their instances.     *)

CleanupOf == INSTANCE CleanupProofs
    WITH faults <- cleanupFaults, crashes <- cleanupCrashes,
         MaxFaults <- MaxCleanupFaults, MaxCrashes <- MaxCleanupCrashes

CaptureOf == INSTANCE ResponseProofs
    WITH aborted <- abandoned, closed <- destroyed, entry <- ticket, pc <- task,
         faults <- captureFaults, crashes <- captureCrashes,
         Requests <- Responses, Encrypted <- Responses, MaxEntries <- MaxTickets,
         MaxFaults <- MaxCaptureFaults, MaxCrashes <- MaxCaptureCrashes

\* The instances of CleanupProofs and of ResponseProofs are of the machines of
\* MCParts: their definitions are the same.
LEMMA CleanupIsOne ==
  /\ Cleanup!Init => CleanupOf!Init
  /\ [Cleanup!Next]_(Cleanup!vars) => [CleanupOf!Next]_(CleanupOf!vars)
  /\ CleanupOf!TypeOK => Cleanup!TypeOK
  /\ CleanupOf!PendingIsReserved => Cleanup!PendingIsReserved
  BY DEF Cleanup!Init, Cleanup!Next, Cleanup!vars, Cleanup!TypeOK,
         Cleanup!PendingIsReserved, Cleanup!Directories, Cleanup!BeginDelete,
         Cleanup!Step, Cleanup!Fail, Cleanup!Crash, Cleanup!Reopen, Cleanup!Startup,
         Cleanup!Register, Cleanup!ExternalEdit, Cleanup!ExternalRemove,
         Cleanup!ExternalCreate, Cleanup!disk, Cleanup!bounds, Cleanup!Intents,
         Cleanup!CommitDelete, Cleanup!Compare, Cleanup!Rename,
         Cleanup!RecordQuarantine, Cleanup!Verify, Cleanup!RemoveFile,
         Cleanup!RemoveDirectory, Cleanup!FinishCleanup, Cleanup!Retry,
         Cleanup!Available, Cleanup!External, Cleanup!ToBeMoved,
         Cleanup!UnchangedRemaining, CleanupOf!Init, CleanupOf!Next, CleanupOf!vars,
         CleanupOf!TypeOK, CleanupOf!PendingIsReserved, CleanupOf!Directories,
         CleanupOf!BeginDelete, CleanupOf!Step, CleanupOf!Fail, CleanupOf!Crash,
         CleanupOf!Reopen, CleanupOf!Startup, CleanupOf!Register,
         CleanupOf!ExternalEdit, CleanupOf!ExternalRemove, CleanupOf!ExternalCreate,
         CleanupOf!disk, CleanupOf!bounds, CleanupOf!Intents, CleanupOf!CommitDelete,
         CleanupOf!Compare, CleanupOf!Rename, CleanupOf!RecordQuarantine,
         CleanupOf!Verify, CleanupOf!RemoveFile, CleanupOf!RemoveDirectory,
         CleanupOf!FinishCleanup, CleanupOf!Retry, CleanupOf!Available,
         CleanupOf!External, CleanupOf!ToBeMoved, CleanupOf!UnchangedRemaining

\* The same of a capture.
LEMMA CaptureIsOne ==
  /\ Capture!Init => CaptureOf!Init
  /\ [Capture!Next]_(Capture!vars) => [CaptureOf!Next]_(CaptureOf!vars)
  /\ CaptureOf!TypeOK => Capture!TypeOK
  /\ CaptureOf!StoredAsReported => Capture!StoredAsReported
<1>1. /\ Capture!Pruned = CaptureOf!Pruned /\ Capture!Forgotten = CaptureOf!Forgotten
      /\ \A e : Capture!Crowded(e) <=> CaptureOf!Crowded(e)
  BY DEF Capture!Pruned, CaptureOf!Pruned, Capture!Forgotten, CaptureOf!Forgotten,
         Capture!Crowded, CaptureOf!Crowded, Capture!Cardinality, CaptureOf!Cardinality
<1>2. ASSUME NEW r, Capture!Cancel(r) PROVE CaptureOf!Cancel(r)
  BY <1>1, <1>2, Zenon
  DEF Capture!Cancel, CaptureOf!Cancel, Capture!capture, CaptureOf!capture,
      Capture!bounds, CaptureOf!bounds
<1> USE DEF Capture!Init, Capture!vars, Capture!TypeOK, Capture!StoredAsReported,
            Capture!NoWorker, Capture!Workers, Capture!NoRow, Capture!NotEnded,
            Capture!TombstoneAges, Capture!Send, Capture!Abort, Capture!Receive,
            Capture!LetGo, Capture!Forget, Capture!Record, Capture!DeleteExecution,
            Capture!RowExpires, Capture!Work, Capture!Unlock, Capture!CloseWindow,
            Capture!Crash, Capture!webview, Capture!registry, Capture!capture,
            Capture!bounds, Capture!history, Capture!Stages, Capture!Jobs,
            Capture!Content, Capture!ReadableIsWhole, Capture!FailedLeavesNothing,
            Capture!Pruned, Capture!Crowded, Capture!Forgotten, Capture!Register,
            Capture!Begin, Capture!Call, Capture!Headers, Capture!FullBatch,
            Capture!BodyEnds, Capture!BodyFails, Capture!EnqueueBatch,
            Capture!AwaitWrite, Capture!Drained, Capture!Cancelled, Capture!Return,
            Capture!Drop, Capture!Adopted, Capture!Succeeds, Capture!Applied,
            Capture!Answer, Capture!Surviving, Capture!Wanted, Capture!Cleaned,
            Capture!Enqueue, Capture!Job, Capture!Waiting, Capture!AfterEnqueue,
            Capture!CanProtect, CaptureOf!Init, CaptureOf!vars, CaptureOf!TypeOK,
            CaptureOf!StoredAsReported, CaptureOf!NoWorker, CaptureOf!Workers,
            CaptureOf!NoRow, CaptureOf!NotEnded, CaptureOf!TombstoneAges,
            CaptureOf!Send, CaptureOf!Abort, CaptureOf!Receive, CaptureOf!LetGo,
            CaptureOf!Forget, CaptureOf!Record, CaptureOf!DeleteExecution,
            CaptureOf!RowExpires, CaptureOf!Work, CaptureOf!Unlock,
            CaptureOf!CloseWindow, CaptureOf!Crash, CaptureOf!webview,
            CaptureOf!registry, CaptureOf!capture, CaptureOf!bounds, CaptureOf!history,
            CaptureOf!Stages, CaptureOf!Jobs, CaptureOf!Content,
            CaptureOf!ReadableIsWhole, CaptureOf!FailedLeavesNothing, CaptureOf!Pruned,
            CaptureOf!Crowded, CaptureOf!Forgotten, CaptureOf!Register, CaptureOf!Begin,
            CaptureOf!Call, CaptureOf!Headers, CaptureOf!FullBatch, CaptureOf!BodyEnds,
            CaptureOf!BodyFails, CaptureOf!EnqueueBatch, CaptureOf!AwaitWrite,
            CaptureOf!Drained, CaptureOf!Cancelled, CaptureOf!Return, CaptureOf!Drop,
            CaptureOf!Adopted, CaptureOf!Succeeds, CaptureOf!Applied, CaptureOf!Answer,
            CaptureOf!Surviving, CaptureOf!Wanted, CaptureOf!Cleaned, CaptureOf!Enqueue,
            CaptureOf!Job, CaptureOf!Waiting, CaptureOf!AfterEnqueue,
            CaptureOf!CanProtect
<1>3. ASSUME Capture!Init PROVE CaptureOf!Init
  BY <1>3
<1>4. ASSUME CaptureOf!TypeOK PROVE Capture!TypeOK
  BY <1>4
<1>5. ASSUME CaptureOf!StoredAsReported PROVE Capture!StoredAsReported
  BY <1>5
<1>6. ASSUME NEW r, Capture!Register(r) PROVE CaptureOf!Register(r)
  BY <1>6
<1>7. ASSUME NEW r, Capture!Begin(r) PROVE CaptureOf!Begin(r)
  BY <1>7
<1>8. ASSUME NEW r, Capture!Call(r) PROVE CaptureOf!Call(r)
  BY <1>8
<1>9. ASSUME NEW r, Capture!Headers(r) PROVE CaptureOf!Headers(r)
  BY <1>9
<1>10. ASSUME NEW r, Capture!FullBatch(r) PROVE CaptureOf!FullBatch(r)
  BY <1>10
<1>11. ASSUME NEW r, Capture!BodyEnds(r) PROVE CaptureOf!BodyEnds(r)
  BY <1>11
<1>12. ASSUME NEW r, Capture!BodyFails(r) PROVE CaptureOf!BodyFails(r)
  BY <1>12
<1>13. ASSUME NEW r, Capture!EnqueueBatch(r) PROVE CaptureOf!EnqueueBatch(r)
  BY <1>13
<1>14. ASSUME NEW r, Capture!AwaitWrite(r) PROVE CaptureOf!AwaitWrite(r)
  BY <1>14
<1>15. ASSUME NEW r, Capture!Drained(r) PROVE CaptureOf!Drained(r)
  BY <1>15
<1>16. ASSUME NEW r, Capture!Cancelled(r) PROVE CaptureOf!Cancelled(r)
  BY <1>16
<1>17. ASSUME NEW r, Capture!Return(r) PROVE CaptureOf!Return(r)
  BY <1>17
<1>18. ASSUME NEW r, Capture!TombstoneAges(r) PROVE CaptureOf!TombstoneAges(r)
  BY <1>18
<1>19. ASSUME NEW r, Capture!Send(r) PROVE CaptureOf!Send(r)
  BY <1>19
<1>20. ASSUME NEW r, Capture!Abort(r) PROVE CaptureOf!Abort(r)
  BY <1>20
<1>21. ASSUME NEW r, Capture!Receive(r) PROVE CaptureOf!Receive(r)
  BY <1>21
<1>22. ASSUME NEW r, Capture!LetGo(r) PROVE CaptureOf!LetGo(r)
  BY <1>22
<1>23. ASSUME NEW r, Capture!Forget(r) PROVE CaptureOf!Forget(r)
  BY <1>23
<1>24. ASSUME NEW r, Capture!Record(r) PROVE CaptureOf!Record(r)
  BY <1>24
<1>25. ASSUME NEW r, Capture!DeleteExecution(r) PROVE CaptureOf!DeleteExecution(r)
  BY <1>25
<1>26. ASSUME NEW r, Capture!RowExpires(r) PROVE CaptureOf!RowExpires(r)
  BY <1>26
<1>27. ASSUME NEW w, Capture!Work(w) PROVE CaptureOf!Work(w)
  BY <1>27
<1>28. ASSUME Capture!Unlock PROVE CaptureOf!Unlock
  BY <1>28
<1>29. ASSUME Capture!CloseWindow PROVE CaptureOf!CloseWindow
  BY <1>29
<1>30. ASSUME Capture!Crash PROVE CaptureOf!Crash
  BY <1>30
<1>31. ASSUME UNCHANGED Capture!vars PROVE UNCHANGED CaptureOf!vars
  BY <1>31
<1> HIDE DEF Capture!Init, Capture!vars, Capture!TypeOK, Capture!StoredAsReported,
            Capture!NoWorker, Capture!NoRow, Capture!NotEnded, Capture!TombstoneAges, Capture!Send,
            Capture!Abort, Capture!Receive, Capture!LetGo, Capture!Forget,
            Capture!Record, Capture!DeleteExecution, Capture!RowExpires, Capture!Work,
            Capture!Unlock, Capture!CloseWindow, Capture!Crash, Capture!webview,
            Capture!registry, Capture!capture, Capture!bounds, Capture!history,
            Capture!Stages, Capture!Jobs, Capture!Content, Capture!ReadableIsWhole,
            Capture!FailedLeavesNothing, Capture!Pruned, Capture!Crowded,
            Capture!Forgotten, Capture!Register, Capture!Begin, Capture!Call,
            Capture!Headers, Capture!FullBatch, Capture!BodyEnds, Capture!BodyFails,
            Capture!EnqueueBatch, Capture!AwaitWrite, Capture!Drained,
            Capture!Cancelled, Capture!Return, Capture!Drop, Capture!Adopted,
            Capture!Succeeds, Capture!Applied, Capture!Answer, Capture!Surviving,
            Capture!Wanted, Capture!Cleaned, Capture!Enqueue, Capture!Job,
            Capture!Waiting, Capture!AfterEnqueue, Capture!CanProtect, CaptureOf!Init,
            CaptureOf!vars, CaptureOf!TypeOK, CaptureOf!StoredAsReported,
            CaptureOf!NoWorker, CaptureOf!NoRow, CaptureOf!NotEnded,
            CaptureOf!TombstoneAges, CaptureOf!Send, CaptureOf!Abort, CaptureOf!Receive,
            CaptureOf!LetGo, CaptureOf!Forget, CaptureOf!Record,
            CaptureOf!DeleteExecution, CaptureOf!RowExpires, CaptureOf!Work,
            CaptureOf!Unlock, CaptureOf!CloseWindow, CaptureOf!Crash, CaptureOf!webview,
            CaptureOf!registry, CaptureOf!capture, CaptureOf!bounds, CaptureOf!history,
            CaptureOf!Stages, CaptureOf!Jobs, CaptureOf!Content,
            CaptureOf!ReadableIsWhole, CaptureOf!FailedLeavesNothing, CaptureOf!Pruned,
            CaptureOf!Crowded, CaptureOf!Forgotten, CaptureOf!Register, CaptureOf!Begin,
            CaptureOf!Call, CaptureOf!Headers, CaptureOf!FullBatch, CaptureOf!BodyEnds,
            CaptureOf!BodyFails, CaptureOf!EnqueueBatch, CaptureOf!AwaitWrite,
            CaptureOf!Drained, CaptureOf!Cancelled, CaptureOf!Return, CaptureOf!Drop,
            CaptureOf!Adopted, CaptureOf!Succeeds, CaptureOf!Applied, CaptureOf!Answer,
            CaptureOf!Surviving, CaptureOf!Wanted, CaptureOf!Cleaned, CaptureOf!Enqueue,
            CaptureOf!Job, CaptureOf!Waiting, CaptureOf!AfterEnqueue,
            CaptureOf!CanProtect
<1>32. ASSUME Capture!Next PROVE CaptureOf!Next
    BY <1>32, <1>2, <1>6, <1>7, <1>8, <1>9, <1>10, <1>11, <1>12, <1>13, <1>14, <1>15,
     <1>16, <1>17, <1>18, <1>19, <1>20, <1>21, <1>22, <1>23, <1>24, <1>25, <1>26, <1>27,
     <1>28, <1>29, <1>30
  DEF Capture!Next, CaptureOf!Next, Capture!Task, CaptureOf!Task
<1> QED
  BY <1>3, <1>4, <1>5, <1>31, <1>32

\* What ResponseProofs assumes holds of the instance.
LEMMA CaptureAssumed == CaptureOf!CaptureAssumption
  BY PartsAssumption DEF CaptureOf!CaptureAssumption

\* A step of the composition is a step of one machine, and the others stand still.
LEMMA PartsMove ==
  [PartsNext]_allVars => /\ [Next]_vars
                         /\ [Cleanup!Next]_(Cleanup!vars)
                         /\ [Capture!Next]_(Capture!vars)
  BY DEF PartsNext, OfUploads, OfCleanup, OfCapture, allVars, cleanupVars, captureVars,
         Cleanup!vars, Cleanup!disk, Cleanup!bounds, Capture!vars, Capture!webview,
         Capture!registry, Capture!capture, Capture!bounds, Capture!history

\* So the composition is each of its machines.
LEMMA PartsAreMachines == Parts => Spec /\ CleanupOf!Spec /\ CaptureOf!Spec
<1>1. PartsInit => Init /\ CleanupOf!Init /\ CaptureOf!Init
  BY CleanupIsOne, CaptureIsOne DEF PartsInit
<1>2. [PartsNext]_allVars => /\ [Next]_vars
                             /\ [CleanupOf!Next]_(CleanupOf!vars)
                             /\ [CaptureOf!Next]_(CaptureOf!vars)
  BY PartsMove, CleanupIsOne, CaptureIsOne
<1> QED
  BY <1>1, <1>2, PTL DEF Parts, Spec, CleanupOf!Spec, CaptureOf!Spec

\* The types of the three components.
THEOREM PartsAreTyped == Parts => []PartsTypeOK
<1>1. CleanupOf!Spec => []CleanupOf!TypeOK
  BY PartsAssumption, CleanupOf!CleanupTypes DEF CleanupOf!Directories, CleanupOf!Intents
<1>2. CaptureOf!IInv => CaptureOf!TypeOK
  BY DEF CaptureOf!IInv
<1>3. CaptureOf!Spec => []CaptureOf!IInv
  BY CaptureAssumed, CaptureOf!ResponseInvariance
<1>4. IInv /\ CleanupOf!TypeOK /\ CaptureOf!TypeOK => PartsTypeOK
  BY CleanupIsOne, CaptureIsOne DEF IInv, PartsTypeOK
<1> QED
  BY <1>1, <1>2, <1>3, <1>4, PartsAreMachines, UploadInvariance, PTL

\* What start_http reported is what is stored: readable content is the whole body,
\* and a failed request leaves nothing but what the database refused to release.
THEOREM PartsStoreWhole == Parts => []StoredAsReported
<1>1. CaptureOf!Spec => []CaptureOf!StoredAsReported
  BY CaptureAssumed, CaptureOf!StoredWhole
<1>2. CaptureOf!StoredAsReported => StoredAsReported
  BY CaptureIsOne DEF StoredAsReported
<1> QED
  BY <1>1, <1>2, PartsAreMachines, PTL

\* Deleting a workspace takes nothing but what was recorded, from where it was,
\* once, although other programs write between every two of its steps.
THEOREM PartsKeepOthers == Parts => CleanupKeepsOthers
<1>1. CleanupOf!Spec => CleanupOf!CleanupKeepsOthers
  BY CleanupOf!OthersAreKept
<1>2. CleanupOf!RemovesOnlyRecorded => Cleanup!RemovesOnlyRecorded
  BY PTL DEF CleanupOf!RemovesOnlyRecorded, Cleanup!RemovesOnlyRecorded, CleanupOf!vars,
         Cleanup!vars, CleanupOf!disk, Cleanup!disk, CleanupOf!bounds, Cleanup!bounds
<1>3. CleanupOf!QuarantinedOnce => Cleanup!QuarantinedOnce
  BY PTL DEF CleanupOf!QuarantinedOnce, Cleanup!QuarantinedOnce, CleanupOf!vars,
         Cleanup!vars, CleanupOf!disk, Cleanup!disk, CleanupOf!bounds, Cleanup!bounds
<1>4. CleanupOf!PendingIsReserved => (part = "cleanup" => Cleanup!PendingIsReserved)
  BY CleanupIsOne
<1> QED
  BY <1>1, <1>2, <1>3, <1>4, PartsAreMachines, PTL
  DEF CleanupOf!CleanupKeepsOthers, CleanupKeepsOthers
=============================================================================
