----------------------------- MODULE CommitProofs -----------------------------
(***************************************************************************)
(* Theorems about the commit path, for every value of the constants.       *)
(*                                                                         *)
(* The first half is about journals, receipts, revisions and locked data.  *)
(* The second is about the files: what a journal says of them, what        *)
(* publication finds, that nothing is started over a journal, and that the *)
(* whole path implements the ledger.                                       *)
(***************************************************************************)
EXTENDS CommitCoordinator, TLAPS

StagedPhases == {"begin", "applyCheck", "applyWrite", "verify", "publish"}
PreparingPhases == {"preflight", "prepare", "backup", "recheck", "stage"}
RollbackPhases == {"rbRead", "rbCheck", "rbWrite", "rbEnd"}

(* The command in hand is one the phase can serve. *)
CallOK ==
  /\ call.kind \in {"commit", "secrets"} => call.op \in OpIds /\ call.request \in Requests
  /\ pc \in {"admit"} \cup PreparingPhases \cup StagedPhases =>
       call.kind = "commit" /\ ~inRecovery
  /\ pc = "secrets" => call.kind = "secrets"
  /\ pc \in PreparingPhases => ops[call.op] = Missing

(* From staging to publication the scope's journal is the command's own.   *)
StagedOK ==
  (pc \in StagedPhases \/ (pc \in RollbackPhases /\ ~inRecovery)) =>
    /\ call.kind = "commit"
    /\ pending[req.scope] # None
    /\ pending[req.scope].op = call.op
    /\ pending[req.scope].request = req

(* A rollback has a journal, and its index is one of the journal's files.  *)
RollbackOK ==
  /\ pc \in RollbackPhases =>
       /\ pending[target] # None
       /\ index <= Len(pending[target].request.files)
       /\ ~inRecovery => target = req.scope
  /\ pc \in {"rbCheck", "rbWrite"} => index >= 1

(* What recover() has still to roll back has a journal. *)
TodoOK ==
  /\ pc = "recover" => inRecovery
  /\ pc = "recover" => \A s \in todo : pending[s] # None
  /\ (pc \in RollbackPhases /\ inRecovery) =>
       /\ \A s \in todo : pending[s] # None
       /\ target \notin todo

IndexOK ==
  /\ pc \in {"preflight", "backup", "recheck", "applyCheck", "applyWrite", "verify"} => index >= 1
  /\ pc = "applyWrite" => index <= Len(req.files)

ControlOK == CallOK /\ StagedOK /\ RollbackOK /\ TodoOK /\ IndexOK

(* The keys a command was admitted with are there until it ends.           *)
KeysOK ==
  (pc \in PreparingPhases \cup StagedPhases /\ ~unlocked) => ~Sealed(req)

(* The inductive invariant. *)
IInv ==
  TypeOK /\ ControlOK /\ KeysOK /\ JournalOwnsOperation /\ AcknowledgedIsCommitted

-----------------------------------------------------------------------------
(* Requests, receipts and secrets *)

(* What a request consists of; the global scope has no files. *)
LEMMA RequestParts ==
  ASSUME NEW r \in Requests
  PROVE  /\ r.scope \in Scopes
         /\ Len(r.files) \in Nat
         /\ \A k \in 1..Len(r.files) :
              /\ r.files[k] \in Change
              /\ r.files[k].path \in Paths
              /\ r.files[k].content \in File
              /\ r.files[k].expected \in File
         /\ r.scope = Global => Len(r.files) = 0
         /\ r.kind \in {"commit", "secrets"}
         /\ r.record \in Datum \cup {Keep}
         /\ r.sealed \in BOOLEAN
         /\ r.mutations \subseteq Mutation
         /\ \A m \in r.mutations : m.value \in Datum
<1>1. r \in Request /\ (r.scope = Global => r.files = << >>)
  BY RequestsAssumption
<1>2. r.files \in Seq(Change)
  BY <1>1 DEF Request
<1>3. \A k \in 1..Len(r.files) : r.files[k] \in Change
  BY <1>2
<1>4. r.mutations \subseteq Mutation
  BY <1>1 DEF Request
<1> QED
  BY <1>1, <1>2, <1>3, <1>4 DEF Request, Change, Mutation

(* None is no journal and no reply, Missing no operation. *)
LEMMA NoneApart ==
  /\ None \notin Journal
  /\ None \notin OpIds
  /\ None \notin Requests
  /\ Missing \notin Operation
  /\ Global \notin Workspaces
BY ConstantsAssumption

(* A receipt is written at most once after it became terminal: recording   *)
(* changes one entry, and none that says committed or aborted.             *)
LEMMA RecordOperationType ==
  ASSUME ops \in [OpIds -> Operation \cup {Missing}],
         NEW o \in OpIds, NEW r \in Requests,
         NEW state \in {"prepared", "applying", "committed", "aborted",
                        "recovery-required"}
  PROVE  /\ RecordOperation(o, state, r) \in [OpIds -> Operation \cup {Missing}]
         /\ \A x \in OpIds : x # o => RecordOperation(o, state, r)[x] = ops[x]
         /\ (ops[o] = Missing \/ ops[o].state \notin Terminal) =>
              /\ RecordOperation(o, state, r)[o] # Missing
              /\ RecordOperation(o, state, r)[o].state = state
              /\ RecordOperation(o, state, r)[o].request = r
         /\ (ops[o] # Missing /\ ops[o].state \in Terminal) =>
              RecordOperation(o, state, r) = ops
<1>1. [state |-> state, request |-> r] \in Operation
  BY DEF Operation
<1>2. [state |-> state, request |-> r] # Missing
  BY <1>1, NoneApart
<1> QED
  BY <1>1, <1>2 DEF RecordOperation

(* A mutation consumes exactly one revision; other secrets stay.           *)
LEMMA ApplyMutationsType ==
  ASSUME secrets \in [Refs -> [value: Datum, revision: Nat]],
         NEW r \in Requests
  PROVE  /\ ApplyMutations(r) \in [Refs -> [value: Datum, revision: Nat]]
         /\ \A ref \in Refs :
              \/ ApplyMutations(r)[ref] = secrets[ref]
              \/ ApplyMutations(r)[ref].revision = secrets[ref].revision + 1
         /\ r.mutations = {} => ApplyMutations(r) = secrets
<1>1. ASSUME NEW ref \in Refs, \E m \in r.mutations : m.ref = ref
      PROVE  (CHOOSE m \in r.mutations : m.ref = ref).value \in Datum
  <2>1. (CHOOSE m \in r.mutations : m.ref = ref) \in r.mutations
    BY <1>1
  <2> QED
    BY <2>1, RequestParts
<1>2. ASSUME NEW ref \in Refs
      PROVE  /\ ApplyMutations(r)[ref] \in [value: Datum, revision: Nat]
             /\ \/ ApplyMutations(r)[ref] = secrets[ref]
                \/ ApplyMutations(r)[ref].revision = secrets[ref].revision + 1
             /\ r.mutations = {} => ApplyMutations(r)[ref] = secrets[ref]
  <2>1. CASE \E m \in r.mutations : m.ref = ref
    BY <1>1, <2>1 DEF ApplyMutations
  <2>2. CASE ~ \E m \in r.mutations : m.ref = ref
    BY <2>2 DEF ApplyMutations
  <2> QED
    BY <2>1, <2>2
<1>3. ApplyMutations(r) = [ref \in Refs |-> ApplyMutations(r)[ref]]
  BY DEF ApplyMutations
<1>4. secrets = [ref \in Refs |-> secrets[ref]]
  OBVIOUS
<1> QED
  BY <1>2, <1>3, <1>4

(* A record keeps the shape of its column, and is written for one scope.   *)
LEMMA WriteRecordsType ==
  ASSUME records \in [Scopes -> [value: Datum, sealed: BOOLEAN]],
         NEW r \in Requests
  PROVE  WriteRecords(r) \in [Scopes -> [value: Datum, sealed: BOOLEAN]]
BY RequestParts DEF WriteRecords

-----------------------------------------------------------------------------
(* The invariant in three parts: what is stored, what surrounds the        *)
(* process, and what the process holds for the command it serves.          *)

DurableTypes ==
  /\ disk \in [Workspaces -> [Paths -> File]]
  /\ records \in [Scopes -> [value: Datum, sealed: BOOLEAN]]
  /\ secrets \in [Refs -> [value: Datum, revision: Nat]]
  /\ ops \in [OpIds -> Operation \cup {Missing}]
  /\ pending \in [Scopes -> Journal \cup {None}]

MemoryTypes ==
  /\ pc \in Phases /\ index \in Nat
  /\ call \in [kind: {"none", "open", "load", "status", "commit", "secrets"},
               op: OpIds \cup {None}, request: Requests \cup {None}]
  /\ todo \subseteq Scopes /\ target \in Scopes /\ inRecovery \in BOOLEAN
  /\ backup \in [Paths -> File] /\ seen \in File

ObservedTypes ==
  /\ reply \in [OpIds -> [answer: {"ok", "error"}, request: Requests] \cup {None}]
  /\ edited \subseteq Workspaces \X Paths
  /\ late \subseteq Workspaces \X Paths
  /\ view \in {"none", "recovered", "degraded"}

Stored == DurableTypes /\ JournalOwnsOperation
Around ==
  /\ opened \in BOOLEAN /\ unlocked \in BOOLEAN
  /\ budget \in [calls: Nat, edits: Nat, crashes: Nat, faults: Nat]
Served ==
  MemoryTypes /\ ObservedTypes /\ ControlOK /\ KeysOK /\ AcknowledgedIsCommitted

LEMMA Parts ==
  /\ IInv <=> Stored /\ Around /\ Served
  /\ IInv' <=> Stored' /\ Around' /\ Served'
BY DEF IInv, TypeOK, Stored, Around, Served, DurableTypes, MemoryTypes,
   ObservedTypes

(* No step takes back a terminal receipt.                                  *)
ReceiptsKept ==
  \A o \in OpIds :
    (ops[o] # Missing /\ ops[o].state \in Terminal) => ops'[o] = ops[o]

-----------------------------------------------------------------------------
(* What is stored *)

(* What a journal refers to.                                               *)
LEMMA JournalParts ==
  ASSUME Stored, NEW s \in Scopes, pending[s] # None
  PROVE  /\ pending[s] \in Journal
         /\ pending[s].op \in OpIds
         /\ pending[s].request \in Requests
         /\ pending[s].previous \in [Paths -> File]
         /\ pending[s].request.scope = s
         /\ ops[pending[s].op] # Missing
         /\ ops[pending[s].op].state \notin Terminal
         /\ ops[pending[s].op].request = pending[s].request
<1>1. pending[s] \in Journal
  BY DEF Stored, DurableTypes
<1> QED
  BY <1>1 DEF Stored, JournalOwnsOperation, Journal

(* Neither journal nor receipt is touched.                                 *)
LEMMA NothingStored ==
  ASSUME Stored, UNCHANGED <<ops, pending>>
  PROVE  JournalOwnsOperation' /\ ReceiptsKept
BY DEF Stored, JournalOwnsOperation, ReceiptsKept

(* A terminal receipt for an identifier without one: tombstone or commit.  *)
LEMMA ReceiptStored ==
  ASSUME Stored, NEW o \in OpIds, NEW r \in Requests, ops[o] = Missing,
         NEW state \in Terminal,
         ops' = RecordOperation(o, state, r), UNCHANGED pending
  PROVE  /\ ops' \in [OpIds -> Operation \cup {Missing}]
         /\ JournalOwnsOperation'
         /\ ReceiptsKept
<1>1. /\ ops' \in [OpIds -> Operation \cup {Missing}]
      /\ \A x \in OpIds : x # o => ops'[x] = ops[x]
      /\ ops'[o].state = state
  BY RecordOperationType DEF Stored, DurableTypes, Terminal
<1>2. ASSUME NEW s \in Scopes, pending[s] # None
      PROVE  /\ pending[s].op \in OpIds
             /\ pending[s].op # o
  BY <1>2, JournalParts
<1> QED
  BY <1>1, <1>2 DEF Stored, JournalOwnsOperation, ReceiptsKept

(* The receipt of a journal's operation moves to another unresolved state. *)
LEMMA MarkStored ==
  ASSUME Stored, NEW s \in Scopes, pending[s] # None,
         NEW state \in {"applying", "recovery-required"},
         ops' = RecordOperation(pending[s].op, state, pending[s].request),
         UNCHANGED pending
  PROVE  /\ ops' \in [OpIds -> Operation \cup {Missing}]
         /\ JournalOwnsOperation'
         /\ ReceiptsKept
<1> DEFINE j == pending[s]
<1>1. /\ j.op \in OpIds /\ j.request \in Requests /\ j.request.scope = s
      /\ ops[j.op].state \notin Terminal
  BY JournalParts
<1>2. /\ ops' \in [OpIds -> Operation \cup {Missing}]
      /\ \A x \in OpIds : x # j.op => ops'[x] = ops[x]
      /\ ops'[j.op] # Missing
      /\ ops'[j.op].state = state
      /\ ops'[j.op].request = j.request
  BY <1>1, RecordOperationType DEF Stored, DurableTypes
<1>3. ASSUME NEW x \in Scopes, pending[x] # None, pending[x].op = j.op
      PROVE  x = s
  BY <1>3, <1>1, JournalParts
<1>4. state \notin Terminal
  BY DEF Terminal
<1>5. \A x \in Scopes : pending[x] # None => pending[x].op \in OpIds
  BY JournalParts
<1>6. JournalOwnsOperation'
  <2>1. \A x \in Scopes : pending[x] # None =>
          /\ ops'[pending[x].op] # Missing
          /\ ops'[pending[x].op].state \notin Terminal
          /\ ops'[pending[x].op].request = pending[x].request
    BY <1>2, <1>4, <1>5, JournalParts
  <2>2. ASSUME NEW o \in OpIds, ops'[o] # Missing, ops'[o].state \notin Terminal
        PROVE  /\ pending[ops'[o].request.scope] # None
               /\ pending[ops'[o].request.scope].op = o
    <3>1. CASE o = j.op
      BY <3>1, <1>1, <1>2
    <3>2. CASE o # j.op
      BY <3>2, <2>2, <1>2 DEF Stored, JournalOwnsOperation
    <3> QED BY <3>1, <3>2
  <2> QED
    BY <2>1, <2>2, JournalParts DEF Stored, JournalOwnsOperation
<1>7. ReceiptsKept
  BY <1>1, <1>2 DEF ReceiptsKept
<1> QED
  BY <1>2, <1>6, <1>7

(* Journal and unresolved state of its operation end in one transaction.   *)
LEMMA ResolveStored ==
  ASSUME Stored, NEW s \in Scopes, pending[s] # None, NEW state \in Terminal,
         ops' = RecordOperation(pending[s].op, state, pending[s].request),
         pending' = [pending EXCEPT ![s] = None]
  PROVE  /\ ops' \in [OpIds -> Operation \cup {Missing}]
         /\ pending' \in [Scopes -> Journal \cup {None}]
         /\ JournalOwnsOperation'
         /\ ReceiptsKept
         /\ ops'[pending[s].op] # Missing
         /\ ops'[pending[s].op].state = state
         /\ ops'[pending[s].op].request = pending[s].request
<1> DEFINE j == pending[s]
<1>1. /\ j.op \in OpIds /\ j.request \in Requests /\ j.request.scope = s
      /\ ops[j.op].state \notin Terminal
      /\ ops[j.op].request = j.request
  BY JournalParts
<1>2. /\ ops' \in [OpIds -> Operation \cup {Missing}]
      /\ \A x \in OpIds : x # j.op => ops'[x] = ops[x]
      /\ ops'[j.op] # Missing
      /\ ops'[j.op].state = state
      /\ ops'[j.op].request = j.request
  BY <1>1, RecordOperationType DEF Stored, DurableTypes, Terminal
<1>3. ASSUME NEW x \in Scopes, pending[x] # None, pending[x].op = j.op
      PROVE  x = s
  BY <1>3, <1>1, JournalParts
<1>4. /\ pending' \in [Scopes -> Journal \cup {None}]
      /\ pending'[s] = None
      /\ \A x \in Scopes : x # s => pending'[x] = pending[x]
  BY DEF Stored, DurableTypes
<1>5. \A x \in Scopes : pending[x] # None => pending[x].op \in OpIds
  BY JournalParts
<1>6. ASSUME NEW o \in OpIds, ops'[o] # Missing, ops'[o].state \notin Terminal
      PROVE  /\ pending'[ops'[o].request.scope] # None
             /\ pending'[ops'[o].request.scope].op = o
  <2>1. o # j.op
    BY <1>6, <1>2
  <2>2. /\ ops'[o] = ops[o]
        /\ pending[ops[o].request.scope] # None
        /\ pending[ops[o].request.scope].op = o
    BY <1>6, <1>2, <2>1 DEF Stored, JournalOwnsOperation
  <2>3. ops[o].request \in Requests
    BY <1>6, <2>2 DEF Stored, DurableTypes, Operation
  <2> QED
    BY <1>4, <2>1, <2>2, <2>3, RequestParts
<1>7. ASSUME NEW x \in Scopes, pending'[x] # None
      PROVE  /\ pending'[x].request.scope = x
             /\ ops'[pending'[x].op] # Missing
             /\ ops'[pending'[x].op].state \notin Terminal
             /\ ops'[pending'[x].op].request = pending'[x].request
  <2>1. x # s /\ pending'[x] = pending[x]
    BY <1>4, <1>7
  <2>2. pending[x].op # j.op
    BY <1>3, <1>7, <2>1
  <2> QED
    BY <1>2, <1>5, <1>7, <2>1, <2>2, JournalParts
<1> QED
  BY <1>1, <1>2, <1>4, <1>6, <1>7 DEF JournalOwnsOperation, ReceiptsKept

(* Journal and receipt of a new operation begin in one transaction.        *)
LEMMA StageStored ==
  ASSUME Stored, NEW o \in OpIds, NEW r \in Requests, NEW saved \in [Paths -> File],
         ops[o] = Missing, pending[r.scope] = None,
         ops' = RecordOperation(o, "prepared", r),
         pending' = [pending EXCEPT ![r.scope] =
                       [op |-> o, request |-> r, previous |-> saved]]
  PROVE  /\ ops' \in [OpIds -> Operation \cup {Missing}]
         /\ pending' \in [Scopes -> Journal \cup {None}]
         /\ JournalOwnsOperation'
         /\ ReceiptsKept
         /\ pending'[r.scope] # None
         /\ pending'[r.scope].op = o
         /\ pending'[r.scope].request = r
<1> DEFINE j == [op |-> o, request |-> r, previous |-> saved]
<1>1. j \in Journal /\ j # None /\ r.scope \in Scopes
  BY NoneApart, RequestParts DEF Journal
<1>2. /\ ops' \in [OpIds -> Operation \cup {Missing}]
      /\ \A x \in OpIds : x # o => ops'[x] = ops[x]
      /\ ops'[o] # Missing
      /\ ops'[o].state = "prepared"
      /\ ops'[o].request = r
  BY RecordOperationType DEF Stored, DurableTypes
<1>3. /\ pending' \in [Scopes -> Journal \cup {None}]
      /\ pending'[r.scope] = j
      /\ \A x \in Scopes : x # r.scope => pending'[x] = pending[x]
  BY <1>1 DEF Stored, DurableTypes
<1>4. ASSUME NEW x \in Scopes, pending[x] # None
      PROVE  pending[x].op \in OpIds /\ pending[x].op # o
  BY <1>4, JournalParts
<1>5. "prepared" \notin Terminal
  BY DEF Terminal
<1>6. ASSUME NEW x \in OpIds, ops'[x] # Missing, ops'[x].state \notin Terminal
      PROVE  /\ pending'[ops'[x].request.scope] # None
             /\ pending'[ops'[x].request.scope].op = x
  <2>1. CASE x = o
    BY <2>1, <1>1, <1>2, <1>3
  <2>2. CASE x # o
    <3>1. /\ ops'[x] = ops[x]
          /\ pending[ops[x].request.scope] # None
          /\ pending[ops[x].request.scope].op = x
      BY <1>6, <1>2, <2>2 DEF Stored, JournalOwnsOperation
    <3>2. ops[x].request \in Requests
      BY <1>6, <3>1 DEF Stored, DurableTypes, Operation
    <3> QED
      BY <1>3, <2>2, <3>1, <3>2, RequestParts
  <2> QED
    BY <2>1, <2>2
<1>7. ASSUME NEW x \in Scopes, pending'[x] # None
      PROVE  /\ pending'[x].request.scope = x
             /\ ops'[pending'[x].op] # Missing
             /\ ops'[pending'[x].op].state \notin Terminal
             /\ ops'[pending'[x].op].request = pending'[x].request
  <2>1. CASE x = r.scope
    BY <2>1, <1>2, <1>3, <1>5
  <2>2. CASE x # r.scope
    BY <2>2, <1>2, <1>3, <1>4, <1>7, JournalParts
  <2> QED
    BY <2>1, <2>2
<1> QED
  BY <1>1, <1>2, <1>3, <1>6, <1>7 DEF JournalOwnsOperation, ReceiptsKept

-----------------------------------------------------------------------------
(* What the process holds *)

(* Answers given before stay true while no terminal receipt is taken back. *)
LEMMA AnswersKept ==
  ASSUME AcknowledgedIsCommitted, ReceiptsKept, UNCHANGED reply
  PROVE  AcknowledgedIsCommitted'
BY DEF AcknowledgedIsCommitted, ReceiptsKept, Terminal

(* A process that released the mutex holds nothing.                        *)
LEMMA ReleaseServed ==
  ASSUME Release
  PROVE  MemoryTypes' /\ ControlOK' /\ KeysOK'
BY NoneApart DEF Release, Goto, MemoryTypes, Phases, ControlOK, CallOK, StagedOK,
   RollbackOK, TodoOK, IndexOK, KeysOK, PreparingPhases, StagedPhases,
   RollbackPhases,
   NoCall, NoBackup, File, Scopes

LEMMA ReleaseUnanswered ==
  ASSUME Served, Release, ReceiptsKept, UNCHANGED <<reply, edited, late>>,
         view' \in {"none", "recovered", "degraded"}
  PROVE  Served'
BY ReleaseServed, AnswersKept DEF Served, ObservedTypes

(* A success is answered only for a request that is committed.             *)
LEMMA AnswerServed ==
  ASSUME Served, ReceiptsKept,
         call.kind \in {"commit", "secrets"},
         NEW result \in {"ok", "error"}, Answer(result),
         result = "ok" => /\ ops'[call.op] # Missing
                          /\ ops'[call.op].state = "committed"
                          /\ ops'[call.op].request = req
  PROVE  Served'
<1>1. call.op \in OpIds /\ req \in Requests
  BY DEF Served, ControlOK, CallOK, req
<1>2. MemoryTypes' /\ ControlOK' /\ KeysOK'
  BY ReleaseServed DEF Answer
<1>3. /\ reply \in [OpIds -> [answer: {"ok", "error"}, request: Requests] \cup {None}]
      /\ reply' = [reply EXCEPT ![call.op] = [answer |-> result, request |-> req]]
  BY DEF Served, ObservedTypes, Answer
<1>4. ObservedTypes'
  BY <1>1, <1>3 DEF Served, ObservedTypes, Answer
<1>5. ASSUME NEW o \in OpIds, reply'[o] # None, reply'[o].answer = "ok"
      PROVE  ops'[o] # Missing /\ ops'[o].state = "committed"
               /\ ops'[o].request = reply'[o].request
  <2>1. CASE o = call.op
    BY <1>1, <1>3, <1>5, <2>1
  <2>2. CASE o # call.op
    BY <1>3, <1>5, <2>2 DEF Served, AcknowledgedIsCommitted, ReceiptsKept, Terminal
  <2> QED
    BY <2>1, <2>2
<1> QED
  BY <1>2, <1>4, <1>5 DEF Served, AcknowledgedIsCommitted

(* However recovery fails, the command ends or goes on without it.         *)
LEMMA RecoveryFailedServed ==
  ASSUME Served, ReceiptsKept, RecoveryFailed
  PROVE  Served'
<1>0. view \in {"none", "recovered", "degraded"}
  BY DEF Served, ObservedTypes
<1>1. CASE call.kind = "open" /\ Release /\ UNCHANGED observed
  BY <1>0, <1>1, ReleaseUnanswered DEF observed
<1>4. CASE Release /\ view' = "degraded" /\ UNCHANGED <<reply, edited, late>>
  BY <1>4, ReleaseUnanswered
<1>2. CASE /\ call.kind = "status"
           /\ Goto("serve", 0)
           /\ todo' = {}
           /\ target' = Global
           /\ inRecovery' = FALSE
           /\ seen' = Absent
           /\ UNCHANGED <<call, backup, observed>>
  <2>1. MemoryTypes'
    BY <1>2 DEF Served, MemoryTypes, Goto, Phases, Scopes, File
  <2>2. ControlOK' /\ KeysOK'
    BY <1>2 DEF ControlOK, KeysOK, CallOK, StagedOK, RollbackOK, TodoOK, IndexOK,
       Goto,
                PreparingPhases, StagedPhases, RollbackPhases
  <2> QED
    BY <1>2, <2>1, <2>2, AnswersKept DEF Served, ObservedTypes, observed
<1>3. CASE call.kind \in {"commit", "secrets"} /\ Answer("error")
  BY <1>3, AnswerServed
<1> QED
  BY <1>1, <1>2, <1>3, <1>4 DEF RecoveryFailed, AfterFailure

(* Admitted commands take up the rollback of what is recorded as theirs.   *)
LEMMA StartRollbackServed ==
  ASSUME Served, Stored, pc \in StagedPhases, StartRollback, UNCHANGED unlocked
  PROVE  Served' /\ Stored'
<1>1. Stored' /\ ReceiptsKept
  BY NothingStored DEF Stored, DurableTypes, StartRollback, durable
<1>2. /\ call.kind = "commit" /\ ~inRecovery
      /\ call.op \in OpIds /\ req \in Requests
      /\ pending[req.scope] # None
      /\ pending[req.scope].op = call.op
      /\ pending[req.scope].request = req
  BY DEF Served, ControlOK, CallOK, StagedOK, req
<1>3. req.scope \in Scopes /\ Len(req.files) \in Nat
  BY <1>2, RequestParts
<1>4. MemoryTypes'
  BY <1>2, <1>3 DEF Served, MemoryTypes, StartRollback, Goto, Phases, File
<1>5. ControlOK' /\ KeysOK'
  BY <1>2, <1>3 DEF Served, ControlOK, KeysOK, CallOK, StagedOK, RollbackOK,
     TodoOK, IndexOK,
     StartRollback, Goto, durable, PreparingPhases, StagedPhases, RollbackPhases, req
<1> QED
  BY <1>1, <1>4, <1>5, AnswersKept DEF Served, ObservedTypes, StartRollback,
     observed

(* Giving up before anything was staged leaves a tombstone.                *)
LEMMA AbortPreparedServed ==
  ASSUME Served, Stored, call.kind \in {"commit", "secrets"}, ops[call.op] = Missing,
         AbortPrepared
  PROVE  Served' /\ Stored'
<1>1. call.op \in OpIds /\ req \in Requests
  BY DEF Served, ControlOK, CallOK, req
<1>2. /\ ops' \in [OpIds -> Operation \cup {Missing}]
      /\ JournalOwnsOperation'
      /\ ReceiptsKept
  BY <1>1, ReceiptStored DEF AbortPrepared, Terminal
<1> QED
  BY <1>2, AnswerServed DEF AbortPrepared, Stored, DurableTypes

(* A refused command leaves nothing.                                       *)
LEMMA RefuseServed ==
  ASSUME Served, Stored, call.kind \in {"commit", "secrets"}, Refuse
  PROVE  Served' /\ Stored'
BY NothingStored, AnswerServed DEF Refuse, Stored, DurableTypes, durable

(* A rollback that cannot go on keeps its journal.                         *)
LEMMA RollbackConflictServed ==
  ASSUME Served, Stored, pc \in RollbackPhases, RollbackConflict
  PROVE  Served' /\ Stored'
<1>1. target \in Scopes /\ pending[target] # None
  BY DEF Served, MemoryTypes, ControlOK, RollbackOK
<1>2. /\ ops' \in [OpIds -> Operation \cup {Missing}]
      /\ JournalOwnsOperation'
      /\ ReceiptsKept
  BY <1>1, MarkStored DEF RollbackConflict, journal
<1> QED
  BY <1>2, RecoveryFailedServed DEF RollbackConflict, Stored, DurableTypes

(* A step that changes nothing but the place and memory of the command.    *)
LEMMA QuietStep ==
  ASSUME Stored, Served, UNCHANGED <<durable, reply>>,
         edited' \subseteq Workspaces \X Paths, late' \subseteq Workspaces \X Paths,
         view' \in {"none", "recovered", "degraded"},
         MemoryTypes', ControlOK', KeysOK'
  PROVE  Stored' /\ Served'
<1>1. Stored' /\ ReceiptsKept
  BY NothingStored DEF Stored, DurableTypes, durable
<1> QED
  BY <1>1, AnswersKept DEF Served, ObservedTypes

-----------------------------------------------------------------------------
(* The steps, one lemma each *)

LEMMA ServeStep ==
  ASSUME Stored, Served, NEW kind \in {"open", "load", "status", "commit", "secrets"},
         NEW o \in OpIds \cup {None}, NEW r \in Requests \cup {None},
         kind \in {"commit", "secrets"} => o \in OpIds /\ r \in Requests,
         Serve(kind, o, r)
  PROVE  Stored' /\ Served'
<1>1. MemoryTypes'
  BY DEF Serve, Served, MemoryTypes, Goto, Phases, Visible
<1>2. ControlOK' /\ KeysOK'
  BY DEF Serve, Goto, Visible, durable, ControlOK, CallOK, StagedOK, RollbackOK,
     TodoOK,
     IndexOK, KeysOK, PreparingPhases, StagedPhases, RollbackPhases
<1> QED
  BY <1>1, <1>2, QuietStep DEF Serve, observed, Served, ObservedTypes

LEMMA RecoverNextStep ==
  ASSUME Stored, Served, NEW s \in Scopes, RecoverNext(s)
  PROVE  Stored' /\ Served'
<1>1. /\ s \in todo /\ inRecovery
      /\ pending[s] # None
      /\ pending[s].request \in Requests
  BY JournalParts DEF RecoverNext, Served, ControlOK, TodoOK
<1>2. Len(pending[s].request.files) \in Nat
  BY <1>1, RequestParts
<1>3. MemoryTypes'
  BY <1>1, <1>2 DEF RecoverNext, Served, MemoryTypes, Goto, Phases
<1>4. ControlOK' /\ KeysOK'
  BY <1>1, <1>2 DEF RecoverNext, Goto, durable, Served, ControlOK, CallOK, StagedOK,
     RollbackOK, TodoOK, IndexOK, KeysOK, PreparingPhases, StagedPhases,
     RollbackPhases
<1> QED
  BY <1>3, <1>4, QuietStep DEF RecoverNext, observed, Served, ObservedTypes

LEMMA RecoverGlobalStep ==
  ASSUME Stored, Served, RecoverGlobal
  PROVE  Stored' /\ Served'
BY NothingStored, RecoveryFailedServed DEF RecoverGlobal, durable, Stored,
   DurableTypes

LEMMA RecoverDoneStep ==
  ASSUME Stored, Served, RecoverDone
  PROVE  Stored' /\ Served'
<1>1. CASE call.kind = "open"
  BY <1>1, NothingStored, ReleaseUnanswered DEF RecoverDone, durable, Stored,
     DurableTypes, Served, ObservedTypes, observed
<1>2. CASE call.kind # "open"
  <2>0. /\ UNCHANGED <<call, todo, target, backup, seen>>
        /\ inRecovery' = FALSE /\ index' = 0
        /\ pc' \in {"serve", "admit", "secrets"}
    BY <1>2 DEF RecoverDone, Goto
  <2>1. MemoryTypes'
    BY <2>0 DEF Served, MemoryTypes, Phases
  <2>2. ControlOK' /\ KeysOK'
    BY <1>2 DEF RecoverDone, Goto, durable, Served, ControlOK, CallOK, StagedOK,
       RollbackOK, TodoOK, IndexOK, KeysOK, PreparingPhases, StagedPhases,
       RollbackPhases
  <2> QED
    BY <2>1, <2>2, QuietStep DEF RecoverDone, observed, Served, ObservedTypes
<1> QED
  BY <1>1, <1>2

LEMMA ReturnStep ==
  ASSUME Stored, Served, Return
  PROVE  Stored' /\ Served'
BY NothingStored, ReleaseUnanswered DEF Return, durable, Stored, DurableTypes,
   Served, ObservedTypes

(* What a rollback works on.                                               *)
LEMMA Restoring ==
  ASSUME Stored, Served, pc \in RollbackPhases
  PROVE  /\ target \in Scopes
         /\ pending[target] # None
         /\ journal.request \in Requests
         /\ index \in 0..Len(journal.request.files)
         /\ index > 0 => /\ target \in Workspaces
                         /\ restoring.path \in Paths
                         /\ found \in File
                         /\ before \in File
<1>1. /\ target \in Scopes /\ pending[target] # None /\ index \in Nat
      /\ index <= Len(journal.request.files)
  BY DEF Served, MemoryTypes, ControlOK, RollbackOK, journal
<1>2. /\ journal.request \in Requests
      /\ journal.previous \in [Paths -> File]
      /\ journal.request.scope = target
  BY <1>1, JournalParts DEF journal
<1>3. Len(journal.request.files) \in Nat
  BY <1>2, RequestParts
<1>4. ASSUME index > 0
      PROVE  target \in Workspaces /\ restoring.path \in Paths
  <2>1. index \in 1..Len(journal.request.files)
    BY <1>1, <1>3, <1>4
  <2> QED
    BY <1>1, <1>2, <2>1, RequestParts DEF restoring, Scopes
<1> QED
  BY <1>1, <1>2, <1>3, <1>4 DEF found, before, Stored, DurableTypes

LEMMA RollbackReadStep ==
  ASSUME Stored, Served, RollbackRead
  PROVE  Stored' /\ Served'
<1> USE DEF RollbackPhases
<1>1. pc = "rbRead"
  BY DEF RollbackRead
<1>2. CASE RollbackConflict
  BY <1>1, <1>2, RollbackConflictServed
<1>3. CASE ~RollbackConflict
  <2>1. MemoryTypes'
    BY <1>1, <1>3, Restoring DEF RollbackRead, Served, MemoryTypes, Goto, Phases,
       memory
  <2>2. ControlOK' /\ KeysOK'
    BY <1>1, <1>3, Restoring DEF RollbackRead, Goto, durable, memory, journal,
       Served,
       MemoryTypes, ControlOK, CallOK, StagedOK, RollbackOK, TodoOK, IndexOK, KeysOK,
       PreparingPhases, StagedPhases, req
  <2> QED
    BY <1>3, <2>1, <2>2, QuietStep DEF RollbackRead, observed, Served, ObservedTypes
<1> QED
  BY <1>2, <1>3

LEMMA RollbackCheckStep ==
  ASSUME Stored, Served, RollbackCheck
  PROVE  Stored' /\ Served'
<1> USE DEF RollbackPhases
<1>1. pc = "rbCheck" /\ index > 0
  BY DEF RollbackCheck, Served, MemoryTypes, ControlOK, RollbackOK
<1>2. CASE RollbackConflict
  BY <1>1, <1>2, RollbackConflictServed
<1>3. CASE ~RollbackConflict
  <2>1. MemoryTypes'
    BY <1>1, <1>3, Restoring DEF RollbackCheck, Served, MemoryTypes, Goto, Phases
  <2>2. ControlOK' /\ KeysOK'
    BY <1>1, <1>3, Restoring DEF RollbackCheck, Goto, durable, journal, Served,
       ControlOK, CallOK, StagedOK, RollbackOK, TodoOK, IndexOK, KeysOK,
       PreparingPhases, StagedPhases, req
  <2> QED
    BY <1>3, <2>1, <2>2, QuietStep DEF RollbackCheck, observed, Served,
       ObservedTypes
<1> QED
  BY <1>2, <1>3

LEMMA RollbackWriteStep ==
  ASSUME Stored, Served, RollbackWrite
  PROVE  Stored' /\ Served'
<1> USE DEF RollbackPhases
<1>1. pc = "rbWrite" /\ index > 0
  BY DEF RollbackWrite, Served, MemoryTypes, ControlOK, RollbackOK
<1>2. disk' \in [Workspaces -> [Paths -> File]]
  BY <1>1, Restoring DEF RollbackWrite, Stored, DurableTypes
<1>3. Stored' /\ ReceiptsKept
  BY <1>2, NothingStored DEF RollbackWrite, Stored, DurableTypes
<1>4. MemoryTypes'
  BY <1>1, Restoring DEF RollbackWrite, Served, MemoryTypes, Goto, Phases, File
<1>5. ControlOK' /\ KeysOK'
  BY <1>1, Restoring DEF RollbackWrite, Goto, journal, Served, MemoryTypes,
     ControlOK, CallOK, StagedOK, RollbackOK, TodoOK, IndexOK, KeysOK,
     PreparingPhases, StagedPhases, req
<1> QED
  BY <1>3, <1>4, <1>5, AnswersKept DEF RollbackWrite, observed, Served,
     ObservedTypes

LEMMA FinishRollbackStep ==
  ASSUME Stored, Served, FinishRollback
  PROVE  Stored' /\ Served'
<1> USE DEF RollbackPhases
<1>1. target \in Scopes /\ pending[target] # None
  BY Restoring DEF FinishRollback
<1>2. /\ ops' \in [OpIds -> Operation \cup {Missing}]
      /\ pending' \in [Scopes -> Journal \cup {None}]
      /\ JournalOwnsOperation'
      /\ ReceiptsKept
  BY <1>1, ResolveStored DEF FinishRollback, journal, Terminal
<1>3. Stored'
  BY <1>2 DEF FinishRollback, Stored, DurableTypes
<1>4. CASE ~inRecovery /\ Answer("error")
  <2>1. call.kind = "commit"
    BY <1>4 DEF FinishRollback, Served, ControlOK, StagedOK
  <2> QED
    BY <1>2, <1>3, <1>4, <2>1, AnswerServed
<1>5. CASE inRecovery
  <2>1. MemoryTypes'
    BY <1>5 DEF FinishRollback, Served, MemoryTypes, Goto, Phases, Scopes
  <2>2. \A s \in Scopes : s # target => pending'[s] = pending[s]
    BY DEF FinishRollback, Stored, DurableTypes
  <2>3. ControlOK' /\ KeysOK'
    BY <1>5, <2>2 DEF FinishRollback, Goto, Served, MemoryTypes, ControlOK,
       CallOK, StagedOK,
       RollbackOK, TodoOK, IndexOK, KeysOK, PreparingPhases, StagedPhases
  <2> QED
    BY <1>2, <1>3, <1>5, <2>1, <2>3, AnswersKept DEF FinishRollback, observed,
       Served, ObservedTypes
<1> QED
  BY <1>4, <1>5 DEF FinishRollback

(* What a commit works on.                                                 *)
LEMMA Committing ==
  ASSUME Stored, Served, pc \in {"admit"} \cup PreparingPhases \cup StagedPhases
  PROVE  /\ call.kind = "commit"
         /\ ~inRecovery
         /\ call.op \in OpIds
         /\ req \in Requests
         /\ req.scope \in Scopes
         /\ Len(req.files) \in Nat
         /\ index \in 1..Len(req.files) => /\ req.scope \in Workspaces
                                           /\ change.path \in Paths
                                           /\ change.content \in File
                                           /\ change.expected \in File
                                           /\ onDisk \in File
         /\ pc \in StagedPhases => /\ pending[req.scope] # None
                                  /\ pending[req.scope].op = call.op
                                  /\ pending[req.scope].request = req
<1>1. /\ call.kind = "commit" /\ ~inRecovery
      /\ call.op \in OpIds /\ req \in Requests
      /\ pc \in StagedPhases => /\ pending[req.scope] # None
                               /\ pending[req.scope].op = call.op
                               /\ pending[req.scope].request = req
  BY DEF Served, ControlOK, CallOK, StagedOK, req
<1>2. ASSUME index \in 1..Len(req.files)
      PROVE  req.scope \in Workspaces /\ change.path \in Paths
               /\ change.content \in File /\ change.expected \in File
  BY <1>1, <1>2, RequestParts DEF change, Scopes
<1> QED
  BY <1>1, <1>2, RequestParts DEF onDisk, Stored, DurableTypes

LEMMA AdmitStep ==
  ASSUME Stored, Served, Admit
  PROVE  Stored' /\ Served'
<1>1. /\ pc = "admit" /\ call.kind = "commit" /\ call.op \in OpIds
      /\ req \in Requests /\ ~inRecovery
  BY Committing DEF Admit
<1>2. CASE Refuse
  BY <1>1, <1>2, RefuseServed
<1>3. CASE ops[call.op] # Missing /\ UNCHANGED durable /\ Answer(Replay(call.op))
  <2>1. Stored' /\ ReceiptsKept
    BY <1>3, NothingStored DEF Stored, DurableTypes, durable
  <2> QED
    BY <1>1, <1>3, <2>1, AnswerServed DEF Replay, durable
<1>4. CASE ops[call.op] = Missing /\ AbortPrepared
  BY <1>1, <1>4, AbortPreparedServed
<1>5. CASE /\ unlocked \/ ~Sealed(req)
           /\ ops[call.op] = Missing
           /\ Goto("preflight", 1)
           /\ UNCHANGED <<durable, process, memory, observed>>
  <2>1. MemoryTypes'
    BY <1>5 DEF Served, MemoryTypes, Goto, Phases, memory
  <2>2. Sealed(req)' = Sealed(req)
    BY <1>5 DEF Sealed, req, memory
  <2>3. ControlOK' /\ KeysOK'
    BY <1>1, <1>5, <2>2 DEF Goto, durable, process, memory, Served, ControlOK,
       CallOK, StagedOK, RollbackOK, TodoOK, IndexOK, KeysOK,
     PreparingPhases, StagedPhases, RollbackPhases, req
  <2> QED
    BY <1>5, <2>1, <2>3, QuietStep DEF observed, Served, ObservedTypes
<1> QED
  BY <1>2, <1>3, <1>4, <1>5 DEF Admit

LEMMA PreflightStep ==
  ASSUME Stored, Served,
         \/ Preflight("preflight", "prepare")
         \/ Preflight("recheck", "stage")
  PROVE  Stored' /\ Served'
<1>1. /\ pc \in {"preflight", "recheck"}
      /\ call.kind = "commit" /\ ops[call.op] = Missing
  BY DEF Preflight, Served, ControlOK, CallOK, PreparingPhases
<1>2. CASE AbortPrepared
  BY <1>1, <1>2, AbortPreparedServed
<1>3. CASE /\ \E k \in Nat \ {0} :
                Goto("preflight", k) \/ Goto("prepare", k) \/ Goto("recheck", k)
                  \/ Goto("stage", k)
           /\ UNCHANGED <<durable, process, memory, observed>>
  <2>1. MemoryTypes'
    BY <1>3 DEF Served, MemoryTypes, Goto, Phases, memory
  <2>2. Sealed(req)' = Sealed(req)
    BY <1>3 DEF Sealed, req, memory
  <2>3. ControlOK' /\ KeysOK'
    BY <1>1, <1>3, <2>2 DEF Goto, durable, process, memory, Served, ControlOK,
       CallOK, StagedOK, RollbackOK, TodoOK, IndexOK, KeysOK,
     PreparingPhases, StagedPhases, RollbackPhases, req
  <2> QED
    BY <1>3, <2>1, <2>3, QuietStep DEF observed, Served, ObservedTypes
<1>4. index \in Nat
  BY DEF Served, MemoryTypes
<1> QED
  BY <1>2, <1>3, <1>4 DEF Preflight

LEMMA PrepareStep ==
  ASSUME Stored, Served, Prepare
  PROVE  Stored' /\ Served'
<1>1. pc = "prepare" /\ call.kind = "commit" /\ ops[call.op] = Missing
  BY DEF Prepare, Served, ControlOK, CallOK, PreparingPhases
<1>2. CASE AbortPrepared
  BY <1>1, <1>2, AbortPreparedServed
<1>3. CASE Goto("backup", 1) /\ UNCHANGED <<durable, process, memory, observed>>
  <2>1. MemoryTypes'
    BY <1>3 DEF Served, MemoryTypes, Goto, Phases, memory
  <2>2. Sealed(req)' = Sealed(req)
    BY <1>3 DEF Sealed, req, memory
  <2>3. ControlOK' /\ KeysOK'
    BY <1>1, <1>3, <2>2 DEF Goto, durable, process, memory, Served, ControlOK,
       CallOK, StagedOK, RollbackOK, TodoOK, IndexOK, KeysOK,
     PreparingPhases, StagedPhases, RollbackPhases, req
  <2> QED
    BY <1>3, <2>1, <2>3, QuietStep DEF observed, Served, ObservedTypes
<1> QED
  BY <1>2, <1>3 DEF Prepare

LEMMA BackupStep ==
  ASSUME Stored, Served, Backup
  PROVE  Stored' /\ Served'
<1>1. pc = "backup" /\ call.kind = "commit" /\ ops[call.op] = Missing /\ index \in Nat \ {0}
  BY DEF Backup, Served, MemoryTypes, ControlOK, CallOK, IndexOK, PreparingPhases
<1>2. pastLast \/ index \in 1..Len(req.files)
  BY <1>1, Committing DEF pastLast, PreparingPhases
<1>3. MemoryTypes'
  BY <1>1, <1>2, Committing DEF Backup, Served, MemoryTypes, Goto, Phases,
     PreparingPhases
<1>4. Sealed(req)' = Sealed(req)
  BY DEF Backup, Sealed, req
<1>5. ControlOK' /\ KeysOK'
  BY <1>1, <1>4 DEF Backup, Goto, durable, process, Served, ControlOK, CallOK,
     StagedOK, RollbackOK, TodoOK, IndexOK, KeysOK,
     PreparingPhases, StagedPhases, RollbackPhases, req
<1>6. edited' \subseteq Workspaces \X Paths /\ late' = late
  BY DEF Backup, Served, ObservedTypes
<1> QED
  BY <1>3, <1>5, <1>6, QuietStep DEF Backup, Served, ObservedTypes

LEMMA StageStep ==
  ASSUME Stored, Served, Stage
  PROVE  Stored' /\ Served'
<1>1. pc = "stage" /\ call.kind = "commit" /\ call.op \in OpIds /\ req \in Requests
        /\ backup \in [Paths -> File]
  BY Committing DEF Stage, PreparingPhases, Served, MemoryTypes
<1>2. CASE Refuse
  BY <1>1, <1>2, RefuseServed
<1>3. CASE StageIsFree /\ ~Refuse
  <2>1. /\ ops' \in [OpIds -> Operation \cup {Missing}]
        /\ pending' \in [Scopes -> Journal \cup {None}]
        /\ JournalOwnsOperation'
        /\ ReceiptsKept
        /\ pending'[req.scope] # None
        /\ pending'[req.scope].op = call.op
        /\ pending'[req.scope].request = req
    BY <1>1, <1>3, StageStored DEF Stage, StageIsFree
  <2>2. Stored'
    BY <1>3, <2>1 DEF Stage, Stored, DurableTypes
  <2>3. /\ Goto("begin", 0)
        /\ UNCHANGED <<process, memory, observed>>
    BY <1>3 DEF Stage
  <2>4. MemoryTypes'
    BY <2>3 DEF Served, MemoryTypes, Goto, Phases, memory
  <2>5. Sealed(req)' = Sealed(req) /\ req' = req
    BY <2>3 DEF Sealed, req, memory
  <2>6. ControlOK' /\ KeysOK'
    BY <1>1, <2>1, <2>3, <2>5 DEF Goto, process, memory, Served, ControlOK,
       CallOK, StagedOK, RollbackOK, TodoOK, IndexOK, KeysOK,
     PreparingPhases, StagedPhases, RollbackPhases
  <2> QED
    BY <2>1, <2>2, <2>3, <2>4, <2>6, AnswersKept DEF observed, Served, ObservedTypes
<1> QED
  BY <1>2, <1>3 DEF Stage

LEMMA MarkApplyingStep ==
  ASSUME Stored, Served, MarkApplying
  PROVE  Stored' /\ Served'
<1>1. /\ pc = "begin" /\ call.kind = "commit" /\ ~inRecovery
      /\ req.scope \in Scopes /\ pending[req.scope] # None
      /\ pending[req.scope].op = call.op /\ pending[req.scope].request = req
  BY Committing DEF MarkApplying, StagedPhases
<1>2. /\ ops' \in [OpIds -> Operation \cup {Missing}]
      /\ JournalOwnsOperation'
      /\ ReceiptsKept
  BY <1>1, MarkStored DEF MarkApplying
<1>3. Stored'
  BY <1>2 DEF MarkApplying, Stored, DurableTypes
<1>4. MemoryTypes'
  BY DEF MarkApplying, Served, MemoryTypes, Goto, Phases, memory
<1>5. Sealed(req)' = Sealed(req) /\ req' = req
  BY DEF MarkApplying, Sealed, req, memory
<1>6. ControlOK' /\ KeysOK'
  BY <1>1, <1>5 DEF MarkApplying, Goto, process, memory, Served, ControlOK,
     CallOK, StagedOK, RollbackOK, TodoOK, IndexOK, KeysOK,
     PreparingPhases, StagedPhases, RollbackPhases
<1> QED
  BY <1>2, <1>3, <1>4, <1>6, AnswersKept DEF MarkApplying, Served, ObservedTypes

LEMMA ApplyCheckStep ==
  ASSUME Stored, Served, ApplyCheck, unlocked' = unlocked
  PROVE  Stored' /\ Served'
<1>1. pc = "applyCheck" /\ index \in Nat \ {0}
  BY DEF ApplyCheck, Served, MemoryTypes, ControlOK, IndexOK
<1>2. CASE StartRollback
  BY <1>1, <1>2, StartRollbackServed DEF StagedPhases
<1>3. CASE ~StartRollback
  <2>1. /\ UNCHANGED <<durable, process, call, todo, target, inRecovery, backup, observed>>
        /\ \/ Goto("verify", 1) /\ seen' = seen
           \/ /\ Goto("applyWrite", index) /\ seen' = onDisk
              /\ index <= Len(req.files)
    BY <1>1, <1>3, Committing DEF ApplyCheck, pastLast, memory, StagedPhases
  <2>2. MemoryTypes'
    BY <1>1, <2>1, Committing DEF Served, MemoryTypes, Goto, Phases, StagedPhases
  <2>3. Sealed(req)' = Sealed(req)
    BY <2>1 DEF Sealed, req
  <2>4. ControlOK' /\ KeysOK'
    BY <1>1, <2>1, <2>3, Committing DEF Goto, durable, process, Served,
       ControlOK, CallOK, StagedOK, RollbackOK, TodoOK, IndexOK, KeysOK,
     PreparingPhases, StagedPhases, RollbackPhases, req
  <2> QED
    BY <2>1, <2>2, <2>4, QuietStep DEF durable, observed, Served, ObservedTypes
<1> QED
  BY <1>2, <1>3

LEMMA ApplyWriteStep ==
  ASSUME Stored, Served, ApplyWrite
  PROVE  Stored' /\ Served'
<1>1. /\ pc = "applyWrite" /\ index \in Nat
      /\ index \in 1..Len(req.files)
  BY Committing DEF ApplyWrite, Served, MemoryTypes, ControlOK, IndexOK,
     StagedPhases
<1>2. disk' \in [Workspaces -> [Paths -> File]]
  BY <1>1, Committing DEF ApplyWrite, Stored, DurableTypes, StagedPhases
<1>3. Stored' /\ ReceiptsKept
  BY <1>2, NothingStored DEF ApplyWrite, Stored, DurableTypes
<1>4. MemoryTypes'
  BY <1>1 DEF ApplyWrite, Served, MemoryTypes, Goto, Phases, File
<1>5. Sealed(req)' = Sealed(req)
  BY DEF ApplyWrite, Sealed, req
<1>6. ControlOK' /\ KeysOK'
  BY <1>1, <1>5, Committing DEF ApplyWrite, Goto, process, Served, ControlOK,
     CallOK, StagedOK, RollbackOK, TodoOK, IndexOK, KeysOK,
     PreparingPhases, StagedPhases, RollbackPhases, req
<1> QED
  BY <1>3, <1>4, <1>6, AnswersKept DEF ApplyWrite, observed, Served, ObservedTypes

LEMMA VerifyStep ==
  ASSUME Stored, Served, Verify, unlocked' = unlocked
  PROVE  Stored' /\ Served'
<1>1. pc = "verify" /\ index \in Nat \ {0}
  BY DEF Verify, Served, MemoryTypes, ControlOK, IndexOK
<1>2. CASE StartRollback
  BY <1>1, <1>2, StartRollbackServed DEF StagedPhases
<1>3. CASE ~StartRollback
  <2>1. /\ UNCHANGED <<durable, process, memory, reply, edited, view>>
        /\ late' \subseteq late
        /\ Goto("publish", 0) \/ Goto("verify", index + 1)
    BY <1>3 DEF Verify, observed
  <2>2. MemoryTypes'
    BY <1>1, <2>1 DEF Served, MemoryTypes, Goto, Phases, memory
  <2>3. Sealed(req)' = Sealed(req)
    BY <2>1 DEF Sealed, req, memory
  <2>4. ControlOK' /\ KeysOK'
    BY <1>1, <2>1, <2>3, Committing DEF Goto, durable, process, memory, Served,
       ControlOK, CallOK, StagedOK, RollbackOK, TodoOK, IndexOK, KeysOK,
     PreparingPhases, StagedPhases, RollbackPhases, req
  <2> QED
    BY <2>1, <2>2, <2>4, QuietStep DEF Served, ObservedTypes
<1> QED
  BY <1>2, <1>3

LEMMA PublishStep ==
  ASSUME Stored, Served, NEW fault \in BOOLEAN, Publish(fault)
  PROVE  Stored' /\ Served'
<1>1. /\ pc = "publish" /\ call.kind = "commit"
      /\ call.op \in OpIds /\ req \in Requests
      /\ req.scope \in Scopes /\ pending[req.scope] # None
      /\ pending[req.scope].op = call.op /\ pending[req.scope].request = req
  BY Committing DEF Publish, StagedPhases
<1>2. CASE StartRollback
  BY <1>1, <1>2, StartRollbackServed DEF Publish, process, StagedPhases
<1>3. CASE /\ records' = WriteRecords(req)
           /\ secrets' = ApplyMutations(req)
           /\ ops' = RecordOperation(call.op, "committed", req)
           /\ pending' = [pending EXCEPT ![req.scope] = None]
           /\ Answer(IF fault THEN "error" ELSE "ok")
           /\ UNCHANGED disk
  <2>1. /\ ops' \in [OpIds -> Operation \cup {Missing}]
        /\ pending' \in [Scopes -> Journal \cup {None}]
        /\ JournalOwnsOperation'
        /\ ReceiptsKept
        /\ ops'[call.op] # Missing
        /\ ops'[call.op].state = "committed"
        /\ ops'[call.op].request = req
    BY <1>1, <1>3, ResolveStored DEF Terminal
  <2>2. Stored'
    BY <1>1, <1>3, <2>1, WriteRecordsType, ApplyMutationsType DEF Stored,
       DurableTypes
  <2> QED
    BY <1>1, <1>3, <2>1, <2>2, AnswerServed
<1> QED
  BY <1>2, <1>3 DEF Publish

LEMMA CommitSecretsStep ==
  ASSUME Stored, Served, CommitSecrets
  PROVE  Stored' /\ Served'
<1>1. pc = "secrets" /\ call.kind = "secrets" /\ call.op \in OpIds /\ req \in Requests
  BY DEF CommitSecrets, Served, ControlOK, CallOK, req
<1>2. CASE Refuse
  BY <1>1, <1>2, RefuseServed
<1>3. CASE ops[call.op] # Missing /\ UNCHANGED durable /\ Answer(Replay(call.op))
  <2>1. Stored' /\ ReceiptsKept
    BY <1>3, NothingStored DEF Stored, DurableTypes, durable
  <2> QED
    BY <1>1, <1>3, <2>1, AnswerServed DEF Replay, durable
<1>4. CASE ops[call.op] = Missing /\ AbortPrepared
  BY <1>1, <1>4, AbortPreparedServed
<1>5. CASE /\ ops[call.op] = Missing
           /\ secrets' = ApplyMutations(req)
           /\ ops' = RecordOperation(call.op, "committed", req)
           /\ Answer("ok")
           /\ UNCHANGED <<disk, records, pending>>
  <2>1. /\ ops' \in [OpIds -> Operation \cup {Missing}]
        /\ JournalOwnsOperation'
        /\ ReceiptsKept
    BY <1>1, <1>5, ReceiptStored DEF Terminal
  <2>2. /\ ops'[call.op] # Missing
        /\ ops'[call.op].state = "committed"
        /\ ops'[call.op].request = req
    BY <1>1, <1>5, RecordOperationType DEF Stored, DurableTypes
  <2>3. Stored'
    BY <1>1, <1>5, <2>1, ApplyMutationsType DEF Stored, DurableTypes
  <2> QED
    BY <1>1, <1>5, <2>1, <2>2, <2>3, AnswerServed
<1> QED
  BY <1>2, <1>3, <1>4, <1>5 DEF CommitSecrets

LEMMA FaultStep ==
  ASSUME Stored, Served, Fault
  PROVE  Stored' /\ Served'
<1>1. CASE pc \in {"recover", "rbEnd"} /\ RecoveryFailed /\ UNCHANGED durable
  BY <1>1, NothingStored, RecoveryFailedServed DEF durable, Stored, DurableTypes
<1>2. CASE pc \in {"rbRead", "rbCheck", "rbWrite"} /\ RollbackConflict
  BY <1>2, RollbackConflictServed DEF RollbackPhases
<1>3. CASE pc \in {"preflight", "prepare", "backup", "recheck"} /\ AbortPrepared
  <2>1. call.kind = "commit" /\ ops[call.op] = Missing
    BY <1>3 DEF Served, ControlOK, CallOK, PreparingPhases
  <2> QED
    BY <1>3, <2>1, AbortPreparedServed
<1>4. CASE pc \in {"stage", "secrets"} /\ Refuse
  <2>1. call.kind \in {"commit", "secrets"}
    BY <1>4 DEF Served, ControlOK, CallOK, PreparingPhases
  <2> QED
    BY <1>4, <2>1, RefuseServed
<1>5. CASE pc \in StagedPhases /\ StartRollback
  BY <1>5, StartRollbackServed DEF Fault, process
<1> QED
  BY <1>1, <1>2, <1>3, <1>4, <1>5 DEF Fault, StagedPhases

LEMMA CrashStep ==
  ASSUME Stored, Served, Crash
  PROVE  Stored' /\ Served'
BY NothingStored, ReleaseUnanswered DEF Crash, durable, Stored, DurableTypes

LEMMA DegradedLoadStep ==
  ASSUME Stored, Served, DegradedLoad
  PROVE  Stored' /\ Served'
<1>1. pc = "idle" /\ UNCHANGED <<durable, process, control, memory, reply, edited, late>>
  BY DEF DegradedLoad
<1>2. MemoryTypes' /\ ObservedTypes'
  BY <1>1 DEF Served, MemoryTypes, ObservedTypes, control, memory, DegradedLoad
<1>3. ControlOK' /\ KeysOK'
  BY <1>1 DEF control, memory, durable, Served, ControlOK, CallOK, StagedOK,
     RollbackOK, TodoOK, IndexOK, KeysOK,
     PreparingPhases, StagedPhases, RollbackPhases, req
<1>4. Stored' /\ ReceiptsKept
  BY <1>1, NothingStored DEF durable, Stored, DurableTypes
<1> QED
  BY <1>1, <1>2, <1>3, <1>4, AnswersKept DEF Served

LEMMA RetryProtectedStorageStep ==
  ASSUME Stored, Served, RetryProtectedStorage
  PROVE  Stored' /\ Served'
<1>1. pc = "idle" /\ UNCHANGED <<durable, control, memory, observed>>
  BY DEF RetryProtectedStorage
<1>2. MemoryTypes'
  BY <1>1 DEF Served, MemoryTypes, control, memory
<1>3. ControlOK' /\ KeysOK'
  BY <1>1 DEF control, memory, durable, Served, ControlOK, CallOK, StagedOK,
     RollbackOK, TodoOK, IndexOK, KeysOK,
     PreparingPhases, StagedPhases, RollbackPhases, req
<1> QED
  BY <1>1, <1>2, <1>3, QuietStep DEF observed, Served, ObservedTypes

LEMMA ExternalEditStep ==
  ASSUME Stored, Served, NEW w \in Workspaces, NEW p \in Paths, NEW c \in File,
         ExternalEdit(w, p, c)
  PROVE  Stored' /\ Served'
<1>1. disk' \in [Workspaces -> [Paths -> File]]
  BY DEF ExternalEdit, Stored, DurableTypes
<1>2. Stored' /\ ReceiptsKept
  BY <1>1, NothingStored DEF ExternalEdit, Stored, DurableTypes
<1>3. MemoryTypes'
  BY DEF ExternalEdit, Served, MemoryTypes, control, memory
<1>4. Sealed(req)' = Sealed(req)
  BY DEF ExternalEdit, Sealed, req, memory
<1>5. ControlOK' /\ KeysOK'
  BY <1>4 DEF ExternalEdit, process, control, memory, Served, ControlOK, CallOK,
     StagedOK, RollbackOK, TodoOK, IndexOK, KeysOK,
     PreparingPhases, StagedPhases, RollbackPhases, req
<1>6. edited' \subseteq Workspaces \X Paths /\ late' \subseteq Workspaces \X Paths
  BY DEF ExternalEdit, Served, ObservedTypes
<1> QED
  BY <1>2, <1>3, <1>5, <1>6, AnswersKept DEF ExternalEdit, Served, ObservedTypes

LEMMA AroundStep ==
  ASSUME Around, Next
  PROVE  Around'
<1> USE DEF Around
<1>1. CASE Open \/ DegradedLoad \/ BeginLoad \/ BeginStatus
  BY <1>1 DEF Open, DegradedLoad, BeginLoad, BeginStatus, process
<1>2. ASSUME NEW o \in OpIds, NEW r \in Requests, BeginCommit(o, r)
      PROVE  Around'
  BY <1>2 DEF BeginCommit, process
<1>3. CASE Step
  <2>1. ASSUME NEW s \in Scopes, RecoverNext(s) PROVE Around'
    BY <2>1 DEF RecoverNext, process
  <2>2. CASE Publish(FALSE)
    BY <2>2 DEF Publish, process
  <2> QED
    BY <1>3, <2>1, <2>2 DEF Step, process, RecoverGlobal, RecoverDone, Return,
       RollbackRead,
       RollbackCheck, RollbackWrite, FinishRollback, Admit, Preflight, Prepare, Backup,
       Stage, MarkApplying, ApplyCheck, ApplyWrite, Verify, CommitSecrets
<1>4. CASE Publish(TRUE) \/ Fault
  BY <1>4 DEF Publish, Fault, process
<1>5. CASE Crash \/ RetryProtectedStorage
  <2>1. opened' \in BOOLEAN /\ unlocked' \in BOOLEAN
    BY <1>5, Zenon DEF Crash, RetryProtectedStorage
  <2>2. budget' \in [calls: Nat, edits: Nat, crashes: Nat, faults: Nat]
    <3>1. CASE Crash
      BY <3>1 DEF Crash
    <3>2. CASE RetryProtectedStorage
      BY <3>2 DEF RetryProtectedStorage
    <3> QED
      BY <1>5, <3>1, <3>2
  <2> QED
    BY <2>1, <2>2
<1>6. ASSUME NEW w \in Workspaces, NEW p \in Paths, NEW c \in File, ExternalEdit(w, p, c)
      PROVE  Around'
  BY <1>6 DEF ExternalEdit, process
<1> QED
  BY <1>1, <1>2, <1>3, <1>4, <1>5, <1>6 DEF Next

-----------------------------------------------------------------------------
(* The invariant *)

LEMMA InitInvariant == Init => IInv
<1> SUFFICES ASSUME Init PROVE IInv
  OBVIOUS
<1>1. Stored
  BY ConstantsAssumption, NoneApart DEF Init, Stored, DurableTypes,
     JournalOwnsOperation, Datum, Scopes
<1>2. Around
  BY DEF Init, Around
<1>3. Served
  BY NoneApart DEF Init, NoCall, NoBackup, File, Scopes, Served, MemoryTypes,
     ObservedTypes, Phases,
     AcknowledgedIsCommitted, ControlOK, CallOK, StagedOK, RollbackOK, TodoOK, IndexOK, KeysOK,
     PreparingPhases, StagedPhases, RollbackPhases
<1> QED
  BY <1>1, <1>2, <1>3, Parts

LEMMA StoredServedStep ==
  ASSUME Stored, Served, Next
  PROVE  Stored' /\ Served'
<1>0. CASE DegradedLoad
  BY <1>0, DegradedLoadStep
<1>1. CASE Open \/ BeginLoad \/ BeginStatus
  BY <1>1, ServeStep DEF Open, BeginLoad, BeginStatus, Next
<1>2. ASSUME NEW o \in OpIds, NEW r \in Requests, BeginCommit(o, r)
      PROVE  Stored' /\ Served'
  BY <1>2, ServeStep, RequestParts DEF BeginCommit
<1>3. CASE Step
  <2>1. ASSUME NEW s \in Scopes, RecoverNext(s)
        PROVE  Stored' /\ Served'
    BY <2>1, RecoverNextStep
  <2>2. CASE RecoverGlobal \/ RecoverDone \/ Return
    BY <2>2, RecoverGlobalStep, RecoverDoneStep, ReturnStep
  <2>3. CASE RollbackRead \/ RollbackCheck \/ RollbackWrite \/ FinishRollback
    BY <2>3, RollbackReadStep, RollbackCheckStep, RollbackWriteStep,
       FinishRollbackStep
  <2>4. CASE Admit \/ Prepare \/ Backup \/ Stage \/ MarkApplying
    BY <2>4, AdmitStep, PrepareStep, BackupStep, StageStep, MarkApplyingStep
  <2>5. CASE Preflight("preflight", "prepare") \/ Preflight("recheck", "stage")
    BY <2>5, PreflightStep
  <2>6. CASE ApplyCheck \/ ApplyWrite \/ Verify
    BY <2>6, ApplyCheckStep, ApplyWriteStep, VerifyStep DEF ApplyCheck, Verify,
       process
  <2>7. CASE Publish(FALSE) \/ CommitSecrets
    BY <2>7, PublishStep, CommitSecretsStep
  <2> QED
    BY <1>3, <2>1, <2>2, <2>3, <2>4, <2>5, <2>6, <2>7 DEF Step
<1>4. CASE Publish(TRUE) \/ Fault
  BY <1>4, PublishStep, FaultStep
<1>5. CASE Crash \/ RetryProtectedStorage
  BY <1>5, CrashStep, RetryProtectedStorageStep
<1>6. ASSUME NEW w \in Workspaces, NEW p \in Paths, NEW c \in File, ExternalEdit(w, p, c)
      PROVE  Stored' /\ Served'
  BY <1>6, ExternalEditStep
<1> QED
  BY <1>0, <1>1, <1>2, <1>3, <1>4, <1>5, <1>6 DEF Next

LEMMA StutterStep ==
  ASSUME IInv, UNCHANGED vars
  PROVE  IInv'
<1>1. TypeOK' /\ JournalOwnsOperation' /\ AcknowledgedIsCommitted'
  BY DEF vars, durable, process, control, memory, observed, IInv, TypeOK,
     JournalOwnsOperation, AcknowledgedIsCommitted
<1>2. Sealed(req)' = Sealed(req)
  BY DEF vars, memory, Sealed, req
<1>3. ControlOK' /\ KeysOK'
  BY <1>2 DEF vars, durable, process, control, memory, IInv, ControlOK, CallOK,
     StagedOK, RollbackOK, TodoOK, IndexOK, KeysOK,
     PreparingPhases, StagedPhases, RollbackPhases, req
<1> QED
  BY <1>1, <1>3 DEF IInv

LEMMA NextInvariant == IInv /\ [Next]_vars => IInv'
<1>1. ASSUME IInv, Next
      PROVE  IInv'
  BY <1>1, Parts, StoredServedStep, AroundStep
<1>2. ASSUME IInv, UNCHANGED vars
      PROVE  IInv'
  BY <1>2, StutterStep
<1> QED
  BY <1>1, <1>2

(* The invariant every theorem below rests on holds in all executions.     *)
THEOREM Invariance == Spec => []IInv
BY InitInvariant, NextInvariant, PTL DEF Spec

(* Every variable keeps its type, whatever the sets of workspaces, paths,  *)
(* requests and identifiers are and however often anything happens.        *)
THEOREM TypeCorrect == Spec => []TypeOK
<1>1. IInv => TypeOK
  BY DEF IInv
<1> QED
  BY <1>1, Invariance, PTL

(* No crash, failure or outside edit separates a journal from the          *)
(* operation it belongs to: an operation is unresolved exactly while its   *)
(* own journal can roll it back.                                           *)
THEOREM JournalOwnership == Spec => []JournalOwnsOperation
<1>1. IInv => JournalOwnsOperation
  BY DEF IInv
<1> QED
  BY <1>1, Invariance, PTL

(* A success that a client was told is durable: no later crash, retry or   *)
(* rollback takes back the receipt of the request it sent.                 *)
THEOREM AcknowledgedDurable == Spec => []AcknowledgedIsCommitted
<1>1. IInv => AcknowledgedIsCommitted
  BY DEF IInv
<1> QED
  BY <1>1, Invariance, PTL

-----------------------------------------------------------------------------
(* Action properties *)

(* Only publish_local and commit_secrets write records and secrets.        *)
LEMMA OnlyPublicationWrites ==
  ASSUME Next, ~(\E fault \in BOOLEAN : Publish(fault)), ~CommitSecrets
  PROVE  UNCHANGED <<records, secrets>>
<1> USE DEF durable, Serve, RecoveryFailed, AfterFailure, Answer, Release, AbortPrepared,
            Refuse, StartRollback, RollbackConflict
<1>1. CASE Open \/ DegradedLoad \/ BeginLoad \/ BeginStatus
  BY <1>1 DEF Open, DegradedLoad, BeginLoad, BeginStatus
<1>2. ASSUME NEW o \in OpIds, NEW r \in Requests, BeginCommit(o, r)
      PROVE  UNCHANGED <<records, secrets>>
  BY <1>2 DEF BeginCommit
<1>3. CASE Step
  <2>1. ASSUME NEW s \in Scopes, RecoverNext(s)
        PROVE  UNCHANGED <<records, secrets>>
    BY <2>1 DEF RecoverNext
  <2>2. CASE RecoverGlobal \/ RecoverDone \/ Return
    BY <2>2 DEF RecoverGlobal, RecoverDone, Return
  <2>3. CASE RollbackRead \/ RollbackCheck \/ RollbackWrite \/ FinishRollback
    BY <2>3 DEF RollbackRead, RollbackCheck, RollbackWrite, FinishRollback
  <2>4. CASE Admit \/ Prepare \/ Backup \/ Stage \/ MarkApplying
    BY <2>4 DEF Admit, Prepare, Backup, Stage, MarkApplying
  <2>5. CASE Preflight("preflight", "prepare") \/ Preflight("recheck", "stage")
    BY <2>5 DEF Preflight
  <2>6. CASE ApplyCheck \/ ApplyWrite \/ Verify
    BY <2>6 DEF ApplyCheck, ApplyWrite, Verify
  <2> QED
    BY <1>3, <2>1, <2>2, <2>3, <2>4, <2>5, <2>6 DEF Step
<1>4. CASE Fault
  BY <1>4 DEF Fault
<1>5. CASE Crash \/ RetryProtectedStorage
  BY <1>5 DEF Crash, RetryProtectedStorage
<1>6. ASSUME NEW w \in Workspaces, NEW p \in Paths, NEW c \in File, ExternalEdit(w, p, c)
      PROVE  UNCHANGED <<records, secrets>>
  BY <1>6 DEF ExternalEdit
<1> QED
  BY <1>1, <1>2, <1>3, <1>4, <1>5, <1>6 DEF Next

(* What a publication writes, and under which conditions.                  *)
LEMMA Publication ==
  ASSUME IInv, Next
  PROVE  \/ UNCHANGED <<records, secrets>>
         \/ /\ req \in Requests
            /\ unlocked \/ ~Sealed(req)
            /\ Publishable(req)
            /\ secrets' = ApplyMutations(req)
            /\ records' = WriteRecords(req) \/ records' = records
<1>1. ASSUME NEW fault \in BOOLEAN, Publish(fault), Publishable(req)
      PROVE  /\ req \in Requests
             /\ unlocked \/ ~Sealed(req)
             /\ secrets' = ApplyMutations(req)
             /\ records' = WriteRecords(req)
  BY <1>1, Parts, Committing DEF Publish, Served, KeysOK, StagedPhases
<1>2. ASSUME NEW fault \in BOOLEAN, Publish(fault), ~Publishable(req)
      PROVE  UNCHANGED <<records, secrets>>
  BY <1>2 DEF Publish, StartRollback, durable
<1>3. CASE CommitSecrets
  <2>1. req \in Requests
    BY <1>3 DEF CommitSecrets, IInv, ControlOK, CallOK, req
  <2> QED
    BY <1>3, <2>1 DEF CommitSecrets, Refuse, AbortPrepared, durable
<1> QED
  BY <1>1, <1>2, <1>3, OnlyPublicationWrites

(* Revisions of secrets only grow, and grow whenever a value changes, the  *)
(* deletion of a value included.                                           *)
THEOREM RevisionsOnlyAdvance == Spec => RevisionsAdvance
<1> DEFINE A == \A ref \in Refs :
                 /\ secrets'[ref].revision >= secrets[ref].revision
                 /\ secrets'[ref].value # secrets[ref].value =>
                      secrets'[ref].revision > secrets[ref].revision
<1>1. IInv /\ [Next]_vars => [A]_vars
  <2> SUFFICES ASSUME IInv, Next, NEW ref \in Refs
               PROVE  /\ secrets'[ref].revision >= secrets[ref].revision
                      /\ secrets'[ref].value # secrets[ref].value =>
                           secrets'[ref].revision > secrets[ref].revision
    OBVIOUS
  <2>1. secrets \in [Refs -> [value: Datum, revision: Nat]]
    BY DEF IInv, TypeOK
  <2>2. secrets'[ref] = secrets[ref] \/ secrets'[ref].revision = secrets[ref].revision + 1
    BY <2>1, Publication, ApplyMutationsType
  <2>3. secrets[ref].revision \in Nat
    BY <2>1
  <2> QED
    BY <2>2, <2>3
<1> QED
  BY <1>1, Invariance, PTL DEF Spec, RevisionsAdvance

(* While protected storage is locked, public saves neither change a secret *)
(* nor replace or remove a record they could not decrypt.                  *)
THEOREM LockedDataIsKept == Spec => LockedDataKept
<1> DEFINE A == ~unlocked =>
                 /\ secrets' = secrets
                 /\ \A s \in Scopes : records[s].sealed => records'[s] = records[s]
<1>1. IInv /\ [Next]_vars => [A]_vars
  <2> SUFFICES ASSUME IInv, Next, ~unlocked
               PROVE  /\ secrets' = secrets
                      /\ \A s \in Scopes : records[s].sealed => records'[s] = records[s]
    OBVIOUS
  <2>1. CASE UNCHANGED <<records, secrets>>
    BY <2>1
  <2>2. CASE /\ req \in Requests /\ ~Sealed(req) /\ Publishable(req)
             /\ secrets' = ApplyMutations(req)
             /\ records' = WriteRecords(req) \/ records' = records
    <3>1. secrets' = secrets
      BY <2>2, ApplyMutationsType DEF Sealed, IInv, TypeOK
    <3>2. ASSUME NEW s \in Scopes, records[s].sealed
          PROVE  records'[s] = records[s]
      BY <2>2, <3>2 DEF Publishable, WriteRecords, IInv, TypeOK
    <3> QED
      BY <3>1, <3>2
  <2> QED
    BY <2>1, <2>2, Publication
<1> QED
  BY <1>1, Invariance, PTL DEF Spec, LockedDataKept

-----------------------------------------------------------------------------
(* The files.  The inductive invariant follows those of the request in     *)
(* hand through backup, comparison, writing, verification and rollback; a  *)
(* file another program has saved meanwhile is left out at every stage.    *)

(* Another program has saved the file since it was backed up. *)
Foreign(s, p) == <<s, p>> \in edited

(* JournalCoversFiles, with the files counted. *)
CoveredBy(w, j) ==
  \A k \in 1..Len(j.request.files) :
    LET c == j.request.files[k] IN
      ~Foreign(w, c.path) =>
        /\ j.previous[c.path] = c.expected
        /\ disk[w][c.path] \in {c.expected, c.content}
CoveredOK == \A w \in Workspaces : pending[w] # None => CoveredBy(w, pending[w])

(* A request in hand is valid and names each file once, and so does that of *)
(* a journal.                                                              *)
RequestsOK ==
  /\ pc \in PreparingPhases \cup StagedPhases => Valid(req)
  /\ pc \in PreparingPhases => ~DuplicatePaths(req)
  /\ \A s \in Scopes : pending[s] # None => ~DuplicatePaths(pending[s].request)

(* Files that are backed up are as the backup has them, and files that are *)
(* compared again are as the client expects them.                          *)
BackedUp(k) == pc \in {"recheck", "stage"} \/ (pc = "backup" /\ k < index)
Compared(k) == pc = "stage" \/ (pc = "recheck" /\ k < index)
BackupOK ==
  (pc \in PreparingPhases /\ pending[req.scope] = None) =>
    \A k \in 1..Len(req.files) :
      LET c == req.files[k] IN
        ~Foreign(req.scope, c.path) =>
          /\ BackedUp(k) => backup[c.path] = disk[req.scope][c.path]
          /\ Compared(k) => disk[req.scope][c.path] = c.expected

(* Files that are written, and files that are verified, are as the client  *)
(* wants them.                                                             *)
Applied(k) ==
  pc \in {"verify", "publish"} \/ (pc \in {"applyCheck", "applyWrite"} /\ k < index)
Verified(k) == pc = "publish" \/ (pc = "verify" /\ k < index)
AppliedOK ==
  pc \in StagedPhases =>
    \A k \in 1..Len(req.files) :
      LET c == req.files[k] IN
        /\ Applied(k) /\ ~Foreign(req.scope, c.path) =>
             disk[req.scope][c.path] = c.content
        /\ Verified(k) /\ <<req.scope, c.path>> \notin late =>
             disk[req.scope][c.path] = c.content

(* A rollback has restored the files behind its index. *)
RestoredOK ==
  pc \in RollbackPhases =>
    /\ pc = "rbEnd" => index = 0
    /\ \A k \in 1..Len(journal.request.files) :
         LET p == journal.request.files[k].path IN
           k > index /\ ~Foreign(target, p) =>
             disk[target][p] = journal.previous[p]

(* What is about to be replaced was seen to be one of the two contents its *)
(* operation accounts for.                                                 *)
SeenOK ==
  /\ pc = "applyWrite" => seen \in {change.expected, change.content}
  /\ pc \in {"rbCheck", "rbWrite"} => seen \in {restoring.content, before}

(* Journals that can be read are rolled back before anything is done.      *)
RecoveredOK ==
  /\ pc = "recover" => Visible \subseteq todo
  /\ (pc \in RollbackPhases /\ inRecovery) => Visible \subseteq todo \cup {target}
  /\ pc \in {"admit", "secrets"} \cup PreparingPhases => Visible = {}
  /\ (pc = "serve" /\ call.kind = "load") => Visible = {}

(* The inductive invariant, on top of the one of CommitProofs. *)
FInv ==
  /\ CoveredOK /\ RequestsOK /\ BackupOK /\ AppliedOK /\ RestoredOK
  /\ SeenOK /\ RecoveredOK


FilePhases == PreparingPhases \cup StagedPhases \cup RollbackPhases

-----------------------------------------------------------------------------
(* Requests and their files *)

\* The files of a request are numbered from one.
LEMMA FilesDomain ==
  ASSUME NEW r \in Requests
  PROVE  DOMAIN r.files = 1..Len(r.files)
BY RequestsAssumption DEF Request

(* The files of a journal are files of its workspace.                      *)
LEMMA JournalFiles ==
  ASSUME Stored, NEW s \in Scopes, pending[s] # None
  PROVE  /\ Len(pending[s].request.files) \in Nat
         /\ \A k \in 1..Len(pending[s].request.files) :
              LET c == pending[s].request.files[k] IN
                /\ s \in Workspaces
                /\ c.path \in Paths
                /\ c.content \in File
                /\ c.expected \in File
                /\ pending[s].previous[c.path] \in File
<1>1. /\ pending[s].request \in Requests
      /\ pending[s].request.scope = s
      /\ pending[s].previous \in [Paths -> File]
  BY JournalParts
<1>2. Len(pending[s].request.files) \in Nat
  BY <1>1, RequestParts
<1>3. ASSUME NEW k \in 1..Len(pending[s].request.files)
      PROVE  /\ pending[s].request.files[k].path \in Paths
             /\ pending[s].request.files[k].content \in File
             /\ pending[s].request.files[k].expected \in File
  BY <1>1, <1>3, RequestParts
<1>4. Len(pending[s].request.files) > 0 => s \in Workspaces
  BY <1>1, RequestParts DEF Scopes
<1> QED
  BY <1>1, <1>2, <1>3, <1>4

(* The files of the request in hand are files of its workspace.            *)
LEMMA RequestFiles ==
  ASSUME Stored, Served, pc \in {"admit"} \cup PreparingPhases \cup StagedPhases
  PROVE  /\ req.scope \in Scopes
         /\ Len(req.files) \in Nat
         /\ \A k \in 1..Len(req.files) :
              LET c == req.files[k] IN
                /\ req.scope \in Workspaces
                /\ c.path \in Paths
                /\ c.content \in File
                /\ c.expected \in File
                /\ disk[req.scope][c.path] \in File
<1>1. req \in Requests
  BY Committing
<1>2. req.scope \in Scopes /\ Len(req.files) \in Nat
  BY <1>1, RequestParts
<1>3. Len(req.files) > 0 => req.scope \in Workspaces
  BY <1>1, RequestParts DEF Scopes
<1>4. ASSUME NEW k \in 1..Len(req.files)
      PROVE  /\ req.files[k].path \in Paths
             /\ req.files[k].content \in File
             /\ req.files[k].expected \in File
  BY <1>1, <1>4, RequestParts
<1> QED
  BY <1>2, <1>3, <1>4 DEF Stored, DurableTypes

(* What recovery sees does not depend on anything but journals and keys.   *)
LEMMA VisibleKept ==
  ASSUME UNCHANGED <<pending, unlocked>>
  PROVE  Visible' = Visible
BY DEF Visible, Sealed

-----------------------------------------------------------------------------
(* Four frames: what remains to be shown of a step, by where it leads.     *)

(* Out of the phases that work on files: nothing, while no journal is new. *)
LEMMA OutsidePhases ==
  ASSUME FInv, UNCHANGED <<disk, edited>>,
         \A s \in Scopes : pending'[s] = None \/ pending'[s] = pending[s],
         pc' \notin FilePhases, RecoveredOK'
  PROVE  FInv'
<1>1. CoveredOK'
  <2> SUFFICES ASSUME NEW w \in Workspaces, pending'[w] # None
               PROVE  CoveredBy(w, pending[w])'
    BY DEF CoveredOK
  <2>1. pending'[w] = pending[w]
    BY DEF Scopes
  <2>2. CoveredBy(w, pending[w])
    BY <2>1 DEF FInv, CoveredOK
  <2> QED
    BY <2>1, <2>2 DEF CoveredBy, Foreign
<1>2. RequestsOK'
  BY DEF FInv, RequestsOK, FilePhases, DuplicatePaths
<1>3. BackupOK' /\ AppliedOK' /\ RestoredOK' /\ SeenOK'
  BY DEF BackupOK, AppliedOK, RestoredOK, SeenOK, FilePhases, PreparingPhases,
     StagedPhases, RollbackPhases
<1> QED
  BY <1>1, <1>2, <1>3 DEF FInv

\* Giving up a call leaves the files and the journals that stay as they are.
LEMMA ReleasedFiles ==
  ASSUME FInv, UNCHANGED <<disk, edited>>,
         \A s \in Scopes : pending'[s] = None \/ pending'[s] = pending[s],
         Release
  PROVE  FInv'
BY OutsidePhases DEF Release, Goto, RecoveredOK, FilePhases, PreparingPhases,
   StagedPhases, RollbackPhases

(* Towards the journal: the comparisons made so far.                       *)
LEMMA PreparingFiles ==
  ASSUME FInv, UNCHANGED <<pending, call, unlocked>>,
         pc \in {"admit"} \cup PreparingPhases, pc' \in PreparingPhases,
         Valid(req), ~DuplicatePaths(req),
         CoveredOK', BackupOK'
  PROVE  FInv'
<1>1. RequestsOK'
  BY DEF FInv, RequestsOK, PreparingPhases, StagedPhases, Valid, DuplicatePaths, req
<1>2. AppliedOK' /\ RestoredOK' /\ SeenOK'
  BY DEF AppliedOK, RestoredOK, SeenOK, PreparingPhases, StagedPhases, RollbackPhases
<1>3. RecoveredOK'
  BY VisibleKept DEF FInv, RecoveredOK, PreparingPhases, RollbackPhases
<1> QED
  BY <1>1, <1>2, <1>3 DEF FInv

(* Past the journal: the files that are written and verified.              *)
LEMMA StagedFiles ==
  ASSUME FInv, UNCHANGED <<pending, call>>,
         pc \in StagedPhases, pc' \in StagedPhases,
         CoveredOK', AppliedOK', SeenOK'
  PROVE  FInv'
<1>1. RequestsOK'
  BY DEF FInv, RequestsOK, PreparingPhases, StagedPhases, Valid, DuplicatePaths, req
<1>2. BackupOK' /\ RestoredOK' /\ RecoveredOK'
  BY DEF BackupOK, RestoredOK, RecoveredOK, PreparingPhases, StagedPhases,
     RollbackPhases
<1> QED
  BY <1>1, <1>2 DEF FInv

(* Back: the files that are restored.                                      *)
LEMMA RollbackFiles ==
  ASSUME FInv, UNCHANGED <<pending, target, todo, inRecovery, unlocked>>,
         pc \in RollbackPhases, pc' \in RollbackPhases,
         CoveredOK', RestoredOK', SeenOK'
  PROVE  FInv'
<1>1. RequestsOK'
  BY DEF FInv, RequestsOK, PreparingPhases, StagedPhases, RollbackPhases,
     DuplicatePaths
<1>2. BackupOK' /\ AppliedOK'
  BY DEF BackupOK, AppliedOK, PreparingPhases, StagedPhases, RollbackPhases
<1>3. RecoveredOK'
  BY VisibleKept DEF FInv, RecoveredOK, PreparingPhases, RollbackPhases
<1> QED
  BY <1>1, <1>2, <1>3 DEF FInv

(* A rollback that begins has nothing restored yet.                        *)
LEMMA RollbackBegins ==
  ASSUME Stored, FInv, UNCHANGED <<disk, edited, pending>>,
         target' \in Scopes, pending[target'] # None,
         Goto("rbRead", Len(pending[target'].request.files)),
         RecoveredOK'
  PROVE  FInv'
<1>1. CoveredOK'
  BY DEF FInv, CoveredOK, CoveredBy, Foreign
<1>2. RequestsOK'
  BY DEF FInv, RequestsOK, Goto, PreparingPhases, StagedPhases, DuplicatePaths
<1>3. BackupOK' /\ AppliedOK' /\ SeenOK'
  BY DEF Goto, BackupOK, AppliedOK, SeenOK, PreparingPhases, StagedPhases
<1>4. Len(pending[target'].request.files) \in Nat
  BY JournalFiles
<1>5. RestoredOK'
  BY <1>4 DEF Goto, RestoredOK, journal
<1> QED
  BY <1>1, <1>2, <1>3, <1>5 DEF FInv

\* A rollback begins with the last file; nothing is restored yet.
LEMMA StartRollbackFiles ==
  ASSUME Stored, Served, FInv, pc \in StagedPhases, StartRollback
  PROVE  FInv'
<1>1. /\ ~inRecovery /\ req.scope \in Scopes
      /\ pending[req.scope] # None /\ pending[req.scope].request = req
  BY Committing
<1> QED
  BY <1>1, RollbackBegins DEF StartRollback, Goto, durable, observed, RecoveredOK,
     PreparingPhases, RollbackPhases

\* A recovery that gives up a journal leaves it and its files.
LEMMA RecoveryFailedFiles ==
  ASSUME FInv, UNCHANGED <<disk, pending>>, RecoveryFailed
  PROVE  FInv'
<1>1. CASE Release /\ UNCHANGED edited
  BY <1>1, ReleasedFiles
<1>2. CASE call.kind = "status" /\ Goto("serve", 0) /\ UNCHANGED <<call, observed>>
  BY <1>2, OutsidePhases DEF Goto, observed, RecoveredOK, FilePhases,
     PreparingPhases, StagedPhases, RollbackPhases
<1>3. CASE Answer("error")
  BY <1>3, ReleasedFiles DEF Answer
<1> QED
  BY <1>1, <1>2, <1>3 DEF RecoveryFailed, AfterFailure, observed

-----------------------------------------------------------------------------
(* The steps, one lemma each *)

\* A call that begins with a recovery touches no file.
LEMMA ServeFiles ==
  ASSUME Stored, Served, FInv, UNCHANGED unlocked, NEW kind, NEW o, NEW r,
         Serve(kind, o, r)
  PROVE  FInv'
<1>1. /\ UNCHANGED <<disk, edited, pending>>
      /\ pc' = "recover" /\ todo' = Visible
  BY DEF Serve, Goto, durable, observed
<1>2. RecoveredOK'
  BY <1>1, VisibleKept DEF RecoveredOK, PreparingPhases, RollbackPhases
<1> QED
  BY <1>1, <1>2, OutsidePhases DEF FilePhases, PreparingPhases, StagedPhases,
     RollbackPhases

\* Recovery takes up a journal with nothing of it restored.
LEMMA RecoverNextFiles ==
  ASSUME Stored, Served, FInv, NEW s \in Scopes, RecoverNext(s)
  PROVE  FInv'
<1>1. /\ UNCHANGED <<disk, edited, pending, unlocked>>
      /\ pc = "recover" /\ pc' = "rbRead" /\ target' = s /\ todo' = todo \ {s}
      /\ s \in todo
  BY DEF RecoverNext, Goto, durable, observed, process
<1>2. pending[s] # None
  BY <1>1 DEF Served, ControlOK, TodoOK
<1>3. RecoveredOK'
  BY <1>1, VisibleKept DEF FInv, RecoveredOK, PreparingPhases, RollbackPhases
<1> QED
  BY <1>1, <1>2, <1>3, RollbackBegins DEF RecoverNext

\* A recovery ends without a visible journal that could be rolled back.
LEMMA RecoverDoneFiles ==
  ASSUME Stored, Served, FInv, RecoverDone
  PROVE  FInv'
<1>1. /\ UNCHANGED <<disk, edited, pending, unlocked>>
      /\ pc = "recover" /\ todo = {}
  BY DEF RecoverDone, durable, observed, process
<1>2. CASE Release
  BY <1>1, <1>2, ReleasedFiles
<1>3. CASE pc' \in {"serve", "admit", "secrets"}
  <2>1. RecoveredOK'
    BY <1>1, <1>3, VisibleKept DEF FInv, RecoveredOK, PreparingPhases, RollbackPhases
  <2> QED
    BY <1>1, <1>3, <2>1, OutsidePhases DEF FilePhases, PreparingPhases,
       StagedPhases, RollbackPhases
<1> QED
  BY <1>2, <1>3 DEF RecoverDone, Goto

\* A rollback reads the file, and leaves it if it is as it was before.
LEMMA RollbackReadFiles ==
  ASSUME Stored, Served, FInv, RollbackRead
  PROVE  FInv'
<1>1. pc = "rbRead" /\ index \in Nat
  BY DEF RollbackRead, Served, MemoryTypes
<1>2. CASE RollbackConflict
  BY <1>2, RecoveryFailedFiles DEF RollbackConflict
<1>3. CASE ~RollbackConflict
  <2>1. /\ UNCHANGED <<durable, process, call, todo, target, inRecovery, observed>>
        /\ \/ index = 0 /\ Goto("rbEnd", 0)
           \/ index > 0 /\ Untouched /\ Goto("rbRead", index - 1)
           \/ Ours /\ Goto("rbCheck", index) /\ seen' = found
    BY <1>3 DEF RollbackRead, memory
  <2>2. /\ UNCHANGED <<disk, edited, pending, unlocked, target, todo, inRecovery>>
        /\ pc' \in RollbackPhases
    BY <2>1 DEF durable, process, observed, Goto, RollbackPhases
  <2>3. CoveredOK'
    BY <2>2 DEF FInv, CoveredOK, CoveredBy, Foreign
  <2>4. Len(journal.request.files) \in Nat
    BY <1>1, JournalFiles, Restoring DEF journal, RollbackPhases
  <2>5. RestoredOK'
    <3> SUFFICES ASSUME NEW k \in 1..Len(journal.request.files), k > index',
                        ~Foreign(target, journal.request.files[k].path)
                 PROVE  disk[target][journal.request.files[k].path]
                          = journal.previous[journal.request.files[k].path]
      BY <2>1, <2>2 DEF RestoredOK, journal, Foreign, Goto
    <3>1. CASE k > index
      BY <1>1, <3>1 DEF FInv, RestoredOK, RollbackPhases
    <3>2. CASE k = index /\ Untouched
      BY <3>2 DEF Untouched, found, before, restoring
    <3> QED
      BY <1>1, <2>1, <2>4, <3>1, <3>2 DEF Goto
  <2>6. SeenOK'
    BY <2>1, <2>2 DEF SeenOK, Goto, Ours, restoring, found, before, journal
  <2> QED
    BY <1>1, <2>2, <2>3, <2>5, <2>6, RollbackFiles DEF RollbackPhases
<1> QED
  BY <1>2, <1>3

\* The check before a file is put back changes nothing.
LEMMA RollbackCheckFiles ==
  ASSUME Stored, Served, FInv, RollbackCheck
  PROVE  FInv'
<1>1. pc = "rbCheck" /\ index \in Nat
  BY DEF RollbackCheck, Served, MemoryTypes
<1>2. CASE RollbackConflict
  BY <1>2, RecoveryFailedFiles DEF RollbackConflict
<1>3. CASE ~RollbackConflict
  <2>1. /\ UNCHANGED <<disk, edited, pending, unlocked, target, todo, inRecovery>>
        /\ pc' = "rbWrite" /\ index' = index
        /\ found \in {seen, before} /\ seen' = found
    BY <1>3 DEF RollbackCheck, Goto, durable, process, observed
  <2>2. CoveredOK'
    BY <2>1 DEF FInv, CoveredOK, CoveredBy, Foreign
  <2>3. RestoredOK'
    BY <1>1, <2>1 DEF FInv, RestoredOK, journal, Foreign, RollbackPhases
  <2>4. SeenOK'
    BY <1>1, <2>1 DEF FInv, SeenOK, restoring, found, before, journal
  <2> QED
    BY <1>1, <2>1, <2>2, <2>3, <2>4, RollbackFiles DEF RollbackPhases
<1> QED
  BY <1>2, <1>3

\* Putting a file back: that file is as it was, the others stand as they stood.
LEMMA RollbackWriteFiles ==
  ASSUME Stored, Served, FInv, RollbackWrite
  PROVE  FInv'
<1> DEFINE j == pending[target]
<1>1. /\ pc = "rbWrite" /\ index \in Nat /\ index > 0
      /\ UNCHANGED <<edited, pending, unlocked, target, todo, inRecovery>>
      /\ pc' = "rbRead" /\ index' = index - 1
  BY DEF RollbackWrite, Goto, observed, process, Served, MemoryTypes, ControlOK,
     RollbackOK
<1>2. /\ target \in Workspaces /\ restoring.path \in Paths /\ before \in File
      /\ j # None /\ Len(j.request.files) \in Nat
      /\ index \in 1..Len(j.request.files)
      /\ restoring = j.request.files[index]
      /\ before = j.previous[restoring.path]
  <2>1. /\ target \in Scopes /\ j # None /\ index <= Len(j.request.files)
    BY <1>1 DEF RollbackPhases, Served, MemoryTypes, ControlOK, RollbackOK
  <2>2. Len(j.request.files) \in Nat
    BY <2>1, JournalFiles
  <2>3. index \in 1..Len(j.request.files)
    BY <1>1, <2>1, <2>2
  <2>4. /\ target \in Workspaces /\ j.request.files[index].path \in Paths
        /\ j.previous[j.request.files[index].path] \in File
    BY <2>1, <2>3, JournalFiles
  <2> QED
    BY <2>1, <2>2, <2>3, <2>4 DEF journal, restoring, before
<1>3. /\ disk'[target][restoring.path] = before
      /\ \A v \in Workspaces, q \in Paths :
           v # target \/ q # restoring.path => disk'[v][q] = disk[v][q]
  <2>1. disk' = [disk EXCEPT ![target][restoring.path] = before]
    BY DEF RollbackWrite
  <2> QED
    BY <1>2, <2>1 DEF Stored, DurableTypes
<1>4. ASSUME NEW w \in Workspaces, pending[w] # None
      PROVE  CoveredBy(w, pending[w])'
  <2>1. CoveredBy(w, pending[w])
    BY <1>4 DEF FInv, CoveredOK
  <2> SUFFICES ASSUME NEW k \in 1..Len(pending[w].request.files),
                      ~Foreign(w, pending[w].request.files[k].path)
               PROVE  LET c == pending[w].request.files[k] IN
                        /\ pending[w].previous[c.path] = c.expected
                        /\ disk'[w][c.path] \in {c.expected, c.content}
    BY <1>1 DEF CoveredBy, Foreign
  <2>2. pending[w].request.files[k].path \in Paths
    BY <1>4, JournalFiles DEF Scopes
  <2>3. CASE w = target /\ pending[w].request.files[k].path = restoring.path
    BY <1>2, <1>3, <2>1, <2>3, ZenonT(40) DEF CoveredBy
  <2>4. CASE w # target \/ pending[w].request.files[k].path # restoring.path
    BY <1>3, <2>1, <2>2, <2>4 DEF CoveredBy
  <2> QED
    BY <2>3, <2>4
<1>5. CoveredOK'
  BY <1>1, <1>4 DEF CoveredOK
<1>6. RestoredOK'
  <2> SUFFICES ASSUME NEW k \in 1..Len(j.request.files), k > index - 1,
                      ~Foreign(target, j.request.files[k].path)
               PROVE  disk'[target][j.request.files[k].path]
                        = j.previous[j.request.files[k].path]
    BY <1>1 DEF RestoredOK, journal, Foreign
  <2>1. CASE j.request.files[k].path = restoring.path
    BY <1>2, <1>3, <2>1
  <2>2. CASE j.request.files[k].path # restoring.path
    <3>1. k > index /\ j.request.files[k].path \in Paths
      BY <1>1, <1>2, <2>2, JournalFiles DEF Scopes
    <3> QED
      BY <1>1, <1>2, <1>3, <2>2, <3>1 DEF FInv, RestoredOK, RollbackPhases, journal
  <2> QED
    BY <2>1, <2>2
<1>7. SeenOK'
  BY <1>1 DEF SeenOK
<1> QED
  BY <1>1, <1>5, <1>6, <1>7, RollbackFiles DEF RollbackPhases

\* A journal goes when all of its files are as they were.
LEMMA FinishRollbackFiles ==
  ASSUME Stored, Served, FInv, FinishRollback
  PROVE  FInv'
<1>1. /\ pc = "rbEnd" /\ UNCHANGED <<disk, edited, unlocked>>
      /\ pending' = [pending EXCEPT ![target] = None]
      /\ target \in Scopes
  BY Restoring DEF FinishRollback, Answer, observed, process, RollbackPhases
<1>2. /\ pending'[target] = None
      /\ \A s \in Scopes : s # target => pending'[s] = pending[s]
  BY <1>1 DEF Stored, DurableTypes
<1>3. CASE Answer("error")
  BY <1>1, <1>2, <1>3, ReleasedFiles DEF Answer
<1>4. CASE inRecovery /\ pc' = "recover" /\ todo' = todo
  <2>1. Visible' \subseteq Visible \ {target}
    BY <1>1, <1>2 DEF Visible, Sealed
  <2>2. RecoveredOK'
    BY <1>1, <1>4, <2>1 DEF FInv, RecoveredOK, PreparingPhases, RollbackPhases
  <2> QED
    BY <1>1, <1>2, <1>4, <2>2, OutsidePhases DEF FilePhases, PreparingPhases,
       StagedPhases, RollbackPhases
<1> QED
  BY <1>3, <1>4 DEF FinishRollback, Goto


(* Journals, files and foreign saves as they are: so is what covers them.  *)
LEMMA CoveredKept ==
  ASSUME FInv, UNCHANGED <<disk, edited, pending>>
  PROVE  CoveredOK'
BY DEF FInv, CoveredOK, CoveredBy, Foreign

\* A commit that is given up before it has a journal leaves the files alone.
LEMMA GivenUpFiles ==
  ASSUME FInv, AbortPrepared \/ Refuse
  PROVE  FInv'
BY ReleasedFiles DEF AbortPrepared, Refuse, Answer, durable

\* Admitting a request touches nothing.
LEMMA AdmitFiles ==
  ASSUME Stored, Served, FInv, UNCHANGED unlocked, Admit
  PROVE  FInv'
<1>1. pc = "admit"
  BY DEF Admit
<1>2. CASE AbortPrepared \/ Refuse
  BY <1>2, GivenUpFiles
<1>3. CASE UNCHANGED durable /\ Answer(Replay(call.op))
  BY <1>3, ReleasedFiles DEF Answer, durable
<1>4. CASE /\ Valid(req) /\ ~DuplicatePaths(req)
           /\ Goto("preflight", 1) /\ UNCHANGED <<durable, memory, observed>>
  <2>1. /\ UNCHANGED <<disk, edited, pending, call>> /\ pc' = "preflight"
    BY <1>4 DEF Goto, durable, memory, observed
  <2>2. CoveredOK' /\ BackupOK'
    BY <2>1, CoveredKept DEF BackupOK, BackedUp, Compared
  <2> QED
    BY <1>1, <1>4, <2>1, <2>2, PreparingFiles DEF PreparingPhases
<1> QED
  BY <1>2, <1>3, <1>4 DEF Admit

\* Before anything is written, every file is found as expected.
LEMMA PreflightFiles ==
  ASSUME Stored, Served, FInv, UNCHANGED unlocked, NEW label, NEW next,
         <<label, next>> \in {<<"preflight", "prepare">>, <<"recheck", "stage">>},
         Preflight(label, next)
  PROVE  FInv'
<1>1. /\ pc = label /\ index \in Nat /\ label \in {"preflight", "recheck"}
      /\ next = IF label = "recheck" THEN "stage" ELSE "prepare"
  BY DEF Preflight, Served, MemoryTypes
<1>2. CASE AbortPrepared
  BY <1>2, GivenUpFiles
<1>3. CASE ~AbortPrepared
  <2>1. /\ UNCHANGED <<disk, edited, pending, call, backup>>
        /\ \/ index > Len(req.files) /\ pc' = next
           \/ /\ index <= Len(req.files) /\ disk[req.scope][req.files[index].path] = req.files[index].expected
              /\ pc' = label /\ index' = index + 1
    <3>1. Len(req.files) \in Nat
      BY <1>1, RequestFiles DEF PreparingPhases
    <3> QED
      BY <1>1, <1>3, <3>1 DEF Preflight, Goto, durable, memory, observed, pastLast,
         AsExpected, onDisk, change
  <2>2. Len(req.files) \in Nat /\ Valid(req) /\ ~DuplicatePaths(req)
    BY <1>1, RequestFiles DEF PreparingPhases, FInv, RequestsOK
  <2>3. BackupOK'
    <3> SUFFICES ASSUME pc' \in {"recheck", "stage"}, pending[req.scope] = None,
                        NEW k \in 1..Len(req.files),
                        ~Foreign(req.scope, req.files[k].path)
                 PROVE  LET c == req.files[k] IN
                          /\ backup[c.path] = disk[req.scope][c.path]
                          /\ Compared(k)' => disk[req.scope][c.path] = c.expected
      BY <1>1, <2>1 DEF BackupOK, BackedUp, Compared, Foreign, req
    <3>1. pc = "recheck"
      BY <1>1, <2>1
    <3>2. backup[req.files[k].path] = disk[req.scope][req.files[k].path]
      BY <3>1 DEF FInv, BackupOK, BackedUp, PreparingPhases
    <3>3. k < index => disk[req.scope][req.files[k].path] = req.files[k].expected
      BY <3>1 DEF FInv, BackupOK, Compared, PreparingPhases
    <3>4. Compared(k)' => k < index \/ (k = index /\ index <= Len(req.files))
      BY <1>1, <2>1, <2>2, <3>1 DEF Compared
    <3> QED
      BY <2>1, <3>2, <3>3, <3>4
  <2> QED
    BY <1>1, <2>1, <2>2, <2>3, CoveredKept, PreparingFiles DEF PreparingPhases
<1> QED
  BY <1>2, <1>3

\* Preparing the secrets touches no file.
LEMMA PrepareFiles ==
  ASSUME Stored, Served, FInv, UNCHANGED unlocked, Prepare
  PROVE  FInv'
<1>1. pc = "prepare"
  BY DEF Prepare
<1>2. CASE AbortPrepared
  BY <1>2, GivenUpFiles
<1>3. CASE ~AbortPrepared
  <2>1. /\ UNCHANGED <<disk, edited, pending, call>> /\ pc' = "backup" /\ index' = 1
    BY <1>3 DEF Prepare, Goto, durable, memory, observed
  <2>2. Valid(req) /\ ~DuplicatePaths(req)
    BY <1>1 DEF PreparingPhases, FInv, RequestsOK
  <2>3. BackupOK'
    BY <2>1 DEF BackupOK, BackedUp, Compared
  <2> QED
    BY <1>1, <2>1, <2>2, <2>3, CoveredKept, PreparingFiles DEF PreparingPhases
<1> QED
  BY <1>2, <1>3

(* Two files of a request have two paths. *)
LEMMA PathsApart ==
  ASSUME NEW r, ~DuplicatePaths(r), NEW j \in 1..Len(r.files), NEW k \in 1..Len(r.files),
         r.files[j].path = r.files[k].path
  PROVE  j = k
BY DEF DuplicatePaths

\* The copies taken are those of the files as they were found.
LEMMA BackupFiles ==
  ASSUME Stored, Served, FInv, UNCHANGED unlocked, Backup
  PROVE  FInv'
<1>1. /\ pc = "backup" /\ index \in Nat /\ index >= 1
      /\ UNCHANGED <<disk, pending, call>>
      /\ backup \in [Paths -> File]
  BY DEF Backup, durable, Served, MemoryTypes, ControlOK, IndexOK
<1>2. /\ Len(req.files) \in Nat /\ Valid(req) /\ ~DuplicatePaths(req)
      /\ \A k \in 1..Len(req.files) : req.files[k].path \in Paths
      /\ req.scope \in Scopes
  BY <1>1, RequestFiles DEF PreparingPhases, FInv, RequestsOK
<1>3. CASE pastLast
  <2>1. /\ UNCHANGED <<backup, edited>> /\ pc' = "recheck" /\ index' = 1
        /\ index > Len(req.files)
    BY <1>3 DEF Backup, Goto, pastLast
  <2>2. BackupOK'
    <3> SUFFICES ASSUME pending[req.scope] = None, NEW k \in 1..Len(req.files),
                        ~Foreign(req.scope, req.files[k].path)
                 PROVE  backup[req.files[k].path] = disk[req.scope][req.files[k].path]
      BY <1>1, <2>1 DEF BackupOK, BackedUp, Compared, Foreign, req
    <3>1. BackedUp(k)
      BY <1>1, <1>2, <2>1 DEF BackedUp
    <3> QED
      BY <1>1, <3>1 DEF FInv, BackupOK, PreparingPhases
  <2> QED
    BY <1>1, <1>2, <2>1, <2>2, CoveredKept, PreparingFiles DEF PreparingPhases
<1>4. CASE ~pastLast
  <2>1. /\ backup' = [backup EXCEPT ![change.path] = onDisk]
        /\ edited' = IF pending[req.scope] = None
                       THEN edited \ {<<req.scope, change.path>>}
                       ELSE edited
        /\ pc' = "backup" /\ index' = index + 1
    BY <1>4 DEF Backup, Goto
  <2>2. index \in 1..Len(req.files)
    BY <1>1, <1>2, <1>4 DEF pastLast
  <2>3. CoveredOK'
    <3> SUFFICES ASSUME NEW w \in Workspaces, pending[w] # None
                 PROVE  CoveredBy(w, pending[w])'
      BY <1>1 DEF CoveredOK
    <3>1. CoveredBy(w, pending[w])
      BY DEF FInv, CoveredOK
    <3>2. \A p : Foreign(w, p)' <=> Foreign(w, p)
      BY <2>1 DEF Foreign
    <3> QED
      BY <1>1, <3>1, <3>2 DEF CoveredBy
  <2>4. BackupOK'
    <3> SUFFICES ASSUME pending[req.scope] = None, NEW k \in 1..Len(req.files),
                        ~Foreign(req.scope, req.files[k].path)', k < index + 1
                 PROVE  backup'[req.files[k].path] = disk[req.scope][req.files[k].path]
      BY <1>1, <2>1 DEF BackupOK, BackedUp, Compared, Foreign, req
    <3>1. CASE k = index
      BY <1>1, <1>2, <2>1, <3>1 DEF change, onDisk
    <3>2. CASE k < index
      <4>1. req.files[k].path # change.path
        BY <1>2, <2>2, <3>2, PathsApart DEF change
      <4>2. ~Foreign(req.scope, req.files[k].path)
        BY <1>1, <2>1, <4>1 DEF Foreign, req
      <4>3. backup[req.files[k].path] = disk[req.scope][req.files[k].path]
        BY <1>1, <3>2, <4>2 DEF FInv, BackupOK, BackedUp, PreparingPhases
      <4> QED
        BY <1>1, <1>2, <2>1, <4>1, <4>3
    <3> QED
      BY <1>1, <3>1, <3>2
  <2> QED
    BY <1>1, <1>2, <2>1, <2>3, <2>4, PreparingFiles DEF PreparingPhases
<1> QED
  BY <1>3, <1>4

\* The journal that is written holds the copies of all the files.
LEMMA StageFiles ==
  ASSUME Stored, Served, FInv, Stage
  PROVE  FInv'
<1>1. pc = "stage"
  BY DEF Stage
<1>2. CASE Refuse
  BY <1>2, GivenUpFiles
<1>3. CASE ~Refuse
  <2> DEFINE new == [op |-> call.op, request |-> req, previous |-> backup]
  <2>1. /\ UNCHANGED <<disk, edited, call>> /\ pc' = "begin"
        /\ pending[req.scope] = None
        /\ pending' = [pending EXCEPT ![req.scope] = new]
    BY <1>3 DEF Stage, StageIsFree, Goto, memory, observed
  <2>2. /\ req.scope \in Scopes /\ Valid(req) /\ ~DuplicatePaths(req)
    BY <1>1, RequestFiles DEF PreparingPhases, FInv, RequestsOK
  <2>3. /\ pending'[req.scope] = new
        /\ \A s \in Scopes : s # req.scope => pending'[s] = pending[s]
    BY <2>1, <2>2 DEF Stored, DurableTypes
  <2>4. CoveredOK'
    <3>1. CoveredBy(req.scope, new)
      BY <1>1, <2>1 DEF FInv, BackupOK, BackedUp, Compared, PreparingPhases,
         CoveredBy
    <3> SUFFICES ASSUME NEW w \in Workspaces, pending'[w] # None
                 PROVE  CoveredBy(w, pending[w])'
      BY DEF CoveredOK
    <3>2. CASE w = req.scope
      BY <2>1, <2>3, <3>1, <3>2 DEF CoveredBy, Foreign
    <3>3. CASE w # req.scope
      <4>1. pending'[w] = pending[w]
        BY <2>3, <3>3 DEF Scopes
      <4>2. CoveredBy(w, pending[w])
        BY <4>1 DEF FInv, CoveredOK
      <4>3. UNCHANGED <<disk, edited>>
        BY <2>1
      <4> QED
        BY <4>1, <4>2, <4>3 DEF CoveredBy, Foreign
    <3> QED
      BY <3>2, <3>3
  <2>5. RequestsOK'
    <3>1. ASSUME NEW s \in Scopes, pending'[s] # None
          PROVE  ~DuplicatePaths(pending'[s].request)
      BY <2>2, <2>3, <3>1 DEF FInv, RequestsOK
    <3> QED
      BY <2>1, <2>2, <3>1 DEF RequestsOK, PreparingPhases, Valid, DuplicatePaths, req
  <2>6. BackupOK' /\ AppliedOK' /\ RestoredOK' /\ SeenOK' /\ RecoveredOK'
    BY <2>1 DEF BackupOK, AppliedOK, Applied, Verified, RestoredOK, SeenOK,
       RecoveredOK, PreparingPhases, RollbackPhases
  <2> QED
    BY <2>4, <2>5, <2>6 DEF FInv
<1> QED
  BY <1>2, <1>3

\* From here on the files are replaced one after the other.
LEMMA MarkApplyingFiles ==
  ASSUME Stored, Served, FInv, MarkApplying
  PROVE  FInv'
<1>1. /\ pc = "begin" /\ pc' = "applyCheck" /\ index' = 1
      /\ UNCHANGED <<disk, edited, pending, call>>
  BY DEF MarkApplying, Goto, memory
<1>2. AppliedOK' /\ SeenOK'
  BY <1>1 DEF AppliedOK, Applied, Verified, SeenOK
<1> QED
  BY <1>1, <1>2, CoveredKept, StagedFiles DEF StagedPhases

\* What is about to be replaced is as expected.
LEMMA ApplyCheckFiles ==
  ASSUME Stored, Served, FInv, ApplyCheck
  PROVE  FInv'
<1>1. pc = "applyCheck" /\ index \in Nat /\ Len(req.files) \in Nat
  BY RequestFiles DEF ApplyCheck, Served, MemoryTypes, StagedPhases
<1>2. CASE StartRollback
  BY <1>1, <1>2, StartRollbackFiles DEF StagedPhases
<1>3. CASE ~StartRollback
  <2>1. /\ UNCHANGED <<disk, edited, late, pending, call>>
        /\ \/ index > Len(req.files) /\ pc' = "verify" /\ index' = 1
           \/ /\ onDisk \in {change.expected, change.content}
              /\ pc' = "applyWrite" /\ index' = index /\ seen' = onDisk
    BY <1>3 DEF ApplyCheck, Goto, durable, memory, observed, pastLast
  <2>2. AppliedOK'
    <3> SUFFICES ASSUME NEW k \in 1..Len(req.files), k < index,
                        ~Foreign(req.scope, req.files[k].path)
                 PROVE  disk[req.scope][req.files[k].path] = req.files[k].content
      BY <1>1, <2>1 DEF AppliedOK, Applied, Verified, Foreign, req
    <3> QED
      BY <1>1 DEF FInv, AppliedOK, Applied, StagedPhases
  <2>3. SeenOK'
    BY <2>1 DEF SeenOK, change, req
  <2> QED
    BY <1>1, <2>1, <2>2, <2>3, CoveredKept, StagedFiles DEF StagedPhases
<1> QED
  BY <1>2, <1>3

\* Replacing a file: that one is as requested, the others stand as they stood.
LEMMA ApplyWriteFiles ==
  ASSUME Stored, Served, FInv, ApplyWrite
  PROVE  FInv'
<1>1. /\ pc = "applyWrite" /\ pc' = "applyCheck" /\ index' = index + 1
      /\ index \in Nat /\ index >= 1 /\ index <= Len(req.files)
      /\ UNCHANGED <<edited, pending, call>>
  BY DEF ApplyWrite, Goto, observed, Served, MemoryTypes, ControlOK, IndexOK
<1>2. Len(req.files) \in Nat
  BY <1>1, RequestFiles DEF StagedPhases
<1>3. /\ index \in 1..Len(req.files)
      /\ req.scope \in Workspaces /\ change.path \in Paths /\ change.content \in File
      /\ \A k \in 1..Len(req.files) : req.files[k].path \in Paths
      /\ pending[req.scope] # None /\ pending[req.scope].request = req
      /\ ~DuplicatePaths(req)
  <2>1. index \in 1..Len(req.files)
    BY <1>1, <1>2
  <2>2. pending[req.scope] # None /\ pending[req.scope].request = req /\ req.scope \in Scopes
    BY <1>1, Committing DEF StagedPhases
  <2> QED
    BY <1>1, <2>1, <2>2, RequestFiles DEF change, StagedPhases, FInv, RequestsOK
<1>4. /\ disk'[req.scope][change.path] = change.content
      /\ \A v \in Workspaces, q \in Paths :
           v # req.scope \/ q # change.path => disk'[v][q] = disk[v][q]
  <2>1. disk' = [disk EXCEPT ![req.scope][change.path] = change.content]
    BY DEF ApplyWrite
  <2> QED
    BY <1>3, <2>1 DEF Stored, DurableTypes
<1>5. ASSUME NEW w \in Workspaces, pending[w] # None
      PROVE  CoveredBy(w, pending[w])'
  <2>1. CoveredBy(w, pending[w])
    BY <1>5 DEF FInv, CoveredOK
  <2> SUFFICES ASSUME NEW k \in 1..Len(pending[w].request.files),
                      ~Foreign(w, pending[w].request.files[k].path)
               PROVE  LET c == pending[w].request.files[k] IN
                        /\ pending[w].previous[c.path] = c.expected
                        /\ disk'[w][c.path] \in {c.expected, c.content}
    BY <1>1 DEF CoveredBy, Foreign
  <2>2. pending[w].request.files[k].path \in Paths
    BY <1>5, JournalFiles DEF Scopes
  <2>3. CASE w = req.scope /\ pending[w].request.files[k].path = change.path
    <3>1. k = index
      BY <1>3, <2>3, PathsApart DEF change
    <3> QED
      BY <1>3, <1>4, <2>1, <2>3, <3>1 DEF CoveredBy, change
  <2>4. CASE w # req.scope \/ pending[w].request.files[k].path # change.path
    BY <1>4, <2>1, <2>2, <2>4 DEF CoveredBy
  <2> QED
    BY <2>3, <2>4
<1>6. CoveredOK'
  BY <1>1, <1>5 DEF CoveredOK
<1>7. AppliedOK'
  <2> SUFFICES ASSUME NEW k \in 1..Len(req.files), k < index + 1,
                      ~Foreign(req.scope, req.files[k].path)
               PROVE  disk'[req.scope][req.files[k].path] = req.files[k].content
    BY <1>1 DEF AppliedOK, Applied, Verified, Foreign, req
  <2>1. CASE k = index
    BY <1>4, <2>1 DEF change
  <2>2. CASE k < index
    <3>1. req.files[k].path # change.path
      BY <1>3, <2>2, PathsApart DEF change
    <3>2. disk[req.scope][req.files[k].path] = req.files[k].content
      BY <1>1, <2>2 DEF FInv, AppliedOK, Applied, StagedPhases
    <3> QED
      BY <1>3, <1>4, <3>1, <3>2
  <2> QED
    BY <1>1, <2>1, <2>2
<1>8. SeenOK'
  BY <1>1 DEF SeenOK
<1> QED
  BY <1>1, <1>6, <1>7, <1>8, StagedFiles DEF StagedPhases

\* All of the files are as requested when the commit goes on.
LEMMA VerifyFiles ==
  ASSUME Stored, Served, FInv, Verify
  PROVE  FInv'
<1>1. /\ pc = "verify" /\ index \in Nat /\ index >= 1 /\ Len(req.files) \in Nat
  BY RequestFiles DEF Verify, Served, MemoryTypes, ControlOK, IndexOK, StagedPhases
<1>2. CASE StartRollback
  BY <1>1, <1>2, StartRollbackFiles DEF StagedPhases
<1>3. CASE ~StartRollback
  <2>1. /\ UNCHANGED <<disk, edited, pending, call>>
        /\ \/ index > Len(req.files) /\ pc' = "publish" /\ UNCHANGED late
           \/ /\ index <= Len(req.files) /\ AsApplied
              /\ pc' = "verify" /\ index' = index + 1
              /\ late' = late \ {<<req.scope, change.path>>}
    BY <1>1, <1>3 DEF Verify, Goto, durable, memory, observed, pastLast
  <2>2. ~DuplicatePaths(req)
    BY <1>1, Committing DEF StagedPhases, FInv, RequestsOK
  <2>3. AppliedOK'
    <3> SUFFICES ASSUME NEW k \in 1..Len(req.files)
                 PROVE  LET c == req.files[k] IN
                          /\ ~Foreign(req.scope, c.path) =>
                               disk[req.scope][c.path] = c.content
                          /\ Verified(k)' /\ <<req.scope, c.path>> \notin late' =>
                               disk[req.scope][c.path] = c.content
      BY <2>1 DEF AppliedOK, Applied, Foreign, req
    <3>1. ~Foreign(req.scope, req.files[k].path) =>
            disk[req.scope][req.files[k].path] = req.files[k].content
      BY <1>1 DEF FInv, AppliedOK, Applied, StagedPhases
    <3>2. k < index /\ <<req.scope, req.files[k].path>> \notin late =>
            disk[req.scope][req.files[k].path] = req.files[k].content
      BY <1>1 DEF FInv, AppliedOK, Verified, StagedPhases
    <3>3. CASE pc' = "publish"
      BY <1>1, <2>1, <3>1, <3>2, <3>3
    <3>4. CASE pc' = "verify" /\ k = index
      BY <2>1, <3>1, <3>4 DEF AsApplied, onDisk, change
    <3>5. CASE pc' = "verify" /\ k # index
      <4>1. index \in 1..Len(req.files)
        BY <1>1, <2>1, <3>5
      <4>2. req.files[k].path # change.path
        BY <2>2, <3>5, <4>1, PathsApart DEF change
      <4>3. Verified(k)' => k < index
        BY <1>1, <2>1, <3>5 DEF Verified
      <4> QED
        BY <2>1, <3>1, <3>2, <3>5, <4>2, <4>3
    <3> QED
      BY <2>1, <3>3, <3>4, <3>5
  <2>4. SeenOK'
    BY <2>1 DEF SeenOK
  <2> QED
    BY <1>1, <2>1, <2>3, <2>4, CoveredKept, StagedFiles DEF StagedPhases
<1> QED
  BY <1>2, <1>3

\* Publishing the records touches no file.
LEMMA PublishFiles ==
  ASSUME Stored, Served, FInv, NEW fault \in BOOLEAN, Publish(fault)
  PROVE  FInv'
<1>1. pc = "publish"
  BY DEF Publish
<1>2. CASE StartRollback
  BY <1>1, <1>2, StartRollbackFiles DEF StagedPhases
<1>3. CASE ~StartRollback
  <2>1. /\ UNCHANGED <<disk, edited>> /\ Release
        /\ pending' = [pending EXCEPT ![req.scope] = None]
    BY <1>3 DEF Publish, Answer
  <2>2. \A s \in Scopes : pending'[s] = None \/ pending'[s] = pending[s]
    BY <2>1 DEF Stored, DurableTypes
  <2> QED
    BY <2>1, <2>2, ReleasedFiles
<1> QED
  BY <1>2, <1>3

\* A batch of secrets has no files.
LEMMA CommitSecretsFiles ==
  ASSUME FInv, CommitSecrets
  PROVE  FInv'
<1>1. UNCHANGED <<disk, edited, pending>> /\ Release
  BY DEF CommitSecrets, Refuse, AbortPrepared, Answer, durable
<1> QED
  BY <1>1, ReleasedFiles

\* A failure starts a rollback or leaves a journal behind.
LEMMA FaultFiles ==
  ASSUME Stored, Served, FInv, Fault
  PROVE  FInv'
<1>1. CASE RecoveryFailed /\ UNCHANGED durable
  BY <1>1, RecoveryFailedFiles DEF durable
<1>2. CASE RollbackConflict
  BY <1>2, RecoveryFailedFiles DEF RollbackConflict
<1>3. CASE AbortPrepared \/ Refuse
  BY <1>3, GivenUpFiles
<1>4. CASE pc \in StagedPhases /\ StartRollback
  BY <1>4, StartRollbackFiles
<1> QED
  BY <1>1, <1>2, <1>3, <1>4 DEF Fault, StagedPhases

\* Ending a call, a process or a lock leaves the files alone.
LEMMA IdleFiles ==
  ASSUME FInv, Return \/ Crash \/ RetryProtectedStorage \/ DegradedLoad
  PROVE  FInv'
<1>1. CASE Return \/ Crash
  BY <1>1, ReleasedFiles DEF Return, Crash, durable, observed
<1>2. CASE RetryProtectedStorage \/ DegradedLoad
  <2>1. pc' = "idle" /\ UNCHANGED <<disk, edited, pending>>
    BY <1>2 DEF RetryProtectedStorage, DegradedLoad, durable, observed, control
  <2> QED
    BY <2>1, OutsidePhases DEF RecoveredOK, FilePhases, PreparingPhases,
       StagedPhases, RollbackPhases
<1> QED
  BY <1>1, <1>2

(* A save of another program is foreign to whatever is in hand.            *)
LEMMA ExternalEditFiles ==
  ASSUME Stored, Served, FInv, NEW w \in Workspaces, NEW p \in Paths, NEW c \in File,
         ExternalEdit(w, p, c)
  PROVE  FInv'
<1>1. /\ UNCHANGED <<pending, unlocked, pc, index, call, todo, target, inRecovery,
                     backup, seen>>
      /\ edited' = edited \cup {<<w, p>>}
      /\ late' = IF pc \in {"verify", "publish"} THEN late \cup {<<w, p>>} ELSE {}
  BY DEF ExternalEdit, process, control, memory
<1>2. \A v \in Workspaces, q \in Paths :
        v # w \/ q # p => disk'[v][q] = disk[v][q]
  BY DEF ExternalEdit, Stored, DurableTypes
<1>3. ASSUME NEW v \in Workspaces, NEW q \in Paths, ~Foreign(v, q)'
      PROVE  ~Foreign(v, q) /\ disk'[v][q] = disk[v][q]
  BY <1>1, <1>2, <1>3 DEF Foreign
<1>4. CoveredOK'
  <2> SUFFICES ASSUME NEW v \in Workspaces, pending[v] # None,
                      NEW k \in 1..Len(pending[v].request.files),
                      ~Foreign(v, pending[v].request.files[k].path)'
               PROVE  LET f == pending[v].request.files[k] IN
                        /\ pending[v].previous[f.path] = f.expected
                        /\ disk'[v][f.path] \in {f.expected, f.content}
    BY <1>1 DEF CoveredOK, CoveredBy
  <2>1. pending[v].request.files[k].path \in Paths
    BY JournalFiles DEF Scopes
  <2>2. CoveredBy(v, pending[v])
    BY DEF FInv, CoveredOK
  <2>3. /\ ~Foreign(v, pending[v].request.files[k].path)
        /\ disk'[v][pending[v].request.files[k].path]
             = disk[v][pending[v].request.files[k].path]
    BY <1>1, <1>3, <2>1
  <2> QED
    BY <2>2, <2>3 DEF CoveredBy
<1>5. RequestsOK'
  BY <1>1 DEF FInv, RequestsOK, Valid, DuplicatePaths, req
<1>6. BackupOK'
  <2> SUFFICES ASSUME pc \in PreparingPhases, pending[req.scope] = None,
                      NEW k \in 1..Len(req.files),
                      ~Foreign(req.scope, req.files[k].path)'
               PROVE  LET f == req.files[k] IN
                        /\ BackedUp(k) => backup[f.path] = disk'[req.scope][f.path]
                        /\ Compared(k) => disk'[req.scope][f.path] = f.expected
    BY <1>1 DEF BackupOK, BackedUp, Compared, Foreign, req
  <2>1. req.scope \in Workspaces /\ req.files[k].path \in Paths
    BY RequestFiles
  <2>2. /\ ~Foreign(req.scope, req.files[k].path)
        /\ disk'[req.scope][req.files[k].path] = disk[req.scope][req.files[k].path]
    BY <1>1, <1>3, <2>1 DEF Foreign, req
  <2> QED
    BY <2>2 DEF FInv, BackupOK
<1>7. AppliedOK'
  <2> SUFFICES ASSUME pc \in StagedPhases, NEW k \in 1..Len(req.files)
               PROVE  LET f == req.files[k] IN
                        /\ Applied(k) /\ <<req.scope, f.path>> \notin edited' =>
                             disk'[req.scope][f.path] = f.content
                        /\ Verified(k) /\ <<req.scope, f.path>> \notin late' =>
                             disk'[req.scope][f.path] = f.content
    BY <1>1 DEF AppliedOK, Applied, Verified, Foreign, req
  <2>1. req.scope \in Workspaces /\ req.files[k].path \in Paths
    BY RequestFiles
  <2>2. CASE <<req.scope, req.files[k].path>> = <<w, p>>
    BY <1>1, <2>2 DEF Verified
  <2>3. CASE <<req.scope, req.files[k].path>> # <<w, p>>
    <3>1. disk'[req.scope][req.files[k].path] = disk[req.scope][req.files[k].path]
      BY <1>2, <2>1, <2>3
    <3>2. <<req.scope, req.files[k].path>> \notin edited'
            => ~Foreign(req.scope, req.files[k].path)
      BY <1>1 DEF Foreign
    <3>3. Verified(k) /\ <<req.scope, req.files[k].path>> \notin late'
            => <<req.scope, req.files[k].path>> \notin late
      BY <1>1 DEF Verified
    <3> QED
      BY <3>1, <3>2, <3>3 DEF FInv, AppliedOK
  <2> QED
    BY <2>2, <2>3
<1>8. RestoredOK'
  <2> SUFFICES ASSUME pc \in RollbackPhases
               PROVE  /\ pc = "rbEnd" => index = 0
                      /\ \A k \in 1..Len(pending[target].request.files) :
                           LET q == pending[target].request.files[k].path IN
                             k > index /\ ~Foreign(target, q)' =>
                               disk'[target][q] = pending[target].previous[q]
    BY <1>1 DEF RestoredOK, journal, Foreign
  <2>1. pending[target] # None /\ target \in Scopes
    BY DEF Served, MemoryTypes, ControlOK, RollbackOK
  <2>2. pc = "rbEnd" => index = 0
    BY DEF FInv, RestoredOK
  <2>3. ASSUME NEW k \in 1..Len(pending[target].request.files), k > index,
               ~Foreign(target, pending[target].request.files[k].path)'
        PROVE  disk'[target][pending[target].request.files[k].path]
                 = pending[target].previous[pending[target].request.files[k].path]
    <3>1. target \in Workspaces /\ pending[target].request.files[k].path \in Paths
      BY <2>1, JournalFiles
    <3>2. /\ ~Foreign(target, pending[target].request.files[k].path)
          /\ disk'[target][pending[target].request.files[k].path]
               = disk[target][pending[target].request.files[k].path]
      BY <1>1, <1>3, <2>3, <3>1 DEF Foreign
    <3> QED
      BY <2>3, <3>2 DEF FInv, RestoredOK, journal
  <2> QED
    BY <1>1, <2>2, <2>3 DEF Foreign
<1>9. SeenOK' /\ RecoveredOK'
  BY <1>1, VisibleKept DEF FInv, SeenOK, RecoveredOK, change, restoring, before,
     journal, req
<1> QED
  BY <1>4, <1>5, <1>6, <1>7, <1>8, <1>9 DEF FInv

-----------------------------------------------------------------------------
(* The invariant *)

\* No files are in progress at the start.
LEMMA InitFiles == Init => FInv
<1> SUFFICES ASSUME Init PROVE FInv
  OBVIOUS
<1>1. pc = "idle" /\ \A s \in Scopes : pending[s] = None
  BY DEF Init
<1>2. \A w \in Workspaces : pending[w] = None
  BY <1>1 DEF Scopes
<1> QED
  BY <1>1, <1>2 DEF Init, NoCall, FInv, CoveredOK, RequestsOK, BackupOK, AppliedOK,
     RestoredOK, SeenOK, RecoveredOK, PreparingPhases, StagedPhases, RollbackPhases

\* A step that changes nothing keeps the files' invariant.
LEMMA StutterFiles ==
  ASSUME FInv, UNCHANGED vars
  PROVE  FInv'
<1>1. UNCHANGED <<disk, pending, unlocked, pc, index, call, todo, target, inRecovery,
                  backup, seen, edited, late>>
  BY DEF vars, durable, process, control, memory, observed
<1>2. RequestsOK' /\ BackupOK' /\ AppliedOK' /\ RestoredOK'
  BY <1>1, ZenonT(40) DEF FInv, RequestsOK, BackupOK, BackedUp, Compared, AppliedOK, Applied,
     Verified, RestoredOK, Foreign, Valid, DuplicatePaths, journal, req
<1>3. SeenOK' /\ RecoveredOK'
  BY <1>1, VisibleKept DEF FInv, SeenOK, RecoveredOK, change, restoring, before,
     journal, req
<1> QED
  BY <1>1, <1>2, <1>3, CoveredKept DEF FInv

\* Every step keeps the files' invariant.
LEMMA FilesStep ==
  ASSUME Stored, Served, FInv, Next
  PROVE  FInv'
<1>0. CASE DegradedLoad
  BY <1>0, IdleFiles
<1>1. CASE Open \/ BeginLoad \/ BeginStatus
  BY <1>1, ServeFiles DEF Open, BeginLoad, BeginStatus, process
<1>2. ASSUME NEW o \in OpIds, NEW r \in Requests, BeginCommit(o, r)
      PROVE  FInv'
  BY <1>2, ServeFiles DEF BeginCommit, process
<1>3. CASE Step
  <2>1. ASSUME NEW s \in Scopes, RecoverNext(s) PROVE FInv'
    BY <2>1, RecoverNextFiles
  <2>2. CASE RecoverGlobal
    BY <2>2, RecoveryFailedFiles DEF RecoverGlobal, durable
  <2>3. CASE RecoverDone \/ Return
    BY <2>3, RecoverDoneFiles, IdleFiles
  <2>4. CASE RollbackRead \/ RollbackCheck \/ RollbackWrite \/ FinishRollback
    BY <2>4, RollbackReadFiles, RollbackCheckFiles, RollbackWriteFiles,
       FinishRollbackFiles
  <2>5. CASE Admit \/ Prepare \/ Backup
    <3>1. UNCHANGED unlocked
      BY <2>5 DEF Admit, Prepare, Backup, process
    <3> QED
      BY <2>5, <3>1, AdmitFiles, PrepareFiles, BackupFiles
  <2>6. CASE Preflight("preflight", "prepare") \/ Preflight("recheck", "stage")
    <3>1. UNCHANGED unlocked
      BY <2>6 DEF Preflight, process
    <3> QED
      BY <2>6, <3>1, PreflightFiles
  <2>7. CASE Stage \/ MarkApplying
    BY <2>7, StageFiles, MarkApplyingFiles
  <2>8. CASE ApplyCheck \/ ApplyWrite \/ Verify
    BY <2>8, ApplyCheckFiles, ApplyWriteFiles, VerifyFiles
  <2>9. CASE Publish(FALSE) \/ CommitSecrets
    BY <2>9, PublishFiles, CommitSecretsFiles
  <2> QED
    BY <1>3, <2>1, <2>2, <2>3, <2>4, <2>5, <2>6, <2>7, <2>8, <2>9 DEF Step
<1>4. CASE Publish(TRUE) \/ Fault
  BY <1>4, PublishFiles, FaultFiles
<1>5. CASE Crash \/ RetryProtectedStorage
  BY <1>5, IdleFiles
<1>6. ASSUME NEW w \in Workspaces, NEW p \in Paths, NEW c \in File, ExternalEdit(w, p, c)
      PROVE  FInv'
  BY <1>6, ExternalEditFiles
<1> QED
  BY <1>0, <1>1, <1>2, <1>3, <1>4, <1>5, <1>6 DEF Next

(* The files of commits and journals are accounted for in every reachable  *)
(* state: the invariant the theorems below rest on.                        *)
THEOREM FileInvariance == Spec => [](IInv /\ FInv)
<1>1. IInv /\ FInv /\ [Next]_vars => FInv'
  <2>1. ASSUME IInv, FInv, Next
        PROVE  FInv'
    BY <2>1, Parts, FilesStep
  <2>2. ASSUME IInv, FInv, UNCHANGED vars
        PROVE  FInv'
    BY <2>2, StutterFiles
  <2> QED
    BY <2>1, <2>2
<1> QED
  BY <1>1, InitFiles, InitInvariant, NextInvariant, PTL DEF Spec

-----------------------------------------------------------------------------
(* What the runs check *)

(* Rolling a journal back restores what was there: each of its files no    *)
(* other program saved meanwhile is still as the journal remembers it or   *)
(* as the commit wants it, however many requests, files, crashes and       *)
(* failures there are.                                                     *)
THEOREM JournalCoverage == Spec => []JournalCoversFiles
<1>1. IInv /\ FInv => JournalCoversFiles
  <2> SUFFICES ASSUME IInv, FInv, NEW w \in Workspaces, pending[w] # None,
                      NEW k \in DOMAIN pending[w].request.files,
                      <<w, pending[w].request.files[k].path>> \notin edited
               PROVE  LET c == pending[w].request.files[k] IN
                        /\ pending[w].previous[c.path] = c.expected
                        /\ disk[w][c.path] \in {c.expected, c.content}
    BY DEF JournalCoversFiles
  <2>1. pending[w].request \in Requests
    BY Parts, JournalParts DEF Scopes
  <2>2. k \in 1..Len(pending[w].request.files)
    BY <2>1, FilesDomain
  <2> QED
    BY <2>2 DEF FInv, CoveredOK, CoveredBy, Foreign
<1> QED
  BY <1>1, FileInvariance, PTL

(* Only apply() of a commit, apply() of a rollback and other programs      *)
(* change a project file.                                                  *)
LEMMA WhoWritesFiles ==
  ASSUME Next, ~UNCHANGED disk, ~ApplyWrite, ~RollbackWrite
  PROVE  \E w \in Workspaces, p \in Paths, c \in File : ExternalEdit(w, p, c)
<1> USE DEF durable, Serve, RecoveryFailed, AfterFailure, Answer, Release, AbortPrepared,
            Refuse, StartRollback, RollbackConflict
<1>1. ~(Open \/ DegradedLoad \/ BeginLoad \/ BeginStatus)
  BY DEF Open, DegradedLoad, BeginLoad, BeginStatus
<1>2. ASSUME NEW o \in OpIds, NEW r \in Requests, BeginCommit(o, r)
      PROVE  FALSE
  BY <1>2 DEF BeginCommit
<1>3. ~Step
  <2>1. ASSUME NEW s \in Scopes, RecoverNext(s) PROVE FALSE
    BY <2>1 DEF RecoverNext
  <2>2. ~(RecoverGlobal \/ RecoverDone \/ Return)
    BY DEF RecoverGlobal, RecoverDone, Return
  <2>3. ~(RollbackRead \/ RollbackCheck \/ FinishRollback)
    BY DEF RollbackRead, RollbackCheck, FinishRollback
  <2>4. ~(Admit \/ Prepare \/ Backup \/ Stage \/ MarkApplying)
    BY DEF Admit, Prepare, Backup, Stage, MarkApplying
  <2>5. ~(Preflight("preflight", "prepare") \/ Preflight("recheck", "stage"))
    BY DEF Preflight
  <2>6. ~(ApplyCheck \/ Verify \/ Publish(FALSE) \/ CommitSecrets)
    BY DEF ApplyCheck, Verify, Publish, CommitSecrets
  <2> QED
    BY <2>1, <2>2, <2>3, <2>4, <2>5, <2>6 DEF Step
<1>4. ~(Publish(TRUE) \/ Fault \/ Crash \/ RetryProtectedStorage)
  BY DEF Publish, Fault, Crash, RetryProtectedStorage
<1> QED
  BY <1>1, <1>2, <1>3, <1>4 DEF Next

(* The journal behind a write accounts for what its check has seen.        *)
LEMMA ApplyWriteCompared ==
  ASSUME Stored, Served, FInv, ApplyWrite,
         NEW w \in Workspaces, NEW p \in Paths, disk'[w][p] # disk[w][p]
  PROVE  pending[w] # None /\ seen \in Accounted(pending[w], p)
<1>1. /\ pc = "applyWrite" /\ index \in 1..Len(req.files)
  <2>1. pc = "applyWrite" /\ index \in Nat /\ index >= 1 /\ index <= Len(req.files)
    BY DEF ApplyWrite, Served, MemoryTypes, ControlOK, IndexOK
  <2> QED
    BY <2>1, RequestFiles DEF StagedPhases
<1>2. /\ req \in Requests /\ req.scope \in Workspaces /\ change.path \in Paths
      /\ pending[req.scope] # None /\ pending[req.scope].request = req
  BY <1>1, Committing DEF StagedPhases
<1>3. w = req.scope /\ p = change.path
  BY <1>2 DEF ApplyWrite, Stored, DurableTypes
<1>4. index \in {n \in DOMAIN req.files : req.files[n].path = p}
  BY <1>1, <1>2, <1>3, FilesDomain DEF change
<1>5. seen \in {req.files[index].expected, req.files[index].content}
  BY <1>1 DEF FInv, SeenOK, change
<1> QED
  BY <1>2, <1>3, <1>4, <1>5 DEF Accounted

\* What a rollback replaces was looked at just before.
LEMMA RollbackWriteCompared ==
  ASSUME Stored, Served, FInv, RollbackWrite,
         NEW w \in Workspaces, NEW p \in Paths, disk'[w][p] # disk[w][p]
  PROVE  pending[w] # None /\ seen \in Accounted(pending[w], p)
<1> DEFINE j == pending[target]
<1>1. /\ target \in Scopes /\ j # None /\ index \in Nat
      /\ index >= 1 /\ index <= Len(j.request.files) /\ pc = "rbWrite"
  BY DEF RollbackWrite, RollbackPhases, Served, MemoryTypes, ControlOK, RollbackOK
<1>2. j.request \in Requests /\ Len(j.request.files) \in Nat
  BY <1>1, JournalParts, JournalFiles
<1>3. index \in 1..Len(j.request.files)
  BY <1>1, <1>2
<1>4. target \in Workspaces /\ restoring.path \in Paths
  BY <1>1, <1>3, JournalFiles DEF restoring, journal
<1>5. w = target /\ p = restoring.path
  BY <1>4 DEF RollbackWrite, Stored, DurableTypes
<1>6. index \in {n \in DOMAIN j.request.files : j.request.files[n].path = p}
  BY <1>2, <1>3, <1>5, FilesDomain DEF restoring, journal
<1>7. seen = j.request.files[index].content \/ seen = j.previous[p]
  BY <1>1, <1>5 DEF FInv, SeenOK, restoring, before, journal
<1> QED
  BY <1>1, <1>5, <1>6, <1>7 DEF Accounted

(* A file is replaced only after it was found to be a revision the         *)
(* operation accounts for, by the commit and by its rollback; and secrets  *)
(* are published only over files that were verified to be in place.        *)
THEOREM FilesBeforeSecrets == Spec => FilesFollowCommits
<1> DEFINE A == \A w \in Workspaces, p \in Paths :
                  (disk'[w][p] # disk[w][p] /\ budget'.edits = budget.edits) =>
                    /\ pending[w] # None
                    /\ seen \in Accounted(pending[w], p)
           B == \A o \in OpIds :
                  (pc = "publish" /\ call.op = o /\ ops[o].state # "committed"
                     /\ ops'[o].state = "committed") =>
                    \A k \in DOMAIN req.files :
                      LET c == req.files[k] IN
                        <<req.scope, c.path>> \notin late => disk[req.scope][c.path] = c.content
<1>1. IInv /\ FInv /\ [Next]_vars => [A]_vars
  <2> SUFFICES ASSUME IInv, FInv, Next, NEW w \in Workspaces, NEW p \in Paths,
                      disk'[w][p] # disk[w][p], budget'.edits = budget.edits
               PROVE  pending[w] # None /\ seen \in Accounted(pending[w], p)
    OBVIOUS
  <2>1. Stored /\ Served /\ Around
    BY Parts
  <2>2. ASSUME NEW v \in Workspaces, NEW q \in Paths, NEW c \in File,
               ExternalEdit(v, q, c)
        PROVE  FALSE
    BY <2>1, <2>2 DEF ExternalEdit, Around
  <2>3. ApplyWrite \/ RollbackWrite
    BY <2>2, WhoWritesFiles
  <2> QED
    BY <2>1, <2>3, ApplyWriteCompared, RollbackWriteCompared
<1>2. IInv /\ FInv => [B]_vars
  <2> SUFFICES ASSUME IInv, FInv, pc = "publish", NEW k \in DOMAIN req.files,
                      <<req.scope, req.files[k].path>> \notin late
               PROVE  disk[req.scope][req.files[k].path] = req.files[k].content
    OBVIOUS
  <2>1. req \in Requests
    BY Parts, Committing DEF StagedPhases
  <2>2. k \in 1..Len(req.files)
    BY <2>1, FilesDomain
  <2> QED
    BY <2>2 DEF FInv, AppliedOK, Verified, StagedPhases
<1> QED
  BY <1>1, <1>2, FileInvariance, PTL DEF Spec, FilesFollowCommits,
     OnlyComparedFilesReplaced, PublishedFilesInPlace

(* A load that ends neither in a crash nor as degraded was served.         *)
LEMMA RecoveredLoadServed ==
  ASSUME Served, Next, call.kind = "load", view' = "recovered",
         pc # "idle", pc' = "idle"
  PROVE  pc = "serve"
<1>1. /\ pc \notin {"admit", "secrets"} \cup PreparingPhases \cup StagedPhases
      /\ ~RecoveryFailed /\ ~RollbackConflict
  BY DEF Served, ControlOK, CallOK, RecoveryFailed, AfterFailure, RollbackConflict
<1>2. pc \in RollbackPhases => inRecovery
  BY DEF Served, ControlOK, StagedOK
<1>3. ~(Open \/ DegradedLoad \/ BeginLoad \/ BeginStatus \/ RetryProtectedStorage)
  BY DEF Open, DegradedLoad, BeginLoad, BeginStatus, RetryProtectedStorage
<1>4. ASSUME NEW o \in OpIds, NEW r \in Requests, BeginCommit(o, r) PROVE FALSE
  BY <1>4 DEF BeginCommit
<1>5. ASSUME NEW w \in Workspaces, NEW p \in Paths, NEW c \in File,
             ExternalEdit(w, p, c)
      PROVE  FALSE
  BY <1>5 DEF ExternalEdit, control
<1>6. ~Crash
  BY DEF Crash
<1>7. ~Fault
  BY <1>1 DEF Fault, PreparingPhases, StagedPhases
<1>8. ASSUME NEW fault \in BOOLEAN, Publish(fault) PROVE FALSE
  BY <1>1, <1>8 DEF Publish, StagedPhases
<1>9. CASE Step
  <2>1. ASSUME NEW s \in Scopes, RecoverNext(s) PROVE FALSE
    BY <2>1 DEF RecoverNext, Goto
  <2>2. ~RecoverGlobal /\ ~RecoverDone
    BY <1>1 DEF RecoverGlobal, RecoverDone, Goto
  <2>3. ~RollbackRead /\ ~RollbackCheck /\ ~RollbackWrite
    BY <1>1 DEF RollbackRead, RollbackCheck, RollbackWrite, Goto
  <2>4. ~FinishRollback
    BY <1>2 DEF FinishRollback, Goto, RollbackPhases
  <2>5. ~(Admit \/ CommitSecrets \/ Prepare \/ Backup \/ Stage)
    BY <1>1 DEF Admit, CommitSecrets, Prepare, Backup, Stage, PreparingPhases
  <2>6. ~(Preflight("preflight", "prepare") \/ Preflight("recheck", "stage"))
    BY <1>1 DEF Preflight, PreparingPhases
  <2>7. ~(MarkApplying \/ ApplyCheck \/ ApplyWrite \/ Verify)
    BY <1>1 DEF MarkApplying, ApplyCheck, ApplyWrite, Verify, StagedPhases
  <2> QED
    BY <1>8, <1>9, <2>1, <2>2, <2>3, <2>4, <2>5, <2>6, <2>7 DEF Step, Return
<1> QED
  BY <1>3, <1>4, <1>5, <1>6, <1>7, <1>8, <1>9 DEF Next

(* No journal that could be read is left when a commit stages its own, or  *)
(* when a load passes its files off as recovered: a load whose recovery    *)
(* failed is answered too, and says so.                                    *)
THEOREM RecoveryFirst == Spec => RecoveryPrecedesCommit
<1> DEFINE A == /\ (pc = "stage" /\ pc' = "begin") =>
                     \A s \in Scopes : pending[s] # None =>
                       ~unlocked /\ Sealed(pending[s].request)
                /\ (view' = "recovered" /\ pc # "idle" /\ pc' = "idle"
                    /\ call.kind = "load" /\ unlocked) =>
                     \A s \in Scopes : pending[s] = None
<1>1. IInv /\ FInv /\ Next => A
  <2>1. FInv /\ pc = "stage" => Visible = {}
    BY DEF FInv, RecoveredOK, PreparingPhases
  <2>2. FInv /\ pc = "serve" /\ call.kind = "load" => Visible = {}
    BY DEF FInv, RecoveredOK
  <2>3. IInv => Served
    BY Parts
  <2> QED
    BY <2>1, <2>2, <2>3, RecoveredLoadServed DEF Visible
<1>2. IInv /\ FInv /\ [Next]_vars => [A]_vars
  BY <1>1
<1> QED
  BY <1>2, FileInvariance, PTL DEF Spec, RecoveryPrecedesCommit

-----------------------------------------------------------------------------
(* The refinement of CommitLedger *)

Files == [w \in Workspaces |-> [p \in Paths |-> RecoveredFile(w, p)]]
Outcomes == [o \in OpIds |-> Resolved(o)]

(* The kind of a commit is the kind of its request. *)
KindOK == call.kind \in {"commit", "secrets"} => req.kind = call.kind

\* A call takes the kind of the request it is given.
LEMMA KindStep ==
  ASSUME KindOK, [Next]_vars
  PROVE  KindOK'
<1> USE DEF RecoveryFailed, AfterFailure, Answer, Release, AbortPrepared, Refuse,
            StartRollback, RollbackConflict, memory, NoCall, KindOK, req
<1>1. CASE Open \/ DegradedLoad \/ BeginLoad \/ BeginStatus
  BY <1>1 DEF Open, DegradedLoad, control, BeginLoad, BeginStatus, Serve
<1>2. ASSUME NEW o \in OpIds, NEW r \in Requests, BeginCommit(o, r)
      PROVE  KindOK'
  BY <1>2 DEF BeginCommit, Serve
<1>3. CASE Step
  <2>1. ASSUME NEW s \in Scopes, RecoverNext(s) PROVE KindOK'
    BY <2>1 DEF RecoverNext
  <2>2. CASE RecoverGlobal \/ RecoverDone \/ Return
    BY <2>2 DEF RecoverGlobal, RecoverDone, Return
  <2>3. CASE RollbackRead \/ RollbackCheck \/ RollbackWrite \/ FinishRollback
    BY <2>3 DEF RollbackRead, RollbackCheck, RollbackWrite, FinishRollback
  <2>4. CASE Admit \/ Prepare \/ Backup \/ Stage \/ MarkApplying
    BY <2>4 DEF Admit, Prepare, Backup, Stage, MarkApplying
  <2>5. CASE Preflight("preflight", "prepare") \/ Preflight("recheck", "stage")
    BY <2>5 DEF Preflight
  <2>6. CASE ApplyCheck \/ ApplyWrite \/ Verify
    BY <2>6 DEF ApplyCheck, ApplyWrite, Verify
  <2>7. CASE Publish(FALSE) \/ CommitSecrets
    BY <2>7 DEF Publish, CommitSecrets
  <2> QED
    BY <1>3, <2>1, <2>2, <2>3, <2>4, <2>5, <2>6, <2>7 DEF Step
<1>4. CASE Publish(TRUE) \/ Fault
  <2>1. UNCHANGED call \/ call'.kind = "none"
    BY <1>4 DEF Publish, Fault
  <2> QED
    BY <2>1
<1>5. CASE Crash \/ RetryProtectedStorage
  <2>1. CASE Crash
    BY <2>1 DEF Crash
  <2>2. CASE RetryProtectedStorage
    BY <2>2 DEF RetryProtectedStorage
  <2> QED
    BY <1>5, <2>1, <2>2
<1>6. ASSUME NEW w \in Workspaces, NEW p \in Paths, NEW c \in File, ExternalEdit(w, p, c)
      PROVE  KindOK'
  BY <1>6 DEF ExternalEdit
<1>7. CASE UNCHANGED vars
  BY <1>7 DEF vars
<1> QED
  BY <1>1, <1>2, <1>3, <1>4, <1>5, <1>6, <1>7 DEF Next

(* The steps of the ledger, in terms of the mapping.                       *)
LedgerStep == Ledger!Next \/ UNCHANGED Ledger!vars

\* A step that the ledger does not see.
LEMMA LedgerStutter ==
  ASSUME Files' = Files, Outcomes' = Outcomes, UNCHANGED <<edited, records, secrets>>
  PROVE  LedgerStep
BY DEF LedgerStep, Ledger!vars, Files, Outcomes

\* An operation that ends as aborted and leaves no other trace.
LEMMA LedgerAbort ==
  ASSUME NEW o \in OpIds, NEW r \in Requests, Outcomes[o] = Missing,
         Outcomes' = [Outcomes EXCEPT ![o] = [state |-> "aborted", request |-> r]],
         Files' = Files, UNCHANGED <<edited, records, secrets>>
  PROVE  LedgerStep
<1>1. Ledger!Abort(o, r)
  BY DEF Ledger!Abort, Files, Outcomes
<1> QED
  BY <1>1 DEF LedgerStep, Ledger!Next

\* A change from outside is the ledger's edit.
LEMMA LedgerEdit ==
  ASSUME NEW w \in Workspaces, NEW p \in Paths, NEW c \in File,
         Files' = [Files EXCEPT ![w][p] = c], edited' = edited \cup {<<w, p>>},
         Outcomes' = Outcomes, UNCHANGED <<records, secrets>>
  PROVE  LedgerStep
<1>1. Ledger!Edit(w, p, c)
  BY DEF Ledger!Edit, Files, Outcomes
<1> QED
  BY <1>1 DEF LedgerStep, Ledger!Next, File

\* A file edited from outside counts as the project's own again.
LEMMA LedgerBaseline ==
  ASSUME NEW w \in Workspaces, NEW p \in Paths,
         edited' = edited \ {<<w, p>>}, Files' = Files, Outcomes' = Outcomes,
         UNCHANGED <<records, secrets>>
  PROVE  LedgerStep
<1>1. Ledger!Baseline(w, p)
  BY DEF Ledger!Baseline, Files, Outcomes
<1> QED
  BY <1>1 DEF LedgerStep, Ledger!Next

(* What a reader sees of the receipts and of the files.                    *)
LEMMA OutcomesKept ==
  ASSUME UNCHANGED ops
  PROVE  Outcomes' = Outcomes
BY DEF Outcomes, Resolved

\* What is in progress shows no receipt.
LEMMA UnresolvedHidden ==
  ASSUME Stored, NEW o \in OpIds, NEW r \in Requests,
         NEW state \in {"prepared", "applying", "recovery-required"},
         ops[o] = Missing \/ ops[o].state \notin Terminal,
         ops' = RecordOperation(o, state, r)
  PROVE  Outcomes' = Outcomes
<1>1. /\ \A x \in OpIds : x # o => ops'[x] = ops[x]
      /\ ops'[o].state = state
  BY RecordOperationType DEF Stored, DurableTypes
<1>2. state \notin Terminal
  BY DEF Terminal
<1>3. ASSUME NEW x \in OpIds PROVE Resolved(x)' = Resolved(x)
  BY <1>1, <1>2 DEF Resolved
<1> QED
  BY <1>3 DEF Outcomes

\* Recording how an operation ended adds that receipt and no other.
LEMMA ResolvedOnce ==
  ASSUME Stored, NEW o \in OpIds, NEW r \in Requests, NEW state \in Terminal,
         ops[o] = Missing \/ ops[o].state \notin Terminal,
         ops' = RecordOperation(o, state, r)
  PROVE  /\ Outcomes[o] = Missing
         /\ Outcomes' = [Outcomes EXCEPT ![o] = [state |-> state, request |-> r]]
<1> DEFINE receipt == [state |-> state, request |-> r]
<1>1. /\ ops' = [ops EXCEPT ![o] = receipt]
      /\ receipt \in Operation
  BY DEF RecordOperation, Operation, Terminal
<1>2. /\ ops'[o] = receipt
      /\ \A x \in OpIds : x # o => ops'[x] = ops[x]
  BY <1>1 DEF Stored, DurableTypes
<1>3. receipt # Missing /\ receipt.state \in Terminal
  BY <1>1, NoneApart
<1>4. Resolved(o) = Missing /\ Resolved(o)' = receipt
  BY <1>2, <1>3 DEF Resolved
<1>5. ASSUME NEW x \in OpIds, x # o PROVE Resolved(x)' = Resolved(x)
  BY <1>2, <1>5 DEF Resolved
<1> QED
  BY <1>4, <1>5 DEF Outcomes

\* Files that are not written stay in the ledger.
LEMMA FilesAreKept ==
  ASSUME UNCHANGED <<disk, edited, pending>>
  PROVE  Files' = Files
BY DEF Files, RecoveredFile, ChangedFiles

(* Commands that change nothing a reader sees.                             *)
LEMMA QuietLedger ==
  ASSUME UNCHANGED <<durable, edited>>
  PROVE  LedgerStep
BY FilesAreKept, OutcomesKept, LedgerStutter DEF durable

\* Giving up on an edited file leaves the ledger as it is.
LEMMA RollbackConflictLedger ==
  ASSUME Stored, Served, pc \in RollbackPhases, RollbackConflict
  PROVE  LedgerStep
<1>1. target \in Scopes /\ pending[target] # None
  BY DEF Served, MemoryTypes, ControlOK, RollbackOK
<1>2. UNCHANGED <<disk, edited, pending, records, secrets>>
  BY DEF RollbackConflict, RecoveryFailed, AfterFailure, Answer, observed
<1>3. Outcomes' = Outcomes
  BY <1>1, JournalParts, UnresolvedHidden DEF RollbackConflict, journal
<1> QED
  BY <1>2, <1>3, FilesAreKept, LedgerStutter

\* Giving up a commit that has no journal is the ledger's abort.
LEMMA AbortPreparedLedger ==
  ASSUME Stored, call.op \in OpIds, req \in Requests, ops[call.op] = Missing,
         AbortPrepared
  PROVE  LedgerStep
<1>1. UNCHANGED <<disk, edited, pending, records, secrets>>
  BY DEF AbortPrepared, Answer
<1>2. /\ Outcomes[call.op] = Missing
      /\ Outcomes' = [Outcomes EXCEPT ![call.op] = [state |-> "aborted", request |-> req]]
  BY ResolvedOnce DEF AbortPrepared, Terminal
<1> QED
  BY <1>1, <1>2, FilesAreKept, LedgerAbort

(* A write of ours to a file of the journal shows only if another program  *)
(* had saved the file.                                                     *)
LEMMA OwnWriteLedger ==
  ASSUME Stored, NEW w \in Workspaces, NEW p \in Paths, NEW c \in File,
         pending[w] # None, p \in ChangedFiles(pending[w]),
         disk' = [disk EXCEPT ![w][p] = c],
         UNCHANGED <<records, secrets, ops, pending, edited>>
  PROVE  LedgerStep
<1>1. /\ disk'[w][p] = c
      /\ \A v \in Workspaces, q \in Paths :
           v # w \/ q # p => disk'[v][q] = disk[v][q]
  BY DEF Stored, DurableTypes
<1>2. \A v \in Workspaces, q \in Paths :
        v # w \/ q # p => RecoveredFile(v, q)' = RecoveredFile(v, q)
  BY <1>1 DEF RecoveredFile, ChangedFiles
<1>3. CASE Foreign(w, p)
  <2>1. RecoveredFile(w, p)' = c
    BY <1>1, <1>3 DEF RecoveredFile, Foreign
  <2>2. Files' = [Files EXCEPT ![w][p] = c]
    BY <1>2, <2>1 DEF Files
  <2>3. edited' = edited \cup {<<w, p>>}
    BY <1>3 DEF Foreign
  <2> QED
    BY <2>2, <2>3, OutcomesKept, LedgerEdit
<1>4. CASE ~Foreign(w, p)
  <2>1. RecoveredFile(w, p)' = RecoveredFile(w, p)
    BY <1>4 DEF RecoveredFile, ChangedFiles, Foreign
  <2>2. Files' = Files
    BY <1>2, <2>1 DEF Files
  <2> QED
    BY <2>2, OutcomesKept, LedgerStutter
<1> QED
  BY <1>3, <1>4

\* Putting a file back is no step of the ledger.
LEMMA RollbackWriteLedger ==
  ASSUME Stored, Served, RollbackWrite
  PROVE  LedgerStep
<1> DEFINE j == pending[target]
<1>1. /\ target \in Scopes /\ j # None /\ index \in Nat
      /\ index >= 1 /\ index <= Len(j.request.files)
  BY DEF RollbackWrite, RollbackPhases, Served, MemoryTypes, ControlOK, RollbackOK
<1>2. j.request \in Requests /\ Len(j.request.files) \in Nat
  BY <1>1, JournalParts, JournalFiles
<1>3. index \in 1..Len(j.request.files)
  BY <1>1, <1>2
<1>4. /\ target \in Workspaces /\ restoring.path \in Paths
      /\ before \in File
  BY <1>1, <1>3, JournalFiles DEF restoring, before, journal
<1>5. restoring.path \in ChangedFiles(j)
  BY <1>2, <1>3, FilesDomain DEF ChangedFiles, restoring, journal
<1> QED
  BY <1>1, <1>4, <1>5, OwnWriteLedger DEF RollbackWrite, observed

\* Replacing a file is no step of the ledger while its journal is there.
LEMMA ApplyWriteLedger ==
  ASSUME Stored, Served, ApplyWrite
  PROVE  LedgerStep
<1>1. pc = "applyWrite" /\ index \in 1..Len(req.files)
  <2>1. pc = "applyWrite" /\ index \in Nat /\ index >= 1 /\ index <= Len(req.files)
    BY DEF ApplyWrite, Served, MemoryTypes, ControlOK, IndexOK
  <2> QED
    BY <2>1, RequestFiles DEF StagedPhases
<1>2. /\ req \in Requests /\ req.scope \in Workspaces /\ change.path \in Paths
      /\ change.content \in File
      /\ pending[req.scope] # None /\ pending[req.scope].request = req
  BY <1>1, Committing DEF StagedPhases
<1>3. change.path \in ChangedFiles(pending[req.scope])
  BY <1>1, <1>2, FilesDomain DEF ChangedFiles, change
<1> QED
  BY <1>2, <1>3, OwnWriteLedger DEF ApplyWrite, observed

(* The journal is dropped when every file is as it remembers it.           *)
LEMMA FinishRollbackLedger ==
  ASSUME Stored, Served, FInv, FinishRollback
  PROVE  LedgerStep
<1> DEFINE j == pending[target]
<1>1. /\ pc = "rbEnd" /\ target \in Scopes /\ j # None
      /\ UNCHANGED <<disk, edited, records, secrets>>
      /\ pending' = [pending EXCEPT ![target] = None]
      /\ ops' = RecordOperation(j.op, "aborted", j.request)
  BY DEF FinishRollback, Answer, observed, journal, RollbackPhases, Served,
     MemoryTypes, ControlOK, RollbackOK
<1>2. /\ j.op \in OpIds /\ j.request \in Requests
      /\ ops[j.op].state \notin Terminal
  BY <1>1, JournalParts
<1>3. /\ Outcomes[j.op] = Missing
      /\ Outcomes' = [Outcomes EXCEPT ![j.op] = [state |-> "aborted", request |-> j.request]]
  BY <1>1, <1>2, ResolvedOnce DEF Terminal
<1>4. /\ pending'[target] = None
      /\ \A s \in Scopes : s # target => pending'[s] = pending[s]
  BY <1>1 DEF Stored, DurableTypes
<1>5. ASSUME NEW w \in Workspaces, NEW p \in Paths
      PROVE  RecoveredFile(w, p)' = RecoveredFile(w, p)
  <2>1. CASE w # target
    <3>1. pending'[w] = pending[w]
      BY <1>4, <2>1 DEF Scopes
    <3> QED
      BY <1>1, <3>1 DEF RecoveredFile, ChangedFiles
  <2>2. CASE w = target /\ p \in ChangedFiles(j) /\ ~Foreign(w, p)
    <3>1. PICK k \in 1..Len(j.request.files) : j.request.files[k].path = p
      BY <1>2, <2>2, FilesDomain DEF ChangedFiles
    <3>2. index = 0 /\ k > index
      BY <1>1 DEF FInv, RestoredOK, RollbackPhases
    <3>3. disk[w][p] = j.previous[p]
      BY <1>1, <2>2, <3>1, <3>2 DEF FInv, RestoredOK, RollbackPhases, journal
    <3> QED
      BY <1>1, <1>4, <2>2, <3>3 DEF RecoveredFile, Foreign
  <2>3. CASE w = target /\ ~(p \in ChangedFiles(j) /\ ~Foreign(w, p))
    BY <1>1, <1>4, <2>3 DEF RecoveredFile, Foreign
  <2> QED
    BY <2>1, <2>2, <2>3
<1>6. Files' = Files
  BY <1>5 DEF Files
<1> QED
  BY <1>1, <1>2, <1>3, <1>6, LedgerAbort

\* Reading a file for its copy takes it into the project again, if anything.
LEMMA BackupLedger ==
  ASSUME Stored, Served, Backup
  PROVE  LedgerStep
<1>1. pc = "backup" /\ UNCHANGED durable
  BY DEF Backup
<1>2. CASE UNCHANGED edited
  BY <1>1, <1>2, QuietLedger
<1>3. CASE ~UNCHANGED edited
  <2>1. /\ ~pastLast /\ pending[req.scope] = None
        /\ edited' = edited \ {<<req.scope, change.path>>}
    BY <1>3 DEF Backup
  <2>2. index \in 1..Len(req.files)
    <3>1. index \in Nat /\ index >= 1 /\ Len(req.files) \in Nat
      BY <1>1, RequestFiles DEF PreparingPhases, Served, MemoryTypes, ControlOK,
         IndexOK
    <3> QED
      BY <2>1, <3>1 DEF pastLast
  <2>3. req.scope \in Workspaces /\ change.path \in Paths
    BY <1>1, <2>2, Committing DEF PreparingPhases
  <2>4. ASSUME NEW w \in Workspaces, NEW p \in Paths
        PROVE  RecoveredFile(w, p)' = RecoveredFile(w, p)
    BY <1>1, <2>1 DEF RecoveredFile, ChangedFiles, durable
  <2>5. Files' = Files
    BY <2>4 DEF Files
  <2> QED
    BY <1>1, <2>1, <2>3, <2>5, OutcomesKept, LedgerBaseline DEF durable
<1> QED
  BY <1>2, <1>3

(* Staging is invisible: the journal remembers the files as they are.      *)
LEMMA StageLedger ==
  ASSUME Stored, Served, FInv, Stage
  PROVE  LedgerStep
<1>1. /\ pc = "stage" /\ call.op \in OpIds /\ req \in Requests /\ req.scope \in Scopes
      /\ ops[call.op] = Missing
  BY Committing DEF Stage, PreparingPhases, Served, ControlOK, CallOK
<1>2. CASE Refuse
  BY <1>2, QuietLedger DEF Refuse, Answer
<1>3. CASE ~Refuse
  <2> DEFINE new == [op |-> call.op, request |-> req, previous |-> backup]
  <2>1. /\ UNCHANGED <<disk, edited, records, secrets>>
        /\ pending[req.scope] = None
        /\ pending' = [pending EXCEPT ![req.scope] = new]
        /\ ops' = RecordOperation(call.op, "prepared", req)
    BY <1>3 DEF Stage, StageIsFree, observed
  <2>2. Outcomes' = Outcomes
    BY <1>1, <2>1, UnresolvedHidden
  <2>3. /\ pending'[req.scope] = new
        /\ \A s \in Scopes : s # req.scope => pending'[s] = pending[s]
    BY <1>1, <2>1 DEF Stored, DurableTypes
  <2>4. ASSUME NEW w \in Workspaces, NEW p \in Paths
        PROVE  RecoveredFile(w, p)' = RecoveredFile(w, p)
    <3>1. CASE w # req.scope
      <4>1. pending'[w] = pending[w]
        BY <2>3, <3>1 DEF Scopes
      <4> QED
        BY <2>1, <4>1 DEF RecoveredFile, ChangedFiles
    <3>2. CASE w = req.scope /\ p \in ChangedFiles(new) /\ ~Foreign(w, p)
      <4>1. PICK k \in 1..Len(req.files) : req.files[k].path = p
        BY <1>1, <3>2, FilesDomain DEF ChangedFiles
      <4>2. backup[p] = disk[w][p]
        BY <1>1, <2>1, <3>2, <4>1 DEF FInv, BackupOK, BackedUp, PreparingPhases
      <4>3. RecoveredFile(w, p) = disk[w][p]
        BY <2>1, <3>2 DEF RecoveredFile
      <4>4. RecoveredFile(w, p)' \in {backup[p], disk[w][p]}
        BY <2>1, <2>3, <3>2 DEF RecoveredFile
      <4> QED
        BY <4>2, <4>3, <4>4
    <3>3. CASE w = req.scope /\ ~(p \in ChangedFiles(new) /\ ~Foreign(w, p))
      <4>1. RecoveredFile(w, p) = disk[w][p]
        BY <2>1, <3>3 DEF RecoveredFile
      <4>2. RecoveredFile(w, p)' = disk[w][p]
        BY <2>1, <2>3, <3>3 DEF RecoveredFile, ChangedFiles, Foreign
      <4> QED
        BY <4>1, <4>2
    <3> QED
      BY <3>1, <3>2, <3>3
  <2>5. Files' = Files
    BY <2>4 DEF Files
  <2> QED
    BY <2>1, <2>2, <2>5, LedgerStutter
<1> QED
  BY <1>2, <1>3

\* Going on to the files is no step of the ledger.
LEMMA MarkApplyingLedger ==
  ASSUME Stored, Served, MarkApplying
  PROVE  LedgerStep
<1>1. /\ pc = "begin" /\ UNCHANGED <<disk, edited, pending, records, secrets>>
      /\ ops' = RecordOperation(call.op, "applying", req)
  BY DEF MarkApplying
<1>2. /\ call.op \in OpIds /\ req \in Requests /\ req.scope \in Scopes
      /\ pending[req.scope] # None /\ pending[req.scope].op = call.op
  BY <1>1, Committing DEF StagedPhases
<1>3. ops[call.op].state \notin Terminal
  BY <1>2, JournalParts
<1> QED
  BY <1>1, <1>2, <1>3, UnresolvedHidden, FilesAreKept, LedgerStutter

(* The step in which a commit with files, record and secrets is published. *)
LEMMA PublishLedger ==
  ASSUME Stored, Served, FInv, KindOK, NEW fault \in BOOLEAN, Publish(fault)
  PROVE  LedgerStep
<1>1. pc = "publish"
  BY DEF Publish
<1>2. CASE StartRollback
  BY <1>2, QuietLedger DEF StartRollback, observed
<1>3. CASE ~StartRollback
  <2> DEFINE j == pending[req.scope]
  <2>1. /\ Publishable(req) /\ UNCHANGED <<disk, edited>>
        /\ records' = WriteRecords(req) /\ secrets' = ApplyMutations(req)
        /\ ops' = RecordOperation(call.op, "committed", req)
        /\ pending' = [pending EXCEPT ![req.scope] = None]
    BY <1>3 DEF Publish, Answer
  <2>2. /\ call.op \in OpIds /\ req \in Requests /\ req.scope \in Scopes
        /\ j # None /\ j.op = call.op /\ j.request = req
        /\ Valid(req)
    BY <1>1, Committing DEF StagedPhases, FInv, RequestsOK
  <2>3. ops[call.op].state \notin Terminal
    BY <2>2, JournalParts
  <2>4. /\ Outcomes[call.op] = Missing
        /\ Outcomes' = [Outcomes EXCEPT ![call.op] = [state |-> "committed", request |-> req]]
    BY <2>1, <2>2, <2>3, ResolvedOnce DEF Terminal
  <2>5. /\ pending'[req.scope] = None
        /\ \A s \in Scopes : s # req.scope => pending'[s] = pending[s]
    BY <2>1, <2>2 DEF Stored, DurableTypes
  <2>6. DOMAIN req.files = 1..Len(req.files)
    BY <2>2, FilesDomain
  <2>7. ASSUME NEW w \in Workspaces, NEW k \in DOMAIN req.files, req.scope = w,
               <<w, req.files[k].path>> \notin edited
        PROVE  /\ Files[w][req.files[k].path] = req.files[k].expected
               /\ disk[w][req.files[k].path] = req.files[k].content
    <3>1. req.files[k].path \in Paths /\ req.files[k].path \in ChangedFiles(j)
      BY <1>1, <2>2, <2>6, RequestFiles DEF StagedPhases, ChangedFiles
    <3>2. j.previous[req.files[k].path] = req.files[k].expected
      BY <2>2, <2>6, <2>7 DEF FInv, CoveredOK, CoveredBy, Foreign
    <3>3. disk[w][req.files[k].path] = req.files[k].content
      BY <1>1, <2>6, <2>7 DEF FInv, AppliedOK, Applied, StagedPhases, Foreign
    <3> QED
      BY <2>2, <2>7, <3>1, <3>2, <3>3 DEF Files, RecoveredFile
  <2>8. ASSUME NEW w \in Workspaces, NEW p \in Paths
        PROVE  RecoveredFile(w, p)' =
                 IF \E k \in Ledger!Uncontested(req, w) : req.files[k].path = p
                   THEN req.files[CHOOSE k \in Ledger!Uncontested(req, w) :
                                    req.files[k].path = p].content
                   ELSE RecoveredFile(w, p)
    <3>1. CASE req.scope # w
      <4>1. Ledger!Uncontested(req, w) = {}
        BY <3>1 DEF Ledger!Uncontested
      <4>2. pending'[w] = pending[w]
        BY <2>5, <3>1 DEF Scopes
      <4>3. RecoveredFile(w, p)' = RecoveredFile(w, p)
        BY <2>1, <4>2 DEF RecoveredFile, ChangedFiles
      <4> QED
        BY <4>1, <4>3
    <3>2. CASE req.scope = w /\ \E k \in Ledger!Uncontested(req, w) : req.files[k].path = p
      <4> DEFINE n == CHOOSE k \in Ledger!Uncontested(req, w) : req.files[k].path = p
      <4>1. n \in Ledger!Uncontested(req, w) /\ req.files[n].path = p
        BY <3>2
      <4>2. disk[w][p] = req.files[n].content
        BY <2>7, <3>2, <4>1 DEF Ledger!Uncontested
      <4>3. RecoveredFile(w, p)' = disk[w][p]
        BY <2>1, <2>5, <3>2 DEF RecoveredFile
      <4> QED
        BY <3>2, <4>2, <4>3
    <3>3. CASE req.scope = w /\ ~\E k \in Ledger!Uncontested(req, w) : req.files[k].path = p
      <4>1. ~(p \in ChangedFiles(j) /\ <<w, p>> \notin edited)
        BY <2>2, <3>3 DEF ChangedFiles, Ledger!Uncontested
      <4>2. RecoveredFile(w, p) = disk[w][p]
        BY <3>3, <4>1 DEF RecoveredFile
      <4>3. RecoveredFile(w, p)' = disk[w][p]
        BY <2>1, <2>5, <3>3 DEF RecoveredFile
      <4> QED
        BY <3>3, <4>2, <4>3
    <3> QED
      BY <3>1, <3>2, <3>3
  <2>9. Files' = Ledger!NewFiles(req)
    BY <2>8 DEF Files, Ledger!NewFiles
  <2>10. records' = Ledger!NewRecords(req) /\ secrets' = Ledger!NewSecrets(req)
    BY <2>1 DEF WriteRecords, ApplyMutations, Ledger!NewRecords, Ledger!NewSecrets
  <2>11. /\ req.kind = "commit" => \A m \in req.mutations : Owner[m.ref] = req.scope
         /\ \A m \in req.mutations : secrets[m.ref].revision = m.expected
    BY <2>1, <2>2 DEF Valid, Publishable
  <2>12. \A w \in Workspaces : \A k \in Ledger!Uncontested(req, w) :
           Files[w][req.files[k].path] = req.files[k].expected
    BY <2>7 DEF Ledger!Uncontested
  <2>13. Ledger!Commit(call.op, req)
    BY <2>1, <2>4, <2>9, <2>10, <2>11, <2>12 DEF Ledger!Commit, Files, Outcomes
  <2> QED
    BY <2>2, <2>13 DEF LedgerStep, Ledger!Next
<1> QED
  BY <1>2, <1>3

(* A batch of secrets is committed without files or records.               *)
LEMMA CommitSecretsLedger ==
  ASSUME Stored, Served, KindOK, CommitSecrets
  PROVE  LedgerStep
<1>1. /\ pc = "secrets" /\ call.op \in OpIds /\ req \in Requests
      /\ req.kind = "secrets"
  BY DEF CommitSecrets, Served, ControlOK, CallOK, KindOK, req
<1>2. req.files = << >> /\ req.record = Keep
  BY <1>1, RequestsAssumption
<1>3. CASE Refuse \/ (UNCHANGED durable /\ Answer(Replay(call.op)))
  BY <1>3, QuietLedger DEF Refuse, Answer
<1>4. CASE ops[call.op] = Missing /\ AbortPrepared
  BY <1>1, <1>4, AbortPreparedLedger
<1>5. CASE /\ Valid(req) /\ ops[call.op] = Missing /\ Publishable(req)
           /\ secrets' = ApplyMutations(req)
           /\ ops' = RecordOperation(call.op, "committed", req)
           /\ Answer("ok")
           /\ UNCHANGED <<disk, records, pending>>
  <2>1. /\ Outcomes[call.op] = Missing
        /\ Outcomes' = [Outcomes EXCEPT ![call.op] = [state |-> "committed", request |-> req]]
    BY <1>1, <1>5, ResolvedOnce DEF Terminal
  <2>2. UNCHANGED edited /\ Files' = Files
    BY <1>5, FilesAreKept DEF Answer
  <2>3. \A w \in Workspaces : Ledger!Uncontested(req, w) = {}
    BY <1>2 DEF Ledger!Uncontested
  <2>4. Files' = Ledger!NewFiles(req)
    BY <2>2, <2>3 DEF Files, Ledger!NewFiles
  <2>5. records' = Ledger!NewRecords(req) /\ secrets' = Ledger!NewSecrets(req)
    BY <1>2, <1>5 DEF ApplyMutations, Ledger!NewRecords, Ledger!NewSecrets
  <2>6. /\ req.kind = "commit" => \A m \in req.mutations : Owner[m.ref] = req.scope
        /\ \A m \in req.mutations : secrets[m.ref].revision = m.expected
    BY <1>5 DEF Valid, Publishable
  <2>7. Ledger!Commit(call.op, req)
    BY <2>1, <2>2, <2>3, <2>4, <2>5, <2>6 DEF Ledger!Commit, Files, Outcomes
  <2> QED
    BY <1>1, <2>7 DEF LedgerStep, Ledger!Next
<1> QED
  BY <1>3, <1>4, <1>5 DEF CommitSecrets

\* Before the copies are taken the ledger sees a refusal or nothing.
LEMMA PreparingLedger ==
  ASSUME Stored, Served,
         \/ Admit \/ Prepare
         \/ Preflight("preflight", "prepare") \/ Preflight("recheck", "stage")
         \/ pc \in PreparingPhases /\ AbortPrepared
  PROVE  LedgerStep
<1>1. pc \in {"admit"} \cup PreparingPhases
  BY DEF Admit, Prepare, Preflight, PreparingPhases
<1>2. /\ call.op \in OpIds /\ req \in Requests
      /\ pc \in PreparingPhases => ops[call.op] = Missing
  BY <1>1, Committing DEF Served, ControlOK, CallOK
<1>3. CASE UNCHANGED <<durable, edited>>
  BY <1>3, QuietLedger
<1>4. CASE ops[call.op] = Missing /\ AbortPrepared
  BY <1>2, <1>4, AbortPreparedLedger
<1>5. UNCHANGED <<durable, edited>> \/ (ops[call.op] = Missing /\ AbortPrepared)
  <2>1. CASE Admit
    BY <2>1 DEF Admit, Refuse, Answer, observed
  <2>2. CASE Prepare
    BY <1>2, <2>2 DEF Prepare, observed, PreparingPhases
  <2>3. CASE Preflight("preflight", "prepare") \/ Preflight("recheck", "stage")
    BY <1>2, <2>3 DEF Preflight, observed, PreparingPhases
  <2>4. CASE pc \in PreparingPhases /\ AbortPrepared
    BY <1>2, <2>4
  <2> QED
    BY <2>1, <2>2, <2>3, <2>4
<1> QED
  BY <1>3, <1>4, <1>5

\* A failure is no step of the ledger, or its abort.
LEMMA FaultLedger ==
  ASSUME Stored, Served, Fault
  PROVE  LedgerStep
<1>1. CASE RecoveryFailed /\ UNCHANGED durable
  BY <1>1, QuietLedger DEF RecoveryFailed, AfterFailure, Answer, observed
<1>2. CASE pc \in RollbackPhases /\ RollbackConflict
  BY <1>2, RollbackConflictLedger
<1>3. CASE pc \in PreparingPhases /\ AbortPrepared
  BY <1>3, PreparingLedger
<1>4. CASE Refuse
  BY <1>4, QuietLedger DEF Refuse, Answer
<1>5. CASE StartRollback
  BY <1>5, QuietLedger DEF StartRollback, observed
<1> QED
  BY <1>1, <1>2, <1>3, <1>4, <1>5 DEF Fault, RollbackPhases, PreparingPhases

\* A change from outside is the ledger's, whatever commit is in progress.
LEMMA ExternalEditLedger ==
  ASSUME Stored, NEW w \in Workspaces, NEW p \in Paths, NEW c \in File,
         ExternalEdit(w, p, c)
  PROVE  LedgerStep
<1>1. /\ disk' = [disk EXCEPT ![w][p] = c] /\ edited' = edited \cup {<<w, p>>}
      /\ UNCHANGED <<records, secrets, ops, pending>>
  BY DEF ExternalEdit
<1>2. /\ disk'[w][p] = c
      /\ \A v \in Workspaces, q \in Paths :
           v # w \/ q # p => disk'[v][q] = disk[v][q]
  BY <1>1 DEF Stored, DurableTypes
<1>3. RecoveredFile(w, p)' = c
  BY <1>1, <1>2 DEF RecoveredFile
<1>4. ASSUME NEW v \in Workspaces, NEW q \in Paths, v # w \/ q # p
      PROVE  RecoveredFile(v, q)' = RecoveredFile(v, q)
  BY <1>1, <1>2, <1>4 DEF RecoveredFile, ChangedFiles
<1>5. Files' = [Files EXCEPT ![w][p] = c]
  BY <1>3, <1>4 DEF Files
<1> QED
  BY <1>1, <1>5, OutcomesKept, LedgerEdit

\* Every step is one of the ledger's or none.
LEMMA NextLedger ==
  ASSUME Stored, Served, FInv, KindOK, Next
  PROVE  LedgerStep
<1>1. CASE Open \/ DegradedLoad \/ BeginLoad \/ BeginStatus
  BY <1>1, QuietLedger DEF Open, DegradedLoad, BeginLoad, BeginStatus, Serve, observed
<1>2. ASSUME NEW o \in OpIds, NEW r \in Requests, BeginCommit(o, r)
      PROVE  LedgerStep
  BY <1>2, QuietLedger DEF BeginCommit, Serve, observed
<1>3. CASE Step
  <2>1. ASSUME NEW s \in Scopes, RecoverNext(s) PROVE LedgerStep
    BY <2>1, QuietLedger DEF RecoverNext, observed
  <2>2. CASE RecoverGlobal \/ RecoverDone \/ Return
    BY <2>2, QuietLedger DEF RecoverGlobal, RecoverDone, Return, RecoveryFailed,
       AfterFailure, Answer, observed
  <2>3. CASE RollbackRead \/ RollbackCheck
    <3>1. pc \in RollbackPhases
      BY <2>3 DEF RollbackRead, RollbackCheck, RollbackPhases
    <3>2. CASE RollbackConflict
      BY <3>1, <3>2, RollbackConflictLedger
    <3>3. CASE ~RollbackConflict
      BY <2>3, <3>3, QuietLedger DEF RollbackRead, RollbackCheck, observed
    <3> QED
      BY <3>2, <3>3
  <2>4. CASE RollbackWrite \/ FinishRollback
    BY <2>4, RollbackWriteLedger, FinishRollbackLedger
  <2>5. CASE Admit \/ Prepare \/ Preflight("preflight", "prepare")
               \/ Preflight("recheck", "stage")
    BY <2>5, PreparingLedger
  <2>6. CASE Backup \/ Stage \/ MarkApplying
    BY <2>6, BackupLedger, StageLedger, MarkApplyingLedger
  <2>7. CASE ApplyCheck \/ Verify
    <3>1. UNCHANGED <<durable, edited>>
      BY <2>7 DEF ApplyCheck, Verify, StartRollback, observed
    <3> QED
      BY <3>1, QuietLedger
  <2>8. CASE ApplyWrite
    BY <2>8, ApplyWriteLedger
  <2>9. CASE Publish(FALSE) \/ CommitSecrets
    BY <2>9, PublishLedger, CommitSecretsLedger
  <2> QED
    BY <1>3, <2>1, <2>2, <2>3, <2>4, <2>5, <2>6, <2>7, <2>8, <2>9 DEF Step
<1>4. CASE Publish(TRUE) \/ Fault
  BY <1>4, PublishLedger, FaultLedger
<1>5. CASE Crash \/ RetryProtectedStorage
  BY <1>5, QuietLedger DEF Crash, RetryProtectedStorage, observed
<1>6. ASSUME NEW w \in Workspaces, NEW p \in Paths, NEW c \in File, ExternalEdit(w, p, c)
      PROVE  LedgerStep
  BY <1>6, ExternalEditLedger
<1> QED
  BY <1>1, <1>2, <1>3, <1>4, <1>5, <1>6 DEF Next

\* The ledger starts where the coordinator does.
LEMMA InitLedger == Init => Ledger!Init
<1> SUFFICES ASSUME Init PROVE Ledger!Init
  OBVIOUS
<1>1. disk \in [Workspaces -> [Paths -> File]]
  BY ConstantsAssumption DEF Init
<1>2. \A w \in Workspaces, p \in Paths : RecoveredFile(w, p) = disk[w][p]
  BY DEF Init, RecoveredFile, Scopes
<1>3. Files \in [Workspaces -> [Paths -> Contents \cup {Absent}]]
  BY <1>1, <1>2 DEF Files, File
<1>4. Outcomes = [o \in OpIds |-> Missing]
  BY DEF Init, Outcomes, Resolved
<1> QED
  BY <1>3, <1>4 DEF Init, Ledger!Init, Ledger!Scopes, Scopes, Files, Outcomes

(* The commit path, with its journal, phases, crashes and retries,         *)
(* implements the ledger: to a reader who goes through recovery, the       *)
(* files, the record, the secrets and the receipt of a commit change in    *)
(* one step, and an operation identifier is resolved at most once.         *)
THEOREM LedgerImplemented == Spec => ImplementsLedger
<1>1. IInv /\ FInv /\ KindOK /\ [Next]_vars => [Ledger!Next]_(Ledger!vars)
  <2>1. ASSUME IInv, FInv, KindOK, Next
        PROVE  LedgerStep
    BY <2>1, Parts, NextLedger
  <2>2. ASSUME UNCHANGED vars
        PROVE  UNCHANGED Ledger!vars
    <3>1. UNCHANGED <<disk, edited, pending, ops, records, secrets>>
      BY <2>2 DEF vars, durable, observed
    <3>2. Files' = Files /\ Outcomes' = Outcomes
      BY <3>1, FilesAreKept, OutcomesKept
    <3> QED
      BY <3>1, <3>2 DEF Ledger!vars, Files, Outcomes
  <2> QED
    BY <2>1, <2>2 DEF LedgerStep
<1>2. Init => KindOK
  BY DEF Init, KindOK, NoCall
<1> QED
  BY <1>1, <1>2, KindStep, InitLedger, FileInvariance, PTL
     DEF Spec, ImplementsLedger, Ledger!Spec
=============================================================================
