-------------------------- MODULE CommitCoordinator --------------------------
(***************************************************************************)
(* The native commit path: src-tauri/src/persistence/commit_coordinator.rs *)
(* with the parts of runtime.rs, secret_commits.rs, local_records.rs and   *)
(* project_files.rs it calls.                                              *)
(*                                                                         *)
(* A save spans two stores that share no transaction: project files in a   *)
(* directory that other programs edit, and a SQLite database.  It is made  *)
(* atomic by a journal (pending_commits) staged before the first file is   *)
(* touched and removed in the transaction that publishes the database      *)
(* half; until then the journal rolls the files back.                      *)
(*                                                                         *)
(* One mutex serialises the commands, so a single program counter suffices *)
(* on our side.  Each read, rename and transaction is a step, and between  *)
(* any two of them an outside editor may save a file, an operation may     *)
(* fail, or the process may die.  A file is its content (revision =        *)
(* SHA-256 of the content).  Version-1 journals are not modelled here.     *)
(***************************************************************************)
EXTENDS Naturals, Sequences, FiniteSets

CONSTANTS
  Workspaces, Global, Paths, Contents, Values, Refs, OpIds,
  Absent, Keep, Missing,
  None,          \* no journal, no request, no answer, no operation
  Requests,      \* the commits clients may ask for
  Owner,         \* [Refs -> Scopes]: the scope in a secret reference's prefix
  MaxRevision,   \* greatest revision of a secret (2^53 - 1 in the code)
  InitialFiles,  \* project directories the model starts from
  MaxCalls, MaxEdits, MaxCrashes, MaxFaults   \* bounds of the model

VARIABLES
  \* durable
  disk,          \* project directories: [Workspaces -> [Paths -> file]]
  records,       \* one local record of each scope: [value, sealed]
  secrets,       \* secret_values and secret_revisions: [value, revision]
  ops,           \* secret_operations
  pending,       \* pending_commits, one row per scope
  \* the process
  opened,        \* RuntimeStorage exists
  unlocked,      \* protected storage is available
  pc, index,     \* where the holder of the mutex is
  call,          \* the command it serves
  todo,          \* journals the current recover() has still to roll back
  target,        \* scope whose journal is being rolled back
  inRecovery,    \* the rollback is recover()'s, not the commit's own
  backup,        \* Journal.previous, while it is collected
  seen,          \* content the last preflight of apply() found
  \* observation
  reply,         \* last answer each operation identifier was given
  edited,        \* files an outside editor saved since they were backed up
  late,          \* files it saved after the commit had verified them
  view,          \* how the last load was answered
  budget         \* how often each bounded event happened

durable == <<disk, records, secrets, ops, pending>>
process == <<opened, unlocked>>
control == <<pc, index>>
memory  == <<call, todo, target, inRecovery, backup, seen>>
observed == <<reply, edited, late, view>>
vars == <<durable, process, control, memory, observed, budget>>

Scopes == Workspaces \cup {Global}
File == Contents \cup {Absent}
Datum == Values \cup {Absent}

Change == [path: Paths, content: File, expected: File]
Mutation == [ref: Refs, value: Datum, expected: Nat]
Request ==
  [kind: {"commit", "secrets"}, scope: Scopes, files: Seq(Change),
   record: Datum \cup {Keep}, sealed: BOOLEAN, mutations: SUBSET Mutation]

Operation ==
  [state: {"prepared", "applying", "committed", "aborted", "recovery-required"},
   request: Requests]
Journal == [op: OpIds, request: Requests, previous: [Paths -> File]]
Terminal == {"committed", "aborted"}

NoCall == [kind |-> "none", op |-> None, request |-> None]

(* Mutant: no preimage until one is read. *)
NoBackupYet == << >>

NoBackup == [p \in Paths |-> Absent]

(* write_global_state passes no files and secure_commit neither files nor  *)
(* records; commit_project is refused for the global scope (valid_id).     *)
ASSUME RequestsAssumption ==
  /\ Requests \subseteq Request
  /\ \A r \in Requests :
       /\ r.scope = Global => r.files = << >>
       /\ r.kind = "secrets" => r.files = << >> /\ r.record = Keep

ASSUME ConstantsAssumption ==
  /\ Global \notin Workspaces
  /\ None \notin OpIds \cup Requests \cup Journal \cup Operation
  /\ Missing \notin Operation
  /\ Keep \notin Datum
  /\ Absent \notin Contents \cup Values
  /\ Owner \in [Refs -> Scopes]
  /\ InitialFiles \subseteq [Workspaces -> [Paths -> File]]
  /\ MaxRevision \in Nat /\ MaxCalls \in Nat /\ MaxEdits \in Nat
  /\ MaxCrashes \in Nat /\ MaxFaults \in Nat

-----------------------------------------------------------------------------
(* The request in hand *)

req == call.request

(* SecretBatch::validate *)
Valid(r) ==
  /\ r.kind = "commit" => \A m \in r.mutations : Owner[m.ref] = r.scope
  /\ \A m, n \in r.mutations : m.ref = n.ref => m = n
  /\ \A m \in r.mutations : m.expected < MaxRevision

(* Journal and receipt are encrypted unless the batch has no mutations and *)
(* every record of it is public.                                           *)
Sealed(r) ==
  r.kind = "secrets" \/ r.mutations # {} \/ (r.record # Keep /\ r.sealed)

DuplicatePaths(r) ==
  \E j, k \in 1..Len(r.files) : j # k /\ r.files[j].path = r.files[k].path

(* Mutant: a public projection replaces what it could not decrypt. *)
PublishableBlind(r) ==
  /\ \A m \in r.mutations : secrets[m.ref].revision = m.expected
  /\ r.record # Keep => unlocked \/ ~r.sealed

(* The checks of apply_mutations and write_records.  A protected record    *)
(* must be decrypted before a public value or a deletion replaces it.      *)
Publishable(r) ==
  /\ \A m \in r.mutations : secrets[m.ref].revision = m.expected
  /\ r.record # Keep =>
       \/ unlocked
       \/ ~r.sealed /\ ~records[r.scope].sealed

WriteRecords(r) ==
  IF r.record = Keep
    THEN records
    ELSE [records EXCEPT ![r.scope] =
            [value |-> r.record, sealed |-> r.sealed /\ r.record # Absent]]

(* Mutant: deleting a value forgets its revision. *)
ApplyMutationsForgetting(r) ==
  [ref \in Refs |->
     IF \E m \in r.mutations : m.ref = ref
       THEN LET m == CHOOSE m \in r.mutations : m.ref = ref
            IN [value |-> m.value,
                revision |-> IF m.value = Absent THEN 0 ELSE secrets[ref].revision + 1]
       ELSE secrets[ref]]

(* Every mutation consumes a revision, the deletion of an absent value too. *)
ApplyMutations(r) ==
  [ref \in Refs |->
     IF \E m \in r.mutations : m.ref = ref
       THEN [value |-> (CHOOSE m \in r.mutations : m.ref = ref).value,
             revision |-> secrets[ref].revision + 1]
       ELSE secrets[ref]]

(* record_operation: a terminal receipt is never replaced. *)
RecordOperation(o, state, r) ==
  IF ops[o] # Missing /\ ops[o].state \in Terminal
    THEN ops
    ELSE [ops EXCEPT ![o] = [state |-> state, request |-> r]]

(* Mutant: only public journals are listed. *)
VisiblePublic == {s \in Scopes : pending[s] # None /\ ~Sealed(pending[s].request)}

(* pending(): an encrypted journal is not listed while its key is away. *)
Visible == {s \in Scopes : pending[s] # None /\ (unlocked \/ ~Sealed(pending[s].request))}

-----------------------------------------------------------------------------
(* Control *)

Goto(label, k) == pc' = label /\ index' = k

(* The mutex is released: everything the command held is gone. *)
Release ==
  /\ Goto("idle", 0)
  /\ call' = NoCall
  /\ todo' = {}
  /\ target' = Global
  /\ inRecovery' = FALSE
  /\ backup' = NoBackup
  /\ seen' = Absent

Answer(result) ==
  /\ reply' = [reply EXCEPT ![call.op] = [answer |-> result, request |-> req]]
  /\ UNCHANGED <<edited, late, view>>
  /\ Release

(* What comes of startup, an operation status and a commit when recover()   *)
(* fails: the first two ignore it, commits are refused.                    *)
AfterFailure ==
  \/ /\ call.kind = "open"
     /\ Release
     /\ UNCHANGED observed
  \/ /\ call.kind = "status"
     /\ Goto("serve", 0)
     /\ todo' = {}
     /\ target' = Global
     /\ inRecovery' = FALSE
     /\ seen' = Absent
     /\ UNCHANGED <<call, backup, observed>>
  \/ /\ call.kind \in {"commit", "secrets"}
     /\ Answer("error")

(* Mutant: a load takes the files for recovered. *)
RecoveryFailedUnnoticed ==
  \/ AfterFailure
  \/ /\ call.kind = "load"
     /\ Release
     /\ view' = "recovered"
     /\ UNCHANGED <<reply, edited, late>>

(* recover() returned an error.  A load is answered all the same, from the *)
(* catalogue: the files as they are, every workspace to be only read.      *)
RecoveryFailed ==
  \/ AfterFailure
  \/ /\ call.kind = "load"
     /\ Release
     /\ view' = "degraded"
     /\ UNCHANGED <<reply, edited, late>>

(* A commit that has touched nothing but its own memory gives up and       *)
(* leaves a tombstone, so that the identifier cannot commit later.         *)
AbortPrepared ==
  /\ ops' = RecordOperation(call.op, "aborted", req)
  /\ Answer("error")
  /\ UNCHANGED <<disk, records, secrets, pending>>

(* Mutant: the journal is dropped without restoring the files. *)
StartRollbackUndone ==
  /\ target' = req.scope
  /\ Goto("rbEnd", 0)
  /\ seen' = Absent
  /\ UNCHANGED <<durable, call, todo, inRecovery, backup, observed>>

(* An error once the journal is staged: restore the files, last one first. *)
StartRollback ==
  /\ target' = req.scope
  /\ Goto("rbRead", Len(req.files))
  /\ seen' = Absent
  /\ UNCHANGED <<durable, call, todo, inRecovery, backup, observed>>

-----------------------------------------------------------------------------
(* Entering the storage *)

Serve(kind, o, r) ==
  /\ call' = [kind |-> kind, op |-> o, request |-> r]
  /\ todo' = Visible
  /\ inRecovery' = TRUE
  /\ Goto("recover", 0)
  /\ UNCHANGED <<durable, target, backup, seen, observed>>

(* RuntimeStorage::open, by the first command that needs the storage. *)
Open ==
  /\ pc = "idle" /\ ~opened
  /\ opened' = TRUE
  /\ Serve("open", None, None)
  /\ UNCHANGED <<unlocked, budget>>

(* load_persistence and load_project when the storage does not open: the   *)
(* catalogue is all there is.                                              *)
DegradedLoad ==
  /\ pc = "idle" /\ ~opened
  /\ view' = "degraded"
  /\ UNCHANGED <<durable, process, control, memory, reply, edited, late, budget>>

(* load_persistence and load_project *)
BeginLoad ==
  /\ pc = "idle" /\ opened
  /\ Serve("load", None, None)
  /\ UNCHANGED <<process, budget>>

(* secure_operation_status *)
BeginStatus ==
  /\ pc = "idle" /\ opened
  /\ Serve("status", None, None)
  /\ UNCHANGED <<process, budget>>

(* commit_project, write_global_state and secure_commit, possibly a retry  *)
(* of an identifier used before.                                           *)
BeginCommit(o, r) ==
  /\ pc = "idle" /\ opened
  /\ budget.calls < MaxCalls
  /\ budget' = [budget EXCEPT !.calls = @ + 1]
  /\ Serve(r.kind, o, r)
  /\ UNCHANGED process

(* recover(): the loop over pending().  It stops at the first failure.     *)
(* files(&id) refuses the global scope before its journal is looked at.    *)
RecoverNext(s) ==
  /\ pc = "recover" /\ s \in todo
  /\ s \in Workspaces
  /\ todo' = todo \ {s}
  /\ target' = s
  /\ Goto("rbRead", Len(pending[s].request.files))
  /\ UNCHANGED <<durable, process, call, inRecovery, backup, seen, observed, budget>>

RecoverGlobal ==
  /\ pc = "recover" /\ Global \in todo
  /\ RecoveryFailed
  /\ UNCHANGED <<durable, process, budget>>

RecoverDone ==
  /\ pc = "recover" /\ todo = {}
  /\ \/ /\ call.kind = "open"
        /\ Release
     \/ /\ call.kind \in {"load", "status"}
        /\ Goto("serve", 0)
        /\ inRecovery' = FALSE
        /\ UNCHANGED <<call, todo, target, backup, seen>>
     \/ /\ call.kind \in {"commit", "secrets"}
        /\ Goto(IF call.kind = "commit" THEN "admit" ELSE "secrets", 0)
        /\ inRecovery' = FALSE
        /\ UNCHANGED <<call, todo, target, backup, seen>>
  /\ UNCHANGED <<durable, process, observed, budget>>

(* The snapshot, or the state of an operation, is read and returned. *)
Return ==
  /\ pc = "serve"
  /\ Release
  /\ view' = IF call.kind = "load" THEN "recovered" ELSE view
  /\ UNCHANGED <<durable, process, reply, edited, late, budget>>

-----------------------------------------------------------------------------
(* rollback() *)

journal == pending[target]
restoring == journal.request.files[index]
found == disk[target][restoring.path]
before == journal.previous[restoring.path]

(* Mutants: a file the commit had not reached counts as a conflict; any    *)
(* file that differs from the preimage is restored.                        *)
NeverUntouched == FALSE
AlwaysOurs == TRUE

Untouched == found = before
Ours == found = restoring.content

(* "External revision prevents safe commit rollback": keep the journal. *)
RollbackConflict ==
  /\ ops' = RecordOperation(journal.op, "recovery-required", journal.request)
  /\ RecoveryFailed
  /\ UNCHANGED <<disk, records, secrets, pending>>

RollbackRead ==
  /\ pc = "rbRead"
  /\ \/ /\ index = 0
        /\ Goto("rbEnd", 0)
        /\ UNCHANGED <<durable, memory, observed>>
     \/ /\ index > 0 /\ Untouched
        /\ Goto("rbRead", index - 1)
        /\ UNCHANGED <<durable, memory, observed>>
     \/ /\ index > 0 /\ ~Untouched /\ Ours
        /\ Goto("rbCheck", index)
        /\ seen' = found
        /\ UNCHANGED <<durable, call, todo, target, inRecovery, backup, observed>>
     \/ /\ index > 0 /\ ~Untouched /\ ~Ours
        /\ RollbackConflict
  /\ UNCHANGED <<process, budget>>

(* The preflight inside apply() of the restoring change. *)
RollbackCheck ==
  /\ pc = "rbCheck"
  /\ \/ /\ found \in {seen, before}
        /\ Goto("rbWrite", index)
        /\ seen' = found
        /\ UNCHANGED <<durable, call, todo, target, inRecovery, backup, observed>>
     \/ /\ found \notin {seen, before}
        /\ RollbackConflict
  /\ UNCHANGED <<process, budget>>

RollbackWrite ==
  /\ pc = "rbWrite"
  /\ disk' = [disk EXCEPT ![target][restoring.path] = before]
  /\ Goto("rbRead", index - 1)
  /\ seen' = Absent
  /\ UNCHANGED <<records, secrets, ops, pending, process, call, todo, target,
                 inRecovery, backup, observed, budget>>

(* finish_rollback: tombstone and journal removal in one transaction. *)
FinishRollback ==
  /\ pc = "rbEnd"
  /\ ops' = RecordOperation(journal.op, "aborted", journal.request)
  /\ pending' = [pending EXCEPT ![target] = None]
  /\ \/ /\ inRecovery
        /\ Goto("recover", 0)
        /\ target' = Global
        /\ UNCHANGED <<call, todo, inRecovery, backup, seen, observed>>
     \/ /\ ~inRecovery
        /\ Answer("error")
  /\ UNCHANGED <<disk, records, secrets, process, budget>>

-----------------------------------------------------------------------------
(* commit_with_hook: before the journal *)

Refuse == Answer("error") /\ UNCHANGED durable

(* Mutant: the fingerprint of the request is not compared. *)
ReplayUnchecked(o) == IF ops[o].state = "committed" THEN "ok" ELSE "error"

(* replay_result for an identifier that has a receipt. *)
Replay(o) ==
  IF ops[o].request = req /\ ops[o].state = "committed" THEN "ok" ELSE "error"

(* Validation, availability of keys, replay of an earlier answer. *)
Admit ==
  /\ pc = "admit"
  /\ LET o == call.op
         admissible == Valid(req) /\ (unlocked \/ ~Sealed(req))
     IN \/ /\ ~admissible
           /\ Refuse
        \/ /\ admissible /\ ops[o] # Missing
           /\ UNCHANGED durable
           /\ Answer(Replay(o))
        \/ /\ admissible /\ ops[o] = Missing /\ req.scope \in Visible
           /\ Refuse
        \/ /\ admissible /\ ops[o] = Missing /\ req.scope \notin Visible
           /\ DuplicatePaths(req)
           /\ AbortPrepared
        \/ /\ admissible /\ ops[o] = Missing /\ req.scope \notin Visible
           /\ ~DuplicatePaths(req)
           /\ Goto("preflight", 1)
           /\ UNCHANGED <<durable, memory, observed>>
  /\ UNCHANGED <<process, budget>>

change == req.files[index]
pastLast == index > Len(req.files)
onDisk == disk[req.scope][change.path]

(* Mutant: the files are not compared again after the backup. *)
AsExpectedOnce(label) == label = "recheck" \/ onDisk = change.expected

AsExpected(label) == onDisk = change.expected

(* The two preflights compare each file with its expected revision. *)
Preflight(label, next) ==
  /\ pc = label
  /\ \/ /\ pastLast
        /\ Goto(next, 1)
        /\ UNCHANGED <<durable, memory, observed>>
     \/ /\ ~pastLast /\ AsExpected(label)
        /\ Goto(label, index + 1)
        /\ UNCHANGED <<durable, memory, observed>>
     \/ /\ ~pastLast /\ ~AsExpected(label)
        /\ AbortPrepared
  /\ UNCHANGED <<process, budget>>

(* prepare_local: the database half, in a transaction that is rolled back. *)
Prepare ==
  /\ pc = "prepare"
  /\ \/ /\ Publishable(req)
        /\ Goto("backup", 1)
        /\ UNCHANGED <<durable, memory, observed>>
     \/ /\ ~Publishable(req)
        /\ AbortPrepared
  /\ UNCHANGED <<process, budget>>

(* Journal.previous.  The file is as this commit found it from here on,    *)
(* unless the workspace has a journal already, which staging will refuse.  *)
Backup ==
  /\ pc = "backup"
  /\ \/ /\ pastLast
        /\ Goto("recheck", 1)
        /\ UNCHANGED <<backup, edited>>
     \/ /\ ~pastLast
        /\ backup' = [backup EXCEPT ![change.path] = onDisk]
        /\ edited' = IF pending[req.scope] = None
                       THEN edited \ {<<req.scope, change.path>>}
                       ELSE edited
        /\ Goto("backup", index + 1)
  /\ UNCHANGED <<durable, process, call, todo, target, inRecovery, seen, reply, late,
                 view, budget>>

(* Mutant: a new journal replaces the one that is there. *)
StageReplaces == ops[call.op] = Missing

StageIsFree == ops[call.op] = Missing /\ pending[req.scope] = None

(* stage: journal and "prepared" receipt in one transaction.  The primary  *)
(* key refuses a second journal for the scope.                             *)
Stage ==
  /\ pc = "stage"
  /\ \/ /\ ~StageIsFree
        /\ Refuse
     \/ /\ StageIsFree
        /\ pending' = [pending EXCEPT ![req.scope] =
                         [op |-> call.op, request |-> req, previous |-> backup]]
        /\ ops' = RecordOperation(call.op, "prepared", req)
        /\ Goto("begin", 0)
        /\ UNCHANGED <<disk, records, secrets, memory, observed>>
  /\ UNCHANGED <<process, budget>>

-----------------------------------------------------------------------------
(* commit_with_hook: after the journal *)

MarkApplying ==
  /\ pc = "begin"
  /\ ops' = RecordOperation(call.op, "applying", req)
  /\ Goto("applyCheck", 1)
  /\ late' = {}
  /\ UNCHANGED <<disk, records, secrets, pending, process, memory, reply, edited,
                 view, budget>>

(* apply(): the recovering preflight, then the rename or removal.  Nothing *)
(* holds the file between the two.                                         *)
ApplyCheck ==
  /\ pc = "applyCheck"
  /\ \/ /\ pastLast
        /\ Goto("verify", 1)
        /\ UNCHANGED <<durable, memory, observed>>
     \/ /\ ~pastLast /\ onDisk \in {change.expected, change.content}
        /\ Goto("applyWrite", index)
        /\ seen' = onDisk
        /\ UNCHANGED <<durable, call, todo, target, inRecovery, backup, observed>>
     \/ /\ ~pastLast /\ onDisk \notin {change.expected, change.content}
        /\ StartRollback
  /\ UNCHANGED <<process, budget>>

ApplyWrite ==
  /\ pc = "applyWrite"
  /\ disk' = [disk EXCEPT ![req.scope][change.path] = change.content]
  /\ Goto("applyCheck", index + 1)
  /\ seen' = Absent
  /\ UNCHANGED <<records, secrets, ops, pending, process, call, todo, target,
                 inRecovery, backup, observed, budget>>

(* Mutant: the files are not read again before publication. *)
UnverifiedAsApplied == TRUE

AsApplied == onDisk = change.content

(* "Do not publish secrets if an external tool changed an applied file." *)
Verify ==
  /\ pc = "verify"
  /\ \/ /\ pastLast
        /\ Goto("publish", 0)
        /\ UNCHANGED <<durable, memory, observed>>
     \/ /\ ~pastLast /\ AsApplied
        /\ Goto("verify", index + 1)
        /\ late' = late \ {<<req.scope, change.path>>}
        /\ UNCHANGED <<durable, memory, reply, edited, view>>
     \/ /\ ~pastLast /\ ~AsApplied
        /\ StartRollback
  /\ UNCHANGED <<process, budget>>

(* publish_local.  COMMIT may report an error although it took effect; the *)
(* receipt then says so, and the result is returned.  If the receipt can   *)
(* not be read either ("fault"), the caller gets an error.                 *)
Publish(fault) ==
  /\ pc = "publish"
  /\ \/ /\ Publishable(req)
        /\ records' = WriteRecords(req)
        /\ secrets' = ApplyMutations(req)
        /\ ops' = RecordOperation(call.op, "committed", req)
        /\ pending' = [pending EXCEPT ![req.scope] = None]
        /\ Answer(IF fault THEN "error" ELSE "ok")
        /\ UNCHANGED disk
     \/ /\ ~Publishable(req) /\ ~fault
        /\ StartRollback
  /\ IF fault
       THEN /\ budget.faults < MaxFaults
            /\ budget' = [budget EXCEPT !.faults = @ + 1]
       ELSE UNCHANGED budget
  /\ UNCHANGED process

(* commit_secrets: a batch without files or records, in one transaction. *)
CommitSecrets ==
  /\ pc = "secrets"
  /\ LET o == call.op
         admissible == Valid(req) /\ unlocked
     IN \/ /\ ~admissible
           /\ Refuse
        \/ /\ admissible /\ ops[o] # Missing
           /\ UNCHANGED durable
           /\ Answer(Replay(o))
        \/ /\ admissible /\ ops[o] = Missing /\ ~Publishable(req)
           /\ AbortPrepared
        \/ /\ admissible /\ ops[o] = Missing /\ Publishable(req)
           /\ secrets' = ApplyMutations(req)
           /\ ops' = RecordOperation(o, "committed", req)
           /\ Answer("ok")
           /\ UNCHANGED <<disk, records, pending>>
  /\ UNCHANGED <<process, budget>>

-----------------------------------------------------------------------------
(* What the environment does *)

(* A file operation or a transaction of the present phase fails. *)
Fault ==
  /\ budget.faults < MaxFaults
  /\ budget' = [budget EXCEPT !.faults = @ + 1]
  /\ \/ /\ pc = "recover"
        /\ RecoveryFailed
        /\ UNCHANGED durable
     \/ /\ pc \in {"rbRead", "rbCheck", "rbWrite"}
        /\ RollbackConflict
     \/ /\ pc = "rbEnd"
        /\ RecoveryFailed
        /\ UNCHANGED durable
     \/ /\ pc \in {"preflight", "prepare", "backup", "recheck"}
        /\ AbortPrepared
     \/ /\ pc \in {"stage", "secrets"}
        /\ Refuse
     \/ /\ pc \in {"begin", "applyCheck", "applyWrite", "verify", "publish"}
        /\ StartRollback
  /\ UNCHANGED process

(* The process dies; the key store may or may not answer the next one. *)
Crash ==
  /\ budget.crashes < MaxCrashes
  /\ budget' = [budget EXCEPT !.crashes = @ + 1]
  /\ opened' = FALSE
  /\ unlocked' \in BOOLEAN
  /\ Release
  /\ view' = "none"
  /\ UNCHANGED <<durable, reply, edited, late>>

(* retry_protected_storage drops the storage and keeps the keys it has. *)
RetryProtectedStorage ==
  /\ pc = "idle" /\ opened
  /\ opened' = FALSE
  /\ unlocked' \in {unlocked, TRUE}
  /\ UNCHANGED <<durable, control, memory, observed, budget>>

(* Another program saves or removes a project file. *)
ExternalEdit(w, p, c) ==
  /\ budget.edits < MaxEdits
  /\ budget' = [budget EXCEPT !.edits = @ + 1]
  /\ disk[w][p] # c
  /\ disk' = [disk EXCEPT ![w][p] = c]
  /\ edited' = edited \cup {<<w, p>>}
  /\ late' = IF pc \in {"verify", "publish"} THEN late \cup {<<w, p>>} ELSE {}
  /\ UNCHANGED <<records, secrets, ops, pending, process, control, memory, reply,
                 view>>

-----------------------------------------------------------------------------

Init ==
  /\ disk \in InitialFiles
  /\ records = [s \in Scopes |-> [value |-> Absent, sealed |-> FALSE]]
  /\ secrets = [ref \in Refs |-> [value |-> Absent, revision |-> 0]]
  /\ ops = [o \in OpIds |-> Missing]
  /\ pending = [s \in Scopes |-> None]
  /\ opened = FALSE
  /\ unlocked \in BOOLEAN
  /\ pc = "idle" /\ index = 0
  /\ call = NoCall /\ todo = {} /\ target = Global /\ inRecovery = FALSE
  /\ backup = NoBackup /\ seen = Absent
  /\ reply = [o \in OpIds |-> None]
  /\ edited = {} /\ late = {} /\ view = "none"
  /\ budget = [calls |-> 0, edits |-> 0, crashes |-> 0, faults |-> 0]

(* The steps the holder of the mutex takes on its own. *)
Step ==
  \/ \E s \in Scopes : RecoverNext(s)
  \/ RecoverGlobal
  \/ RecoverDone
  \/ Return
  \/ RollbackRead \/ RollbackCheck \/ RollbackWrite \/ FinishRollback
  \/ Admit
  \/ Preflight("preflight", "prepare")
  \/ Prepare
  \/ Backup
  \/ Preflight("recheck", "stage")
  \/ Stage
  \/ MarkApplying
  \/ ApplyCheck \/ ApplyWrite \/ Verify
  \/ Publish(FALSE)
  \/ CommitSecrets

Next ==
  \/ Open \/ DegradedLoad \/ BeginLoad \/ BeginStatus
  \/ \E o \in OpIds, r \in Requests : BeginCommit(o, r)
  \/ Step
  \/ Publish(TRUE)
  \/ Fault
  \/ Crash
  \/ RetryProtectedStorage
  \/ \E w \in Workspaces, p \in Paths, c \in File : ExternalEdit(w, p, c)

Spec == Init /\ [][Next]_vars

(* A command that holds the mutex runs to its end, and the application     *)
(* goes on opening and reading its storage (load_persistence at startup    *)
(* and after every external change).                                       *)
Fairness ==
  /\ WF_vars(Step)
  /\ WF_vars(Open)
  /\ SF_vars(BeginLoad)

FairSpec == Spec /\ Fairness

-----------------------------------------------------------------------------
(***************************************************************************)
(* What the commit path guarantees: type invariant, invariants, action     *)
(* properties, liveness, the refinement of CommitLedger, and a claim of    *)
(* the documentation that the code does not meet.                          *)
(***************************************************************************)

Phases ==
  {"idle", "recover", "serve", "rbRead", "rbCheck", "rbWrite", "rbEnd", "admit",
   "preflight", "prepare", "backup", "recheck", "stage", "begin", "applyCheck",
   "applyWrite", "verify", "publish", "secrets"}

(* Every variable has its type. *)
TypeOK ==
  /\ disk \in [Workspaces -> [Paths -> File]]
  /\ records \in [Scopes -> [value: Datum, sealed: BOOLEAN]]
  /\ secrets \in [Refs -> [value: Datum, revision: Nat]]
  /\ ops \in [OpIds -> Operation \cup {Missing}]
  /\ pending \in [Scopes -> Journal \cup {None}]
  /\ opened \in BOOLEAN /\ unlocked \in BOOLEAN
  /\ pc \in Phases /\ index \in Nat
  /\ call \in [kind: {"none", "open", "load", "status", "commit", "secrets"},
               op: OpIds \cup {None}, request: Requests \cup {None}]
  /\ todo \subseteq Scopes /\ target \in Scopes /\ inRecovery \in BOOLEAN
  /\ backup \in [Paths -> File] /\ seen \in File
  /\ reply \in [OpIds -> [answer: {"ok", "error"}, request: Requests] \cup {None}]
  /\ edited \subseteq Workspaces \X Paths
  /\ late \subseteq Workspaces \X Paths
  /\ view \in {"none", "recovered", "degraded"}
  /\ budget \in [calls: Nat, edits: Nat, crashes: Nat, faults: Nat]

(* The journal and the operation table agree in every reachable state,     *)
(* crashes included: an operation is unresolved exactly while the journal  *)
(* of its scope is its own, with the same request.  An unresolved          *)
(* operation without a journal could never be resolved; a journal of a     *)
(* resolved one would undo published files.                                *)
JournalOwnsOperation ==
  /\ \A s \in Scopes : pending[s] # None =>
       LET j == pending[s] IN
         /\ j.request.scope = s
         /\ ops[j.op] # Missing
         /\ ops[j.op].state \notin Terminal
         /\ ops[j.op].request = j.request
  /\ \A o \in OpIds : (ops[o] # Missing /\ ops[o].state \notin Terminal) =>
       /\ pending[ops[o].request.scope] # None
       /\ pending[ops[o].request.scope].op = o

ChangedFiles(j) == {j.request.files[k].path : k \in DOMAIN j.request.files}

(* While a journal exists, each file of its commit that no other program   *)
(* saved meanwhile is either as the journal remembers it or as the commit  *)
(* wants it, and what the journal remembers is the revision the client     *)
(* prepared against: rolling back restores what was there.                 *)
JournalCoversFiles ==
  \A w \in Workspaces : pending[w] # None =>
    LET j == pending[w] IN
      \A k \in DOMAIN j.request.files :
        LET c == j.request.files[k] IN
          <<w, c.path>> \notin edited =>
            /\ j.previous[c.path] = c.expected
            /\ disk[w][c.path] \in {c.expected, c.content}

(* A client that was told its save succeeded finds it committed, with the  *)
(* very request it sent, whatever crashes and retries follow.              *)
AcknowledgedIsCommitted ==
  \A o \in OpIds : (reply[o] # None /\ reply[o].answer = "ok") =>
    /\ ops[o] # Missing
    /\ ops[o].state = "committed"
    /\ ops[o].request = reply[o].request

(* Revisions of secrets only grow, and grow whenever the value changes, so *)
(* that a stale save can not pass a compare-and-set on an old absence.     *)
RevisionsAdvance ==
  [][\A ref \in Refs :
       /\ secrets'[ref].revision >= secrets[ref].revision
       /\ secrets'[ref].value # secrets[ref].value =>
            secrets'[ref].revision > secrets[ref].revision]_vars

(* Public saves go on while protected storage is locked, but none of them  *)
(* replaces or removes a record or a secret it could not decrypt.          *)
LockedDataKept ==
  [][~unlocked =>
       /\ secrets' = secrets
       /\ \A s \in Scopes : records[s].sealed => records'[s] = records[s]]_vars

(* The contents of file p that the commit of journal j accounts for. *)
Accounted(j, p) ==
  {j.previous[p]}
    \cup UNION {{j.request.files[k].expected, j.request.files[k].content} :
                  k \in {n \in DOMAIN j.request.files : j.request.files[n].path = p}}

(* Whatever step of ours replaces or removes a file, commit or rollback,   *)
(* it had compared the file with a revision its operation accounts for; a  *)
(* save of another program is lost only if it lands between that           *)
(* comparison and the rename.                                              *)
OnlyComparedFilesReplaced ==
  [][\A w \in Workspaces, p \in Paths :
       (disk'[w][p] # disk[w][p] /\ budget'.edits = budget.edits) =>
         /\ pending[w] # None
         /\ seen \in Accounted(pending[w], p)]_vars

(* When secrets are published, the files that belong to them are in place: *)
(* only a save that came after the file was verified can have changed one. *)
PublishedFilesInPlace ==
  [][\A o \in OpIds :
       (pc = "publish" /\ call.op = o /\ ops[o].state # "committed"
          /\ ops'[o].state = "committed") =>
         \A k \in DOMAIN req.files :
           LET c == req.files[k] IN
             <<req.scope, c.path>> \notin late => disk[req.scope][c.path] = c.content]_vars

(* So the files of a commit are compared before they are replaced and     *)
(* verified before its secrets are published.                              *)
FilesFollowCommits == OnlyComparedFilesReplaced /\ PublishedFilesInPlace

(* A commit never starts on top of a journal that could have been rolled   *)
(* back first, in its own workspace or in another scope; and with          *)
(* protected storage available a load never passes half of a commit off as *)
(* recovered: it rolls it back first, or is answered degraded, as files to *)
(* read and not to save from.                                              *)
RecoveryPrecedesCommit ==
  [][/\ (pc = "stage" /\ pc' = "begin") =>
          \A s \in Scopes : pending[s] # None =>
            ~unlocked /\ Sealed(pending[s].request)
     /\ (view' = "recovered" /\ pc # "idle" /\ pc' = "idle" /\ call.kind = "load"
         /\ unlocked) =>
          \A s \in Scopes : pending[s] = None]_vars

(* Once other programs leave the files alone and the application is used,  *)
(* the journal of a workspace is resolved, unless its keys are away or one *)
(* of its files is neither as the commit found it nor as it left it, or a  *)
(* journal of the global scope is in the way (StartupRollsBack, below).    *)
Rollbackable(w) ==
  \A k \in DOMAIN pending[w].request.files :
    LET c == pending[w].request.files[k] IN
      disk[w][c.path] \in {c.content, pending[w].previous[c.path]}

WorkspacesRecover ==
  \A w \in Workspaces :
    []<>(\/ w \notin Visible
         \/ Global \in Visible
         \/ \E v \in Workspaces : pending[v] # None /\ ~Rollbackable(v))

-----------------------------------------------------------------------------
(* What the documentation says, and the code does not do.                  *)

(* docs/persistence-architecture.md:160 "Startup rolls back unpublished    *)
(* version-2 operations": an undisturbed startup with the keys at hand     *)
(* leaves no journal behind.                                               *)
StartupRollsBack ==
  [][(/\ call.kind = "open" /\ pc' = "idle" /\ opened' /\ unlocked
      /\ budget.edits = 0 /\ budget.faults = 0) =>
        \A s \in Scopes : pending'[s] = None]_vars

-----------------------------------------------------------------------------
(* Refinement.  A reader who goes through recovery sees the preimage of a  *)
(* file while its journal exists; a file another program saved meanwhile   *)
(* is seen as it is.                                                       *)

RecoveredFile(w, p) ==
  IF /\ pending[w] # None
     /\ p \in ChangedFiles(pending[w])
     /\ <<w, p>> \notin edited
    THEN pending[w].previous[p]
    ELSE disk[w][p]

Resolved(o) ==
  IF ops[o] # Missing /\ ops[o].state \in Terminal THEN ops[o] ELSE Missing

Ledger == INSTANCE CommitLedger WITH
  files <- [w \in Workspaces |-> [p \in Paths |-> RecoveredFile(w, p)]],
  contested <- edited,
  outcome <- [o \in OpIds |-> Resolved(o)]

(* Files, record, secrets and receipt of a commit change in one step, at   *)
(* most once per operation identifier.                                     *)
ImplementsLedger == Ledger!Spec
=============================================================================
