----------------------------- MODULE BrowserStore -----------------------------
(***************************************************************************)
(* The storage of the browser preview (storage/browser-backend.ts), which  *)
(* every tab of the preview shares.  A save reads what it builds on piece  *)
(* by piece, seals its values, and publishes files, record, secrets and    *)
(* receipt in one transaction that compares everything it has read once    *)
(* more.  Keys are made by the first seal of a scope, in a transaction of  *)
(* its own.  The store keeps the same ledger as the native coordinator.    *)
(***************************************************************************)
EXTENDS Naturals, FiniteSets, SequencesExt

CONSTANTS
    Workspaces, Global, Paths, Contents, Values, Refs, OpIds,
    Absent, Keep, Missing, Requests, Owner,  \* as in CommitLedger
    Tabs,
    Deletion,  \* [Workspaces -> OpIds]: the identifier a deletion draws
    MaxCalls   \* a bound

VARIABLES
    files, records, secrets, outcome,  \* projects, local, secrets and operations
    listed,    \* app/workspaces
    keys,      \* [Scopes -> the tab whose key it is, or Missing]
    published, \* [Scopes -> keys that something stored was sealed with]
    call,      \* what each tab is doing
    answered,  \* operations and requests that were answered with success
    calls

vars == <<files, records, secrets, outcome, listed, keys, published, call, answered, calls>>

Scopes == Workspaces \union {Global}
File == Contents \union {Absent}
Datum == Values \union {Absent}
FileChange == [path : Paths, content : File, expected : File]
Mutation == [ref : Refs, value : Datum, expected : Nat]
Request == [kind : {"commit", "secrets"}, scope : Scopes, files : Seq(FileChange),
            record : Datum \union {Keep}, sealed : BOOLEAN, mutations : SUBSET Mutation]
Operation == [state : {"committed", "aborted"}, request : Request]

ASSUME BrowserAssumption ==
    /\ Requests \subseteq Request
    /\ \A r \in Requests : r.kind = "secrets" => r.files = <<>> /\ r.record = Keep
    /\ Global \notin Workspaces
    /\ Owner \in [Refs -> Scopes] /\ Deletion \in [Workspaces -> OpIds]
    /\ Missing \notin Tabs /\ Missing \notin Operation
    /\ IsFiniteSet(Paths) /\ IsFiniteSet(Tabs)
    /\ MaxCalls \in Nat

NoFiles == [p \in Paths |-> Absent]
NoRecord == [value |-> Absent, sealed |-> FALSE]
NoRequest == [kind |-> "none"]

Idle == [at |-> "idle", op |-> Missing, request |-> NoRequest, files |-> NoFiles,
         record |-> NoRecord, listed |-> {}, refs |-> {}, key |-> Missing]

Init ==
    /\ files \in [Workspaces -> {NoFiles}]
    /\ records = [s \in Scopes |-> NoRecord]
    /\ secrets = [ref \in Refs |-> [value |-> Absent, revision |-> 0]]
    /\ outcome = [o \in OpIds |-> Missing]
    /\ listed = {}
    /\ keys = [s \in Scopes |-> Missing] /\ published = [s \in Scopes |-> {}]
    /\ call = [t \in Tabs |-> Idle]
    /\ answered = {}
    /\ calls = 0

-----------------------------------------------------------------------------

Move(t, at) == call' = [call EXCEPT ![t].at = at]
Finish(t) == call' = [call EXCEPT ![t] = Idle]
Answer(t, success) ==
    /\ Finish(t)
    /\ answered' = IF success THEN answered \union {<<call[t].op, call[t].request>>} ELSE answered

stored == <<files, records, secrets, outcome, listed>>
sealing == <<keys, published>>

\* A commit begins with the prefix of its secrets, a secret batch with its own
\* publication.
Begin(t, o, r) ==
    /\ call[t] = Idle /\ calls < MaxCalls
    /\ calls' = calls + 1
    /\ r.kind = "commit" => \A m \in r.mutations : Owner[m.ref] = r.scope
    /\ call' = [call EXCEPT ![t] = [Idle EXCEPT !.op = o, !.request = r,
                    !.at = IF r.kind = "commit" THEN "receipt" ELSE "seal"]]
    /\ UNCHANGED <<stored, sealing, answered>>

\* deleteWorkspace builds its request from what it reads.
Delete(t, w) ==
    /\ call[t] = Idle /\ calls < MaxCalls /\ outcome[Deletion[w]] = Missing
    /\ \A u \in Tabs : call[u].op # Deletion[w]
    /\ calls' = calls + 1
    /\ call' = [call EXCEPT ![t] = [Idle EXCEPT !.op = Deletion[w], !.at = "files",
                    !.request = [NoRequest EXCEPT !.kind = "delete"]]]
    /\ UNCHANGED <<stored, sealing, answered>>

ScopeOf(t) ==
    IF call[t].request.kind = "delete" THEN CHOOSE w \in Workspaces : Deletion[w] = call[t].op
    ELSE call[t].request.scope

\* The receipt before anything else is read.
ReadReceipt(t) ==
    /\ call[t].at = "receipt"
    /\ LET receipt == outcome[call[t].op] IN
       IF receipt # Missing /\ receipt.state = "committed"
       THEN Answer(t, receipt.request = call[t].request)
       ELSE Move(t, "files") /\ UNCHANGED answered
    /\ UNCHANGED <<stored, sealing, calls>>

\* Three reads, each a transaction.
ReadFiles(t) ==
    /\ call[t].at = "files"
    /\ call' = [call EXCEPT ![t].at = "record",
           ![t].files = IF ScopeOf(t) = Global THEN NoFiles ELSE files[ScopeOf(t)]]
    /\ UNCHANGED <<stored, sealing, answered, calls>>

ReadRecord(t) ==
    /\ call[t].at = "record"
    /\ call' = [call EXCEPT ![t].at = "listed", ![t].record = records[ScopeOf(t)]]
    /\ UNCHANGED <<stored, sealing, answered, calls>>

AsExpected(t) ==
    \A k \in DOMAIN call[t].request.files :
        call[t].files[call[t].request.files[k].path] = call[t].request.files[k].expected

\* The list, and the comparison of revisions, which ends a commit without a receipt.
ReadListed(t) ==
    /\ call[t].at = "listed"
    /\ IF call[t].request.kind = "delete"
       THEN call' = [call EXCEPT ![t].at = "refs", ![t].listed = listed]
       ELSE IF AsExpected(t) THEN call' = [call EXCEPT ![t].at = "seal", ![t].listed = listed]
       ELSE Finish(t)
    /\ UNCHANGED <<stored, sealing, answered, calls>>

\* The secrets of a workspace: those with a row, which deleted ones keep.
RefsOf(w) == {ref \in Refs : Owner[ref] = w /\ secrets[ref].revision > 0}

ReadRefs(t) ==
    /\ call[t].at = "refs"
    /\ call' = [call EXCEPT ![t].at = "revisions", ![t].refs = RefsOf(ScopeOf(t))]
    /\ UNCHANGED <<stored, sealing, answered, calls>>

\* removeProtected: everything goes, and the secrets stay as tombstones.
DeleteRequest(w, found, refs, revision) ==
    [kind |-> "commit", scope |-> w, record |-> Absent, sealed |-> FALSE,
     files |-> SetToSeq({[path |-> p, content |-> Absent, expected |-> found[p]] :
                         p \in {q \in Paths : found[q] # Absent}}),
     mutations |-> {[ref |-> ref, value |-> Absent, expected |-> revision[ref]] : ref \in refs}]

ReadRevisions(t) ==
    /\ call[t].at = "revisions"
    /\ call' = [call EXCEPT ![t].at = "seal",
           ![t].request = DeleteRequest(ScopeOf(t), call[t].files, call[t].refs,
                                        [ref \in Refs |-> secrets[ref].revision])]
    /\ UNCHANGED <<stored, sealing, answered, calls>>

\* Mutant: the key that is there was looked for before.
KeyOfBlind(t, scope) == t

\* scopeKey: the candidate is stored unless there is a key.
KeyOf(t, scope) == IF keys[scope] = Missing THEN t ELSE keys[scope]

IsDeletion(t) == call[t].op \in {Deletion[w] : w \in Workspaces}
Seals(r) == r.mutations # {} \/ (r.record \notin {Keep, Absent} /\ r.sealed)
KeyScope(t) == IF call[t].request.kind = "commit" THEN call[t].request.scope
               ELSE Owner[(CHOOSE m \in call[t].request.mutations : TRUE).ref]

\* Values are sealed before the transaction that publishes them.
Seal(t) ==
    /\ call[t].at = "seal"
    /\ IF ~Seals(call[t].request) THEN Move(t, "publish") /\ UNCHANGED keys
       ELSE LET key == KeyOf(t, KeyScope(t)) IN
            /\ keys' = [keys EXCEPT ![KeyScope(t)] = key]
            /\ call' = [call EXCEPT ![t].at = "publish", ![t].key = key]
    /\ UNCHANGED <<stored, published, answered, calls>>

-----------------------------------------------------------------------------
(* The transaction.                                                        *)

\* Mutant: the receipt was looked at before.
ReceiptUnread(t) == Missing

Receipt(t) == outcome[call[t].op]

\* Mutant: revisions of secrets are all that is compared.
NothingMoved(t) == TRUE

\* The reads of a commit still hold, and a deletion has missed no secret.
AsRead(t) ==
    LET r == call[t].request IN
    r.kind = "commit" =>
        /\ r.scope # Global => files[r.scope] = call[t].files
        /\ records[r.scope] = call[t].record
        /\ listed = call[t].listed
        /\ IsDeletion(t) => RefsOf(r.scope) = call[t].refs

Revisions(t) ==
    \A m \in call[t].request.mutations : secrets[m.ref].revision = m.expected

Apply(t) ==
    LET r == call[t].request IN
    /\ files' = [w \in Workspaces |-> [p \in Paths |->
            IF r.scope = w /\ \E k \in DOMAIN r.files : r.files[k].path = p
            THEN r.files[CHOOSE k \in DOMAIN r.files : r.files[k].path = p].content
            ELSE files[w][p]]]
    /\ records' = IF r.record = Keep THEN records
                  ELSE [records EXCEPT ![r.scope] =
                            [value |-> r.record, sealed |-> r.sealed /\ r.record # Absent]]
    /\ secrets' = [ref \in Refs |->
            IF \E m \in r.mutations : m.ref = ref
            THEN [value |-> (CHOOSE m \in r.mutations : m.ref = ref).value,
                  revision |-> secrets[ref].revision + 1]
            ELSE secrets[ref]]
    /\ listed' = CASE IsDeletion(t) -> listed \ {r.scope}
                   [] ~IsDeletion(t) /\ r.kind = "commit" -> listed \union ({r.scope} \ {Global})
                   [] OTHER -> listed
    /\ published' = IF Seals(r) THEN [published EXCEPT ![KeyScope(t)] = @ \union {call[t].key}]
                    ELSE published

Record(t, state) ==
    outcome' = [outcome EXCEPT ![call[t].op] = [state |-> state, request |-> call[t].request]]

Publish(t) ==
    /\ call[t].at = "publish"
    /\ IF Receipt(t) # Missing
       THEN /\ Answer(t, Receipt(t).state = "committed" /\ Receipt(t).request = call[t].request)
            /\ UNCHANGED <<stored, published>>
       ELSE IF AsRead(t) /\ Revisions(t)
       THEN Apply(t) /\ Record(t, "committed") /\ Answer(t, TRUE)
       ELSE Record(t, "aborted") /\ Answer(t, FALSE)
            /\ UNCHANGED <<files, records, secrets, listed, published>>
    /\ UNCHANGED <<keys, calls>>

\* The tab is closed, or a read or a seal fails.
GiveUp(t) ==
    /\ call[t] # Idle
    /\ Finish(t)
    /\ UNCHANGED <<stored, sealing, answered, calls>>

Step(t) ==
    \/ ReadReceipt(t) \/ ReadFiles(t) \/ ReadRecord(t) \/ ReadListed(t) \/ ReadRefs(t)
    \/ ReadRevisions(t) \/ Seal(t) \/ Publish(t)

Next ==
    \E t \in Tabs :
        \/ \E o \in OpIds \ {Deletion[w] : w \in Workspaces}, r \in Requests : Begin(t, o, r)
        \/ \E w \in Workspaces : Delete(t, w)
        \/ Step(t) \/ GiveUp(t)

Spec == Init /\ [][Next]_vars

-----------------------------------------------------------------------------

\* The state is of the expected shape.
TypeOK ==
    /\ files \in [Workspaces -> [Paths -> File]]
    /\ secrets \in [Refs -> [value : Values \union {Absent}, revision : Nat]]
    /\ listed \subseteq Workspaces /\ keys \in [Scopes -> Tabs \union {Missing}]
    /\ published \in [Scopes -> SUBSET Tabs]
    /\ \A t \in Tabs : call[t].at \in {"idle", "receipt", "files", "record", "listed", "refs",
                                       "revisions", "seal", "publish"}
    /\ calls \in 0..MaxCalls

\* What deletions can ask for within the bounds.
Deletions ==
    UNION {{DeleteRequest(w, found, refs, revision) :
                found \in [Paths -> File], revision \in [refs -> 1..MaxCalls]} :
           w \in Workspaces, refs \in SUBSET {ref \in Refs : Owner[ref] \in Workspaces}}

Ledger == INSTANCE CommitLedger WITH
    contested <- {}, Requests <- Requests \union Deletions

AnswersHaveReceipts ==
    \A a \in answered : outcome[a[1]] = [state |-> "committed", request |-> a[2]]

\* Saves, secret batches and deletions of two tabs are the one ledger that the native
\* coordinator keeps as well: an operation is resolved once, and the step that
\* commits it is the one in which all it changes changes, against what it was
\* prepared for.  Success is only answered for a receipt of that very request.
KeepsLedger ==
    /\ Ledger!Init /\ [][Ledger!Next]_<<files, records, secrets, outcome>>
    /\ []AnswersHaveReceipts

\* Of one scope everything is sealed with the key that is stored, although the tabs
\* make keys before either of them has published anything.
OneKeyPerScope == \A s \in Scopes : published[s] \subseteq {keys[s]}
=============================================================================
