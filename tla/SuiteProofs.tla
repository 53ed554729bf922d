----------------------------- MODULE SuiteProofs -----------------------------
(***************************************************************************)
(* Theorems about the machines of MCSuite.  The store of the browser       *)
(* preview (BrowserStore), which tabs share, keeps the ledger of the       *)
(* native coordinator, answers only what it has a receipt for, and has one *)
(* key per scope.  Several responses respect each other (ResponseProofs).  *)
(***************************************************************************)
EXTENDS MCSuite, FiniteSetTheorems, TLAPS

\* What a tab does: a call, where it stands, and what it has read.
Deleting == [kind |-> "delete"]
Places == {"idle", "receipt", "files", "record", "listed", "refs", "revisions", "seal",
           "publish"}
Call == [at : Places, op : OpIds \union {Missing},
         request : Request \union {NoRequest, Deleting}, files : [Paths -> File],
         record : [value : Datum, sealed : BOOLEAN], listed : SUBSET Workspaces,
         refs : SUBSET Refs, key : Tabs \union {Missing}]

Types ==
    /\ files \in [Workspaces -> [Paths -> File]]
    /\ records \in [Scopes -> [value : Datum, sealed : BOOLEAN]]
    /\ secrets \in [Refs -> [value : Datum, revision : Nat]]
    /\ outcome \in [OpIds -> {Missing} \union Operation]
    /\ listed \subseteq Workspaces
    /\ keys \in [Scopes -> Tabs \union {Missing}]
    /\ published \in [Scopes -> SUBSET Tabs]
    /\ call \in [Tabs -> Call]
    /\ answered \subseteq OpIds \X Request
    /\ calls \in 0..MaxCalls

\* A request of a client, whose secrets belong to its scope.
Asked(c) ==
    /\ c.request \in Requests
    /\ c.request.kind = "commit" =>
        \A m \in c.request.mutations : Owner[m.ref] = c.request.scope
Commits(c) == Asked(c) /\ c.request.kind = "commit"

\* The workspace an identifier was drawn for.
Drawn(op) == CHOOSE w \in Workspaces : Deletion[w] = op
Deletes(c) == c.request = Deleting /\ \E w \in Workspaces : Deletion[w] = c.op

\* A request as it is published: compared with the files that were read, or made
\* of the files and the secrets that were.
Prepared(c) ==
    \/ Asked(c) /\ (c.request.kind = "commit" => \A k \in DOMAIN c.request.files :
            c.files[c.request.files[k].path] = c.request.files[k].expected)
    \/ \E w \in Workspaces : \E revision \in [c.refs -> 1..MaxCalls] :
            /\ c.request = DeleteRequest(w, c.files, c.refs, revision)
            /\ \A ref \in c.refs : Owner[ref] = w

\* What a call knows at each place.
CallOK(c) ==
    /\ c.at = "idle" => c = Idle
    /\ c.at # "idle" => c.op \in OpIds
    /\ c.at = "receipt" => Commits(c)
    /\ c.at \in {"files", "record", "listed"} => Commits(c) \/ Deletes(c)
    /\ c.at \in {"refs", "revisions"} => Deletes(c)
    /\ c.at \in {"seal", "publish"} => Prepared(c)

\* The secrets a deletion has found stay the workspace's, and stay.
FoundOK(c) ==
    c.at = "revisions" =>
        \A ref \in c.refs : Owner[ref] = Drawn(c.op) /\ secrets[ref].revision > 0

\* A call adds at most one revision to a secret, and it is still to come for
\* the calls that go on.
Busy == {t \in Tabs : call[t] # Idle}
Counted == \A ref \in Refs : secrets[ref].revision + Cardinality(Busy) <= calls

\* What is about to be published was sealed with the key of its scope.
SealedOK ==
    \A t \in Tabs : call[t].at = "publish" /\ Seals(call[t].request) =>
        call[t].key # Missing /\ keys[KeyScope(t)] = call[t].key

IInv ==
    /\ Types
    /\ \A t \in Tabs : CallOK(call[t]) /\ FoundOK(call[t])
    /\ Counted /\ SealedOK /\ OneKeyPerScope /\ AnswersHaveReceipts

-----------------------------------------------------------------------------
(* Requests.                                                               *)

\* A finite set can be listed.
LEMMA Listed ==
  ASSUME NEW S, IsFiniteSet(S)
  PROVE  SetToSeq(S) \in [1..Cardinality(S) -> S] /\ Cardinality(S) \in Nat
<1>1. Cardinality(S) \in Nat /\ ExistsBijection(1..Cardinality(S), S)
  BY FS_CardinalityType
<1>2. PICK f \in [1..Cardinality(S) -> S] : IsInjective(f)
  BY <1>1 DEF ExistsBijection, Bijection, Injection
<1> QED
  BY <1>1, <1>2 DEF SetToSeq

\* What a deletion asks for, of what it has found.
LEMMA DeletionAsks ==
  ASSUME NEW w \in Workspaces, NEW found \in [Paths -> File], NEW refs \in SUBSET Refs,
         NEW revision \in [refs -> Nat]
  PROVE  LET r == DeleteRequest(w, found, refs, revision) IN
         /\ r \in Request /\ r.kind = "commit" /\ r.scope = w
         /\ \A k \in DOMAIN r.files : found[r.files[k].path] = r.files[k].expected
         /\ \A m \in r.mutations : m.ref \in refs
<1> DEFINE r == DeleteRequest(w, found, refs, revision)
           S == {[path |-> p, content |-> Absent, expected |-> found[p]] :
                 p \in {q \in Paths : found[q] # Absent}}
           F == [x \in S |-> x.path]
<1>1. S \subseteq FileChange /\ \A x \in S : found[x.path] = x.expected
  BY DEF FileChange, File
<1>2. F \in [S -> Paths] /\ \A a, b \in S : F[a] = F[b] => a = b
  OBVIOUS
<1>3. F \in Injection(S, Paths)
  BY <1>2 DEF Injection, IsInjective
<1>4. IsFiniteSet(S)
  BY <1>3, FS_Injection, BrowserAssumption DEF ExistsInjection
<1>5. SetToSeq(S) \in [1..Cardinality(S) -> S] /\ Cardinality(S) \in Nat
  BY <1>4, Listed
<1>6. r = [kind |-> "commit", scope |-> w, record |-> Absent, sealed |-> FALSE,
           files |-> SetToSeq(S),
           mutations |-> {[ref |-> ref, value |-> Absent, expected |-> revision[ref]] : ref \in refs}]
  BY DEF DeleteRequest
<1> HIDE DEF S, r
<1>7. SetToSeq(S) \in Seq(FileChange) /\ DOMAIN SetToSeq(S) = 1..Cardinality(S)
  BY <1>1, <1>5
<1>8. r.mutations \subseteq Mutation /\ \A m \in r.mutations : m.ref \in refs
  BY <1>6 DEF Mutation, Datum
<1>9. r \in Request
  BY <1>6, <1>7, <1>8 DEF Request, Scopes, Datum
<1>10. \A k \in DOMAIN r.files : found[r.files[k].path] = r.files[k].expected
  BY <1>1, <1>5, <1>6, <1>7
<1> QED
  BY <1>6, <1>8, <1>9, <1>10 DEF r

\* A request that is ready is one the ledger knows, whose secrets are its scope's
\* and whose files are those that were read.
LEMMA PreparedIsKnown ==
  ASSUME NEW c \in Call, Prepared(c)
  PROVE  /\ c.request \in Request /\ c.request \in Requests \union Deletions
         /\ c.request.kind = "commit" =>
              /\ \A m \in c.request.mutations : Owner[m.ref] = c.request.scope
              /\ \A k \in DOMAIN c.request.files :
                    c.files[c.request.files[k].path] = c.request.files[k].expected
         /\ c.request.kind # "commit" => c.request.files = <<>> /\ c.request.record = Keep
<1>1. CASE Asked(c) /\ (c.request.kind = "commit" => \A k \in DOMAIN c.request.files :
            c.files[c.request.files[k].path] = c.request.files[k].expected)
  <2>1. c.request \in Request
    BY <1>1, BrowserAssumption DEF Asked
  <2>2. c.request.kind \in {"commit", "secrets"}
    BY <2>1 DEF Request
  <2> QED
    BY <1>1, <2>1, <2>2, BrowserAssumption DEF Asked
<1>2. ASSUME NEW w \in Workspaces, NEW revision \in [c.refs -> 1..MaxCalls],
             c.request = DeleteRequest(w, c.files, c.refs, revision),
             \A ref \in c.refs : Owner[ref] = w
      PROVE  /\ c.request \in Request /\ c.request.kind = "commit"
             /\ c.request \in Deletions
             /\ \A m \in c.request.mutations : Owner[m.ref] = c.request.scope
             /\ \A k \in DOMAIN c.request.files :
                    c.files[c.request.files[k].path] = c.request.files[k].expected
  <2>1. c.files \in [Paths -> File] /\ c.refs \in SUBSET Refs
    BY DEF Call
  <2>2. revision \in [c.refs -> Nat]
    BY BrowserAssumption
  <2>3. c.refs \in SUBSET {ref \in Refs : Owner[ref] \in Workspaces}
    BY <1>2, <2>1
  <2>4. c.request \in Deletions
    <3> DEFINE Of(v, refs) == {DeleteRequest(v, found, refs, rev) :
                            found \in [Paths -> File], rev \in [refs -> 1..MaxCalls]}
    <3>1. c.request \in Of(w, c.refs)
      BY <1>2, <2>1
    <3>2. Deletions = UNION {Of(v, refs) : v \in Workspaces,
                                refs \in SUBSET {ref \in Refs : Owner[ref] \in Workspaces}}
      BY DEF Deletions
    <3> HIDE DEF Of
    <3>3. Of(w, c.refs) \in {Of(v, refs) : v \in Workspaces,
                                refs \in SUBSET {ref \in Refs : Owner[ref] \in Workspaces}}
      BY <2>3
    <3> QED
      BY <3>1, <3>2, <3>3
  <2> QED
    BY <1>2, <2>1, <2>2, <2>4, DeletionAsks
<1> QED
  BY <1>1, <1>2 DEF Prepared

-----------------------------------------------------------------------------
(* Steps.                                                                  *)

\* How many calls there are before and after a step of one tab.
LEMMA BusyMoves ==
  ASSUME Types, NEW t \in Tabs, NEW c \in Call, call' = [call EXCEPT ![t] = c]
  PROVE  /\ Cardinality(Busy) \in Nat /\ Cardinality(Busy)' \in Nat
         /\ Cardinality(Busy)' <= Cardinality(Busy) + 1
         /\ call[t] # Idle => /\ Cardinality(Busy)' <= Cardinality(Busy)
                              /\ Cardinality(Busy) > 0
                              /\ c = Idle => Cardinality(Busy)' + 1 = Cardinality(Busy)
<1>1. IsFiniteSet(Busy)
  BY FS_Subset, BrowserAssumption DEF Busy
<1>2. Busy' = IF c = Idle THEN Busy \ {t} ELSE Busy \union {t}
  BY DEF Busy, Types
<1>3. /\ IsFiniteSet(Busy \ {t}) /\ IsFiniteSet(Busy \union {t})
      /\ Cardinality(Busy \union {t}) =
            IF t \in Busy THEN Cardinality(Busy) ELSE Cardinality(Busy) + 1
      /\ Cardinality(Busy \ {t}) =
            IF t \in Busy THEN Cardinality(Busy) - 1 ELSE Cardinality(Busy)
  BY <1>1, FS_AddElement, FS_RemoveElement
<1>4. /\ Cardinality(Busy) \in Nat /\ Cardinality(Busy \ {t}) \in Nat
      /\ Cardinality(Busy \union {t}) \in Nat
  BY <1>1, <1>3, FS_CardinalityType
<1>5. t \in Busy <=> call[t] # Idle
  BY DEF Busy
<1>6. Cardinality(Busy)' = Cardinality(Busy')
  OBVIOUS
<1> QED
  BY <1>2, <1>3, <1>4, <1>5, <1>6

\* A tab that does something is counted.
LEMMA BusyCounts ==
  ASSUME Types, NEW t \in Tabs, call[t] # Idle
  PROVE  Cardinality(Busy) \in Nat /\ Cardinality(Busy) > 0
<1>1. IsFiniteSet(Busy)
  BY FS_Subset, BrowserAssumption DEF Busy
<1>2. t \in Busy
  BY DEF Busy
<1>3. Cardinality(Busy) \in Nat /\ Cardinality(Busy \ {t}) \in Nat
      /\ Cardinality(Busy \ {t}) = Cardinality(Busy) - 1
  BY <1>1, <1>2, FS_RemoveElement, FS_CardinalityType
<1> QED
  BY <1>3

\* Nothing is known of a tab that does nothing.
LEMMA IdleIsACall == Idle \in Call /\ CallOK(Idle) /\ FoundOK(Idle)
  BY DEF Idle, Call, CallOK, FoundOK, Places, NoRequest, NoFiles, File, NoRecord, Datum

\* A call goes on, or ends, and nothing is stored.
LEMMA CallGoesOn ==
  ASSUME IInv, NEW t \in Tabs, NEW c \in Call, call' = [call EXCEPT ![t] = c],
         call[t] # Idle, CallOK(c), FoundOK(c), c.at # "publish",
         answered' \subseteq OpIds \X Request, AnswersHaveReceipts',
         UNCHANGED <<stored, sealing, calls>>
  PROVE  IInv'
<1> USE DEF stored, sealing
<1>1. Types'
  BY DEF Types, IInv
<1>2. \A u \in Tabs : call'[u] = IF u = t THEN c ELSE call[u]
  BY DEF Types, IInv
<1>3. \A u \in Tabs : CallOK(call'[u]) /\ FoundOK(call[u])'
  BY <1>2 DEF IInv, FoundOK
<1>4. Counted'
  <2>1. Cardinality(Busy)' <= Cardinality(Busy) /\ Cardinality(Busy)' \in Nat
        /\ Cardinality(Busy) \in Nat
    BY BusyMoves DEF IInv
  <2>2. \A ref \in Refs : secrets[ref].revision \in Nat
    BY DEF IInv, Types
  <2> QED
    BY <2>1, <2>2, BrowserAssumption DEF Counted, IInv, Types
<1>5. SealedOK'
  BY <1>2 DEF SealedOK, IInv, KeyScope
<1>6. OneKeyPerScope'
  BY DEF OneKeyPerScope, IInv
<1> QED
  BY <1>1, <1>2, <1>3, <1>4, <1>5, <1>6 DEF IInv, CallOK

\* A call begins with a request of a client, or for a deletion.
LEMMA CallBegins ==
  ASSUME IInv, NEW t \in Tabs, NEW c \in Call, call' = [call EXCEPT ![t] = c],
         CallOK(c), c.at \notin {"revisions", "publish"},
         calls < MaxCalls, calls' = calls + 1, UNCHANGED <<stored, sealing, answered>>
  PROVE  IInv'
<1> USE DEF stored, sealing
<1>1. Types'
  BY BrowserAssumption DEF Types, IInv
<1>2. \A u \in Tabs : call'[u] = IF u = t THEN c ELSE call[u]
  BY DEF Types, IInv
<1>3. \A u \in Tabs : CallOK(call'[u]) /\ FoundOK(call[u])'
  BY <1>2 DEF IInv, FoundOK
<1>4. Counted'
  <2>1. Cardinality(Busy)' <= Cardinality(Busy) + 1 /\ Cardinality(Busy)' \in Nat
        /\ Cardinality(Busy) \in Nat
    BY BusyMoves DEF IInv
  <2>2. \A ref \in Refs : secrets[ref].revision \in Nat
    BY DEF IInv, Types
  <2> QED
    BY <2>1, <2>2, BrowserAssumption DEF Counted, IInv, Types
<1>5. SealedOK'
  BY <1>2 DEF SealedOK, IInv, KeyScope
<1>6. OneKeyPerScope' /\ AnswersHaveReceipts'
  BY DEF OneKeyPerScope, AnswersHaveReceipts, IInv
<1> QED
  BY <1>1, <1>2, <1>3, <1>4, <1>5, <1>6 DEF IInv, CallOK

\* A tab begins a save or a batch of secrets.
LEMMA BeginKeeps ==
  ASSUME IInv, NEW t \in Tabs, NEW o \in OpIds, NEW r \in Requests, Begin(t, o, r)
  PROVE  IInv'
<1> DEFINE c == [Idle EXCEPT !.op = o, !.request = r,
                    !.at = IF r.kind = "commit" THEN "receipt" ELSE "seal"]
<1>1. r \in Request /\ r.kind \in {"commit", "secrets"}
  BY BrowserAssumption DEF Request
<1>2. c \in Call /\ c.request = r /\ c.op = o
      /\ c.at = IF r.kind = "commit" THEN "receipt" ELSE "seal"
  BY <1>1, IdleIsACall DEF Call, Idle, Places
<1>3. /\ call' = [call EXCEPT ![t] = c] /\ calls < MaxCalls /\ calls' = calls + 1
      /\ UNCHANGED <<stored, sealing, answered>>
  BY DEF Begin
<1> HIDE DEF c
<1>4. Asked(c)
  BY <1>2 DEF Asked, Begin
<1>5. CASE r.kind = "commit"
  <2>1. c.at = "receipt" /\ Commits(c)
    BY <1>2, <1>4, <1>5 DEF Commits
  <2>2. CallOK(c)
    BY <1>2, <2>1 DEF CallOK
  <2> QED
    BY <1>2, <1>3, <2>1, <2>2, CallBegins
<1>6. CASE r.kind # "commit"
  <2>1. c.at = "seal" /\ Prepared(c)
    BY <1>2, <1>4, <1>6 DEF Prepared
  <2>2. CallOK(c)
    BY <1>2, <2>1 DEF CallOK
  <2> QED
    BY <1>2, <1>3, <2>1, <2>2, CallBegins
<1> QED
  BY <1>5, <1>6

\* A tab begins a deletion.
LEMMA DeleteKeeps ==
  ASSUME IInv, NEW t \in Tabs, NEW w \in Workspaces, Delete(t, w)
  PROVE  IInv'
<1> DEFINE c == [Idle EXCEPT !.op = Deletion[w], !.at = "files",
                    !.request = [NoRequest EXCEPT !.kind = "delete"]]
<1>1. Deletion[w] \in OpIds
  BY BrowserAssumption
<1>2. c \in Call /\ c.request = Deleting /\ c.op = Deletion[w] /\ c.at = "files"
  BY <1>1, IdleIsACall DEF Call, Idle, Places, Deleting, NoRequest
<1>3. CallOK(c)
  BY <1>1, <1>2 DEF CallOK, Deletes
<1> HIDE DEF c
<1> QED
  BY <1>2, <1>3, CallBegins DEF Delete, c

\* The end of a call without an answer.
LEMMA FinishKeeps ==
  ASSUME IInv, NEW t \in Tabs, call[t] # Idle, Finish(t),
         UNCHANGED <<stored, sealing, answered, calls>>
  PROVE  IInv'
<1>1. Idle \in Call /\ CallOK(Idle) /\ FoundOK(Idle) /\ Idle.at # "publish"
  BY IdleIsACall DEF Idle
<1>2. answered' \subseteq OpIds \X Request /\ AnswersHaveReceipts'
  BY DEF IInv, Types, AnswersHaveReceipts, stored
<1> QED
  BY <1>1, <1>2, CallGoesOn DEF Finish

\* The tab is closed, or something fails.
LEMMA GiveUpKeeps ==
  ASSUME IInv, NEW t \in Tabs, GiveUp(t)
  PROVE  IInv'
BY FinishKeeps DEF GiveUp

\* A call that is not over stands somewhere.
LEMMA Standing == ASSUME NEW c, c.at # "idle" PROVE c # Idle
  BY DEF Idle

\* A receipt is answered for the request it was given for, and for no other.
LEMMA ReadReceiptKeeps ==
  ASSUME IInv, NEW t \in Tabs, ReadReceipt(t)
  PROVE  IInv'
<1>1. /\ call[t] \in Call /\ CallOK(call[t]) /\ call[t].at = "receipt" /\ call[t] # Idle
      /\ Commits(call[t]) /\ call[t].op \in OpIds
  BY Standing DEF IInv, Types, ReadReceipt, CallOK
<1>2. call[t].request \in Request
  BY <1>1, BrowserAssumption DEF Commits, Asked
<1> DEFINE receipt == outcome[call[t].op]
<1>3. receipt \in {Missing} \union Operation
  BY <1>1 DEF IInv, Types
<1>4. UNCHANGED <<stored, sealing, calls>>
  BY DEF ReadReceipt
<1>5. CASE receipt # Missing /\ receipt.state = "committed"
  <2>1. Answer(t, receipt.request = call[t].request)
    BY <1>5 DEF ReadReceipt
  <2>2. answered' \subseteq OpIds \X Request
    BY <2>1, <1>1, <1>2 DEF Answer, IInv, Types
  <2>3. receipt.request = call[t].request =>
            receipt = [state |-> "committed", request |-> call[t].request]
    BY <1>3, <1>5 DEF Operation
  <2>4. AnswersHaveReceipts'
    <3>1. UNCHANGED outcome
      BY <1>4 DEF stored
    <3>2. \A a \in answered : outcome[a[1]] = [state |-> "committed", request |-> a[2]]
      BY DEF AnswersHaveReceipts, IInv
    <3>3. ASSUME NEW a \in answered'
          PROVE  outcome[a[1]] = [state |-> "committed", request |-> a[2]]
      <4>1. a \in answered \/ (receipt.request = call[t].request
                              /\ a = <<call[t].op, call[t].request>>)
        BY <2>1, <3>3 DEF Answer
      <4> QED
        BY <4>1, <3>2, <2>3
    <3> QED
      BY <3>1, <3>3 DEF AnswersHaveReceipts
  <2>5. Idle \in Call /\ CallOK(Idle) /\ FoundOK(Idle) /\ Idle.at # "publish"
    BY IdleIsACall DEF Idle
  <2> QED
    BY <2>1, <2>2, <2>4, <2>5, <1>1, <1>4, CallGoesOn DEF Answer, Finish
<1>6. CASE ~(receipt # Missing /\ receipt.state = "committed")
  <2> DEFINE c == [call[t] EXCEPT !.at = "files"]
  <2>1. call' = [call EXCEPT ![t] = c] /\ answered' = answered
    BY <1>6, <1>1 DEF ReadReceipt, Move, IInv, Types
  <2>2. c \in Call /\ c.at = "files" /\ c.request = call[t].request /\ c.op = call[t].op
    BY <1>1 DEF Call, Places
  <2> HIDE DEF c
  <2>3. CallOK(c) /\ FoundOK(c)
    BY <2>2, <1>1 DEF CallOK, FoundOK, Commits, Asked
  <2>4. answered' \subseteq OpIds \X Request /\ AnswersHaveReceipts'
    BY <2>1, <1>4 DEF IInv, Types, AnswersHaveReceipts, stored
  <2> QED
    BY <2>1, <2>2, <2>3, <2>4, <1>1, <1>4, CallGoesOn
<1> QED
  BY <1>5, <1>6

\* The scope of a call that reads.
LEMMA ReadsAScope ==
  ASSUME NEW t \in Tabs, Commits(call[t]) \/ Deletes(call[t])
  PROVE  /\ ScopeOf(t) \in Scopes
         /\ Deletes(call[t]) => /\ ScopeOf(t) = Drawn(call[t].op)
                                /\ ScopeOf(t) \in Workspaces
                                /\ Deletion[ScopeOf(t)] = call[t].op
<1>1. CASE Deletes(call[t])
  <2>1. Drawn(call[t].op) \in Workspaces /\ Deletion[Drawn(call[t].op)] = call[t].op
    BY <1>1 DEF Deletes, Drawn
  <2> QED
    BY <1>1, <2>1 DEF Deletes, Deleting, ScopeOf, Drawn, Scopes
<1>2. CASE Commits(call[t]) /\ ~Deletes(call[t])
  BY <1>2, BrowserAssumption DEF Commits, Asked, ScopeOf, Request
<1> QED
  BY <1>1, <1>2

\* What a step that only reads needs to show of the call it leaves.
LEMMA ReadKeeps ==
  ASSUME IInv, NEW t \in Tabs, NEW c \in Call, call' = [call EXCEPT ![t] = c],
         call[t].at # "idle", CallOK(c), FoundOK(c), c.at # "publish",
         UNCHANGED <<stored, sealing, answered, calls>>
  PROVE  IInv'
<1>1. answered' \subseteq OpIds \X Request /\ AnswersHaveReceipts'
  BY DEF IInv, Types, AnswersHaveReceipts, stored
<1> QED
  BY <1>1, CallGoesOn, Standing

LEMMA ReadFilesKeeps ==
  ASSUME IInv, NEW t \in Tabs, ReadFiles(t)
  PROVE  IInv'
<1> DEFINE found == IF ScopeOf(t) = Global THEN NoFiles ELSE files[ScopeOf(t)]
           c == [call[t] EXCEPT !.at = "record", !.files = found]
<1>1. /\ call[t] \in Call /\ call[t].at = "files" /\ call[t].op \in OpIds
      /\ Commits(call[t]) \/ Deletes(call[t])
  BY DEF IInv, Types, ReadFiles, CallOK
<1>2. found \in [Paths -> File]
  BY <1>1, ReadsAScope DEF IInv, Types, Scopes, NoFiles, File
<1>3. call' = [call EXCEPT ![t] = c]
  BY DEF ReadFiles, IInv, Types
<1>4. c \in Call /\ c.at = "record" /\ c.request = call[t].request /\ c.op = call[t].op
  BY <1>1, <1>2 DEF Call, Places
<1> HIDE DEF c, found
<1>5. CallOK(c) /\ FoundOK(c)
  BY <1>1, <1>4 DEF CallOK, FoundOK, Commits, Asked, Deletes
<1> QED
  BY <1>1, <1>3, <1>4, <1>5, ReadKeeps DEF ReadFiles

LEMMA ReadRecordKeeps ==
  ASSUME IInv, NEW t \in Tabs, ReadRecord(t)
  PROVE  IInv'
<1> DEFINE c == [call[t] EXCEPT !.at = "listed", !.record = records[ScopeOf(t)]]
<1>1. /\ call[t] \in Call /\ call[t].at = "record" /\ call[t].op \in OpIds
      /\ Commits(call[t]) \/ Deletes(call[t])
  BY DEF IInv, Types, ReadRecord, CallOK
<1>2. records[ScopeOf(t)] \in [value : Datum, sealed : BOOLEAN]
  BY <1>1, ReadsAScope DEF IInv, Types
<1>3. call' = [call EXCEPT ![t] = c]
  BY DEF ReadRecord, IInv, Types
<1>4. c \in Call /\ c.at = "listed" /\ c.request = call[t].request /\ c.op = call[t].op
  BY <1>1, <1>2 DEF Call, Places
<1> HIDE DEF c
<1>5. CallOK(c) /\ FoundOK(c)
  BY <1>1, <1>4 DEF CallOK, FoundOK, Commits, Asked, Deletes
<1> QED
  BY <1>1, <1>3, <1>4, <1>5, ReadKeeps DEF ReadRecord

\* A save goes on if the files are those it was made for.
LEMMA ReadListedKeeps ==
  ASSUME IInv, NEW t \in Tabs, ReadListed(t)
  PROVE  IInv'
<1>1. /\ call[t] \in Call /\ call[t].at = "listed" /\ call[t].op \in OpIds
      /\ Commits(call[t]) \/ Deletes(call[t])
      /\ listed \subseteq Workspaces
  BY DEF IInv, Types, ReadListed, CallOK
<1>2. UNCHANGED <<stored, sealing, answered, calls>>
  BY DEF ReadListed
<1>3. CASE call[t].request.kind = "delete"
  <2> DEFINE c == [call[t] EXCEPT !.at = "refs", !.listed = listed]
  <2>1. call' = [call EXCEPT ![t] = c]
    BY <1>3 DEF ReadListed, IInv, Types
  <2>2. c \in Call /\ c.at = "refs" /\ c.request = call[t].request /\ c.op = call[t].op
    BY <1>1 DEF Call, Places
  <2> HIDE DEF c
  <2>3. Deletes(c)
    BY <1>1, <1>3, <2>2 DEF Commits, Deletes
  <2>4. CallOK(c) /\ FoundOK(c)
    BY <1>1, <2>2, <2>3 DEF CallOK, FoundOK
  <2> QED
    BY <1>1, <1>2, <2>1, <2>2, <2>4, ReadKeeps
<1>4. CASE call[t].request.kind # "delete" /\ AsExpected(t)
  <2> DEFINE c == [call[t] EXCEPT !.at = "seal", !.listed = listed]
  <2>1. call' = [call EXCEPT ![t] = c]
    BY <1>4 DEF ReadListed, IInv, Types
  <2>2. c \in Call /\ c.at = "seal" /\ c.request = call[t].request /\ c.op = call[t].op
        /\ c.files = call[t].files
    BY <1>1 DEF Call, Places
  <2> HIDE DEF c
  <2>3. Prepared(c)
    BY <1>1, <1>4, <2>2 DEF Commits, Deletes, Deleting, Prepared, Asked, AsExpected
  <2>4. CallOK(c) /\ FoundOK(c)
    BY <1>1, <2>2, <2>3 DEF CallOK, FoundOK
  <2> QED
    BY <1>1, <1>2, <2>1, <2>2, <2>4, ReadKeeps
<1>5. CASE call[t].request.kind # "delete" /\ ~AsExpected(t)
  BY <1>1, <1>2, <1>5, FinishKeeps, Standing DEF ReadListed
<1> QED
  BY <1>3, <1>4, <1>5

LEMMA ReadRefsKeeps ==
  ASSUME IInv, NEW t \in Tabs, ReadRefs(t)
  PROVE  IInv'
<1> DEFINE c == [call[t] EXCEPT !.at = "revisions", !.refs = RefsOf(ScopeOf(t))]
<1>1. /\ call[t] \in Call /\ call[t].at = "refs" /\ call[t].op \in OpIds
      /\ Deletes(call[t])
  BY DEF IInv, Types, ReadRefs, CallOK
<1>2. RefsOf(ScopeOf(t)) \subseteq Refs
      /\ \A ref \in RefsOf(ScopeOf(t)) : Owner[ref] = Drawn(call[t].op)
                                         /\ secrets[ref].revision > 0
  BY <1>1, ReadsAScope DEF RefsOf
<1>3. call' = [call EXCEPT ![t] = c]
  BY DEF ReadRefs, IInv, Types
<1>4. c \in Call /\ c.at = "revisions" /\ c.request = call[t].request /\ c.op = call[t].op
      /\ c.refs = RefsOf(ScopeOf(t))
  BY <1>1, <1>2 DEF Call, Places
<1> HIDE DEF c
<1>5. CallOK(c) /\ FoundOK(c)
  BY <1>1, <1>2, <1>4 DEF CallOK, FoundOK, Deletes
<1> QED
  BY <1>1, <1>3, <1>4, <1>5, ReadKeeps DEF ReadRefs

\* A deletion asks for what it has found, at revisions within the bound.
LEMMA ReadRevisionsKeeps ==
  ASSUME IInv, NEW t \in Tabs, ReadRevisions(t)
  PROVE  IInv'
<1> DEFINE w == ScopeOf(t)
           found == call[t].files
           refs == call[t].refs
           revision == [ref \in Refs |-> secrets[ref].revision]
           within == [ref \in refs |-> secrets[ref].revision]
           c == [call[t] EXCEPT !.at = "seal", !.request = DeleteRequest(w, found, refs, revision)]
<1>1. /\ call[t] \in Call /\ call[t].at = "revisions" /\ call[t].op \in OpIds
      /\ Deletes(call[t]) /\ FoundOK(call[t]) /\ call[t] # Idle
  BY Standing DEF IInv, Types, ReadRevisions, CallOK
<1>2. w \in Workspaces /\ w = Drawn(call[t].op)
  BY <1>1, ReadsAScope
<1>3. refs \in SUBSET Refs /\ found \in [Paths -> File]
  BY <1>1 DEF Call
<1>4. Cardinality(Busy) \in Nat /\ Cardinality(Busy) > 0
  BY <1>1, BusyCounts DEF IInv
<1>5. within \in [refs -> 1..MaxCalls]
  <2>1. \A ref \in refs : secrets[ref].revision \in 1..MaxCalls
    BY <1>1, <1>3, <1>4, BrowserAssumption DEF FoundOK, IInv, Types, Counted
  <2> QED
    BY <2>1
<1>6. DeleteRequest(w, found, refs, revision) = DeleteRequest(w, found, refs, within)
  BY <1>3 DEF DeleteRequest
<1>7. DeleteRequest(w, found, refs, within) \in Request
  <2>1. within \in [refs -> Nat]
    BY <1>5, BrowserAssumption
  <2> HIDE DEF w, found, refs, within
  <2> QED
    BY <1>2, <1>3, <2>1, DeletionAsks
<1>8. call' = [call EXCEPT ![t] = c]
  BY DEF ReadRevisions, IInv, Types
<1>9. /\ c \in Call /\ c.at = "seal" /\ c.op = call[t].op /\ c.files = found
      /\ c.refs = refs /\ c.request = DeleteRequest(w, found, refs, within)
  BY <1>1, <1>6, <1>7 DEF Call, Places
<1>10. \A ref \in refs : Owner[ref] = w
  BY <1>1, <1>2 DEF FoundOK
<1> HIDE DEF c, w, found, refs, within, revision
<1>11. Prepared(c)
  BY <1>2, <1>5, <1>9, <1>10 DEF Prepared
<1>12. CallOK(c) /\ FoundOK(c)
  BY <1>1, <1>9, <1>11 DEF CallOK, FoundOK
<1> QED
  BY <1>1, <1>8, <1>9, <1>12, ReadKeeps DEF ReadRevisions

\* Where a call's key belongs is its request's.
LEMMA KeyScopeStays ==
  ASSUME NEW u, call'[u].request = call[u].request
  PROVE  KeyScope(u)' = KeyScope(u)
<1> DEFINE Of(r) == IF r.kind = "commit" THEN r.scope
                    ELSE Owner[(CHOOSE m \in r.mutations : TRUE).ref]
<1>1. KeyScope(u) = Of(call[u].request) /\ KeyScope(u)' = Of(call'[u].request)
  BY DEF KeyScope
<1> HIDE DEF Of
<1> QED
  BY <1>1

\* What is sealed belongs to a scope.
LEMMA KeyScopeIsOne ==
  ASSUME Types, NEW t \in Tabs, Prepared(call[t]), Seals(call[t].request)
  PROVE  KeyScope(t) \in Scopes
<1> DEFINE r == call[t].request
<1>1. call[t] \in Call
  BY DEF Types
<1>2. r \in Request /\ (r.kind # "commit" => r.record = Keep)
  BY <1>1, PreparedIsKnown
<1>3. CASE r.kind = "commit"
  BY <1>2, <1>3 DEF KeyScope, Request
<1>4. CASE r.kind # "commit"
  <2>1. r.mutations # {} /\ r.mutations \subseteq Mutation
    BY <1>2, <1>4 DEF Seals, Request
  <2>2. (CHOOSE m \in r.mutations : TRUE) \in Mutation
    BY <2>1
  <2> QED
    BY <1>4, <2>2, BrowserAssumption DEF KeyScope, Mutation
<1> QED
  BY <1>3, <1>4

\* Whoever seals first makes the key, and all others take it.
LEMMA SealKeeps ==
  ASSUME IInv, NEW t \in Tabs, Seal(t)
  PROVE  IInv'
<1> DEFINE sealed == Seals(call[t].request)
           scope == KeyScope(t)
           key == KeyOf(t, scope)
           c == IF sealed THEN [call[t] EXCEPT !.at = "publish", !.key = key]
                ELSE [call[t] EXCEPT !.at = "publish"]
<1>1. /\ call[t] \in Call /\ call[t].at = "seal" /\ call[t].op \in OpIds
      /\ Prepared(call[t]) /\ call[t] # Idle
  BY Standing DEF IInv, Types, Seal, CallOK
<1>2. sealed => scope \in Scopes
  BY <1>1, KeyScopeIsOne DEF IInv
<1>3. sealed => key \in Tabs /\ key # Missing /\ (keys[scope] # Missing => key = keys[scope])
  BY <1>2, BrowserAssumption DEF KeyOf, IInv, Types
<1>4. call' = [call EXCEPT ![t] = c]
  BY DEF Seal, Move, IInv, Types
<1>5. /\ c \in Call /\ c.at = "publish" /\ c.op = call[t].op /\ c.request = call[t].request
      /\ c.files = call[t].files /\ c.refs = call[t].refs /\ (sealed => c.key = key)
  BY <1>1, <1>3 DEF Call, Places
<1>6. keys' = IF sealed THEN [keys EXCEPT ![scope] = key] ELSE keys
  BY DEF Seal
<1>7. UNCHANGED <<stored, published, answered, calls>>
  BY DEF Seal
<1>8. \A s \in Scopes : keys[s] # Missing => keys'[s] = keys[s]
  BY <1>2, <1>3, <1>6 DEF IInv, Types
<1>9. sealed => keys'[scope] = key
  BY <1>2, <1>6 DEF IInv, Types
<1>10. \A u \in Tabs : call'[u] = IF u = t THEN c ELSE call[u]
  BY <1>4 DEF IInv, Types
<1>11. KeyScope(t)' = scope
  <2>1. call'[t].request = call[t].request
    BY <1>5, <1>10
  <2> QED
    BY <2>1, KeyScopeStays
<1> HIDE DEF c, key, scope, sealed
<1>12. Types'
  <2>1. keys' \in [Scopes -> Tabs \union {Missing}]
    BY <1>2, <1>3, <1>6 DEF IInv, Types
  <2>2. call' \in [Tabs -> Call]
    BY <1>4, <1>5 DEF IInv, Types
  <2> QED
    BY <1>7, <2>1, <2>2 DEF IInv, Types, stored
<1>13. Prepared(c)
  BY <1>1, <1>5 DEF Prepared, Asked
<1>14. CallOK(c)
  BY <1>1, <1>5, <1>13 DEF CallOK
<1>15. \A u \in Tabs : CallOK(call'[u]) /\ FoundOK(call[u])'
  <2>1. ASSUME NEW u \in Tabs PROVE FoundOK(call[u])'
    <3>1. call'[u].at = "revisions" => call'[u] = call[u]
      BY <1>5, <1>10
    <3>2. FoundOK(call[u]) /\ UNCHANGED secrets
      BY <1>7 DEF IInv, stored
    <3> QED
      BY <3>1, <3>2 DEF FoundOK
  <2> QED
    BY <1>10, <1>14, <2>1 DEF IInv
<1>16. Counted'
  <2>1. /\ Cardinality(Busy)' <= Cardinality(Busy) /\ Cardinality(Busy)' \in Nat
        /\ Cardinality(Busy) \in Nat
    BY <1>1, <1>4, <1>5, BusyMoves DEF IInv
  <2>2. \A ref \in Refs : secrets[ref].revision \in Nat
    BY DEF IInv, Types
  <2> QED
    BY <1>7, <2>1, <2>2, BrowserAssumption DEF Counted, IInv, Types, stored
<1>17. SealedOK'
  <2>1. ASSUME NEW u \in Tabs, call'[u].at = "publish", Seals(call'[u].request), u # t
        PROVE  call'[u].key # Missing /\ keys'[KeyScope(u)'] = call'[u].key
    <3>1. call'[u] = call[u] /\ KeyScope(u)' = KeyScope(u)
      BY <1>10, <2>1, KeyScopeStays
    <3>2. call[u].key # Missing /\ keys[KeyScope(u)] = call[u].key
      BY <2>1, <3>1 DEF IInv, SealedOK
    <3>3. KeyScope(u) \in Scopes
      BY <2>1, <3>1, KeyScopeIsOne DEF IInv, CallOK
    <3> QED
      BY <3>1, <3>2, <3>3, <1>8
  <2>2. Seals(call'[t].request) =>
            call'[t].key # Missing /\ keys'[KeyScope(t)'] = call'[t].key
    BY <1>3, <1>5, <1>9, <1>10, <1>11 DEF sealed
  <2> QED
    BY <2>1, <2>2 DEF SealedOK
<1>18. OneKeyPerScope'
  <2>1. ASSUME NEW s \in Scopes PROVE published[s] \subseteq {keys'[s]}
    <3>1. published[s] \subseteq {keys[s]} /\ published[s] \subseteq Tabs
      BY DEF IInv, OneKeyPerScope, Types
    <3> QED
      BY <3>1, <1>8, BrowserAssumption
  <2> QED
    BY <1>7, <2>1 DEF OneKeyPerScope
<1>19. AnswersHaveReceipts'
  BY <1>7 DEF IInv, AnswersHaveReceipts, stored
<1> QED
  BY <1>12, <1>15, <1>16, <1>17, <1>18, <1>19 DEF IInv

\* The transaction of a call: a receipt is written, and whatever is published with
\* it is sealed with the key of its scope and advances secrets by one revision.
LEMMA TransactionKeeps ==
  ASSUME IInv, NEW t \in Tabs, NEW state \in {"committed", "aborted"},
         call[t].at = "publish", Receipt(t) = Missing,
         Record(t, state), Answer(t, state = "committed"), UNCHANGED <<keys, calls>>,
         files' \in [Workspaces -> [Paths -> File]],
         records' \in [Scopes -> [value : Datum, sealed : BOOLEAN]],
         secrets' \in [Refs -> [value : Datum, revision : Nat]],
         \A ref \in Refs : secrets'[ref].revision
                              \in {secrets[ref].revision, secrets[ref].revision + 1},
         listed' \subseteq Workspaces,
         published' \in [Scopes -> SUBSET Tabs],
         \A s \in Scopes : published'[s] \subseteq {keys[s]}
  PROVE  IInv'
<1> DEFINE op == call[t].op
           r == call[t].request
<1>1. /\ call[t] \in Call /\ op \in OpIds /\ Prepared(call[t]) /\ call[t] # Idle
  BY Standing DEF IInv, Types, CallOK
<1>2. r \in Request
  BY <1>1, PreparedIsKnown
<1>3. call' = [call EXCEPT ![t] = Idle] /\ Idle \in Call
  BY IdleIsACall DEF Answer, Finish
<1>4. outcome' = [outcome EXCEPT ![op] = [state |-> state, request |-> r]]
      /\ [state |-> state, request |-> r] \in Operation
  BY <1>2 DEF Record, Operation
<1>5. answered' = IF state = "committed" THEN answered \union {<<op, r>>} ELSE answered
  BY DEF Answer
<1>6. Types'
  <2>1. outcome' \in [OpIds -> {Missing} \union Operation]
    BY <1>1, <1>4 DEF IInv, Types
  <2>2. answered' \subseteq OpIds \X Request
    BY <1>1, <1>2, <1>5 DEF IInv, Types
  <2>3. call' \in [Tabs -> Call]
    BY <1>3 DEF IInv, Types
  <2> QED
    BY <2>1, <2>2, <2>3 DEF IInv, Types
<1>7. \A u \in Tabs : call'[u] = IF u = t THEN Idle ELSE call[u]
  BY <1>3 DEF IInv, Types
<1>8. \A u \in Tabs : CallOK(call'[u]) /\ FoundOK(call[u])'
  <2>1. ASSUME NEW u \in Tabs PROVE FoundOK(call[u])'
    <3>1. call'[u].at = "revisions" => call'[u] = call[u] /\ call[u] \in Call
      BY <1>7 DEF Idle, IInv, Types
    <3>2. \A ref \in Refs : secrets[ref].revision \in Nat
                            /\ (secrets[ref].revision > 0 => secrets'[ref].revision > 0)
      BY DEF IInv, Types
    <3> QED
      BY <3>1, <3>2 DEF IInv, FoundOK, Call
  <2> QED
    BY <1>7, <2>1, IdleIsACall DEF IInv
<1>9. Counted'
  <2>1. /\ Cardinality(Busy)' + 1 = Cardinality(Busy) /\ Cardinality(Busy)' \in Nat
        /\ Cardinality(Busy) \in Nat
    BY <1>1, <1>3, BusyMoves DEF IInv
  <2>2. ASSUME NEW ref \in Refs
        PROVE  /\ secrets[ref].revision \in Nat /\ secrets'[ref].revision \in Nat
               /\ secrets'[ref].revision <= secrets[ref].revision + 1
               /\ secrets[ref].revision + Cardinality(Busy) <= calls
    BY DEF IInv, Types, Counted
  <2>3. calls \in Nat /\ calls' = calls
    BY BrowserAssumption DEF IInv, Types
  <2> QED
    BY <2>1, <2>2, <2>3 DEF Counted
<1>10. SealedOK'
  <2>1. ASSUME NEW u \in Tabs, call'[u].at = "publish"
        PROVE  call'[u] = call[u] /\ KeyScope(u)' = KeyScope(u)
    BY <1>7, <2>1, KeyScopeStays DEF Idle
  <2> QED
    BY <2>1 DEF SealedOK, IInv
<1>11. OneKeyPerScope'
  BY DEF OneKeyPerScope
<1>12. AnswersHaveReceipts'
  <2>1. outcome[op] = Missing
    BY DEF Receipt
  <2>2. ASSUME NEW a \in answered
        PROVE  outcome'[a[1]] = [state |-> "committed", request |-> a[2]]
    <3>1. outcome[a[1]] = [state |-> "committed", request |-> a[2]] /\ a[1] \in OpIds
          /\ a[2] \in Request
      BY DEF IInv, AnswersHaveReceipts, Types
    <3>2. outcome[a[1]] # Missing
      BY <3>1, BrowserAssumption DEF Operation
    <3> QED
      BY <3>1, <3>2, <2>1, <1>4 DEF IInv, Types
  <2>3. outcome'[op] = [state |-> state, request |-> r]
    BY <1>1, <1>4 DEF IInv, Types
  <2>4. ASSUME NEW a \in answered'
        PROVE  outcome'[a[1]] = [state |-> "committed", request |-> a[2]]
    <3>1. a \in answered \/ (state = "committed" /\ a = <<op, r>>)
      BY <1>5, <2>4
    <3> QED
      BY <3>1, <2>2, <2>3
  <2> QED
    BY <2>4 DEF AnswersHaveReceipts
<1> QED
  BY <1>6, <1>8, <1>9, <1>10, <1>11, <1>12 DEF IInv

\* What a transaction stores has the shape of what was there.
LEMMA ApplyTypes ==
  ASSUME IInv, NEW t \in Tabs, call[t].at = "publish", Apply(t)
  PROVE  /\ files' \in [Workspaces -> [Paths -> File]]
         /\ records' \in [Scopes -> [value : Datum, sealed : BOOLEAN]]
         /\ secrets' \in [Refs -> [value : Datum, revision : Nat]]
         /\ \A ref \in Refs : secrets'[ref].revision
                                \in {secrets[ref].revision, secrets[ref].revision + 1}
         /\ listed' \subseteq Workspaces
         /\ published' \in [Scopes -> SUBSET Tabs]
         /\ \A s \in Scopes : published'[s] \subseteq {keys[s]}
<1> DEFINE r == call[t].request
<1>1. call[t] \in Call /\ Prepared(call[t])
  BY DEF IInv, Types, CallOK
<1>2. r \in Request
  BY <1>1, PreparedIsKnown
<1>3. files' \in [Workspaces -> [Paths -> File]]
  <2>1. ASSUME NEW w \in Workspaces, NEW p \in Paths
        PROVE  (IF r.scope = w /\ \E k \in DOMAIN r.files : r.files[k].path = p
                THEN r.files[CHOOSE k \in DOMAIN r.files : r.files[k].path = p].content
                ELSE files[w][p]) \in File
    <3>1. CASE \E k \in DOMAIN r.files : r.files[k].path = p
      <4>1. (CHOOSE k \in DOMAIN r.files : r.files[k].path = p) \in DOMAIN r.files
        BY <3>1
      <4>2. \A k \in DOMAIN r.files : r.files[k] \in FileChange
        BY <1>2 DEF Request
      <4>3. files[w][p] \in File
        BY DEF IInv, Types
      <4> QED
        BY <4>1, <4>2, <4>3 DEF FileChange
    <3>2. CASE ~\E k \in DOMAIN r.files : r.files[k].path = p
      BY <3>2 DEF IInv, Types
    <3> QED
      BY <3>1, <3>2
  <2> QED
    BY <2>1 DEF Apply
<1>4. records' \in [Scopes -> [value : Datum, sealed : BOOLEAN]]
  BY <1>2 DEF Apply, IInv, Types, Request
<1>5. ASSUME NEW ref \in Refs
      PROVE  /\ secrets'[ref] \in [value : Datum, revision : Nat]
             /\ secrets'[ref].revision \in {secrets[ref].revision, secrets[ref].revision + 1}
  <2>1. secrets[ref] \in [value : Datum, revision : Nat]
    BY DEF IInv, Types
  <2>2. CASE \E m \in r.mutations : m.ref = ref
    <3> DEFINE mutation == CHOOSE m \in r.mutations : m.ref = ref
    <3>1. mutation \in Mutation
      BY <1>2, <2>2 DEF Request
    <3>2. secrets'[ref] = [value |-> mutation.value, revision |-> secrets[ref].revision + 1]
      BY <2>2 DEF Apply
    <3> HIDE DEF mutation
    <3> QED
      BY <2>1, <3>1, <3>2 DEF Mutation
  <2>3. CASE ~\E m \in r.mutations : m.ref = ref
    BY <2>1, <2>3 DEF Apply
  <2> QED
    BY <2>2, <2>3
<1>6. secrets' \in [Refs -> [value : Datum, revision : Nat]]
  <2>1. secrets' = [ref \in Refs |-> secrets'[ref]]
    BY DEF Apply
  <2> QED
    BY <2>1, <1>5
<1>7. listed' \subseteq Workspaces
  BY <1>2 DEF Apply, IInv, Types, Request, Scopes
<1>8. /\ published' \in [Scopes -> SUBSET Tabs]
      /\ \A s \in Scopes : published'[s] \subseteq {keys[s]}
  <2>1. /\ published \in [Scopes -> SUBSET Tabs]
        /\ \A s \in Scopes : published[s] \subseteq {keys[s]}
    BY DEF IInv, Types, OneKeyPerScope
  <2>2. CASE Seals(r)
    <3>1. /\ KeyScope(t) \in Scopes /\ call[t].key \in Tabs
          /\ keys[KeyScope(t)] = call[t].key
      BY <1>1, <2>2, KeyScopeIsOne DEF IInv, SealedOK, Call
    <3>2. published' = [published EXCEPT ![KeyScope(t)] = @ \union {call[t].key}]
      BY <2>2 DEF Apply
    <3> QED
      BY <2>1, <3>1, <3>2
  <2>3. CASE ~Seals(r)
    BY <2>1, <2>3 DEF Apply
  <2> QED
    BY <2>2, <2>3
<1> QED
  BY <1>3, <1>4, <1>5, <1>6, <1>7, <1>8

LEMMA PublishKeeps ==
  ASSUME IInv, NEW t \in Tabs, Publish(t)
  PROVE  IInv'
<1>1. /\ call[t] \in Call /\ call[t].at = "publish" /\ call[t].op \in OpIds
      /\ call[t] # Idle /\ Prepared(call[t]) /\ UNCHANGED <<keys, calls>>
  BY Standing DEF IInv, Types, CallOK, Publish
<1>2. CASE Receipt(t) # Missing
  <2> DEFINE success == Receipt(t).state = "committed" /\ Receipt(t).request = call[t].request
  <2>1. Answer(t, success) /\ UNCHANGED <<stored, published>>
    BY <1>2 DEF Publish
  <2>2. call[t].request \in Request
    BY <1>1, PreparedIsKnown
  <2>3. answered' \subseteq OpIds \X Request
    BY <1>1, <2>1, <2>2 DEF Answer, IInv, Types
  <2>4. success => outcome[call[t].op] = [state |-> "committed", request |-> call[t].request]
    BY <1>1, <1>2 DEF Receipt, IInv, Types, Operation
  <2>5. AnswersHaveReceipts'
    <3>1. UNCHANGED outcome
      BY <2>1 DEF stored
    <3>2. \A a \in answered : outcome[a[1]] = [state |-> "committed", request |-> a[2]]
      BY DEF AnswersHaveReceipts, IInv
    <3>3. ASSUME NEW a \in answered'
          PROVE  outcome[a[1]] = [state |-> "committed", request |-> a[2]]
      <4>1. a \in answered \/ (success /\ a = <<call[t].op, call[t].request>>)
        BY <2>1, <3>3 DEF Answer
      <4> QED
        BY <4>1, <3>2, <2>4
    <3> QED
      BY <3>1, <3>3 DEF AnswersHaveReceipts
  <2>6. Idle \in Call /\ CallOK(Idle) /\ FoundOK(Idle) /\ Idle.at # "publish"
    BY IdleIsACall DEF Idle
  <2> QED
    BY <1>1, <2>1, <2>3, <2>5, <2>6, CallGoesOn DEF Answer, Finish, sealing
<1>3. CASE Receipt(t) = Missing /\ AsRead(t) /\ Revisions(t)
  <2>1. Apply(t) /\ Record(t, "committed") /\ Answer(t, TRUE)
    BY <1>3 DEF Publish
  <2>2. Answer(t, "committed" = "committed")
    BY <2>1 DEF Answer
  <2> QED
    BY <1>1, <1>3, <2>1, <2>2, ApplyTypes, TransactionKeeps
<1>4. CASE Receipt(t) = Missing /\ ~(AsRead(t) /\ Revisions(t))
  <2>1. /\ Record(t, "aborted") /\ Answer(t, FALSE)
        /\ UNCHANGED <<files, records, secrets, listed, published>>
    BY <1>4 DEF Publish
  <2>2. Answer(t, "aborted" = "committed")
    BY <2>1 DEF Answer
  <2>3. /\ files' \in [Workspaces -> [Paths -> File]]
        /\ records' \in [Scopes -> [value : Datum, sealed : BOOLEAN]]
        /\ secrets' \in [Refs -> [value : Datum, revision : Nat]]
        /\ \A ref \in Refs : secrets'[ref].revision = secrets[ref].revision
        /\ listed' \subseteq Workspaces
        /\ published' \in [Scopes -> SUBSET Tabs]
        /\ \A s \in Scopes : published'[s] \subseteq {keys[s]}
    BY <2>1 DEF IInv, Types, OneKeyPerScope
  <2> QED
    BY <1>1, <1>4, <2>1, <2>2, <2>3, TransactionKeeps
<1> QED
  BY <1>2, <1>3, <1>4

LEMMA NextKeeps == IInv /\ [Next]_vars => IInv'
<1> SUFFICES ASSUME IInv, [Next]_vars PROVE IInv'
  OBVIOUS
<1>1. CASE Next
  <2>1. PICK t \in Tabs :
            \/ \E o \in OpIds, r \in Requests : Begin(t, o, r)
            \/ \E w \in Workspaces : Delete(t, w)
            \/ Step(t) \/ GiveUp(t)
    BY <1>1 DEF Next
  <2> QED
    BY <2>1, BeginKeeps, DeleteKeeps, ReadReceiptKeeps, ReadFilesKeeps, ReadRecordKeeps,
       ReadListedKeeps, ReadRefsKeeps, ReadRevisionsKeeps, SealKeeps, PublishKeeps,
       GiveUpKeeps
    DEF Step
<1>2. CASE UNCHANGED vars
  <2> USE DEF vars
  <2>1. Types' /\ OneKeyPerScope' /\ AnswersHaveReceipts'
    BY <1>2 DEF IInv, Types, OneKeyPerScope, AnswersHaveReceipts
  <2>2. \A t \in Tabs : CallOK(call'[t]) /\ FoundOK(call[t])'
    BY <1>2 DEF IInv, FoundOK
  <2>3. Counted'
    BY <1>2 DEF IInv, Counted, Busy
  <2>4. SealedOK'
    BY <1>2, KeyScopeStays DEF IInv, SealedOK
  <2> QED
    BY <2>1, <2>2, <2>3, <2>4 DEF IInv
<1> QED
  BY <1>1, <1>2

LEMMA InitOK == Init => IInv
<1> SUFFICES ASSUME Init PROVE IInv
  OBVIOUS
<1>1. Types
  BY IdleIsACall, BrowserAssumption
  DEF Init, Types, NoFiles, NoRecord, File, Datum
<1>2. \A t \in Tabs : CallOK(call[t]) /\ FoundOK(call[t]) /\ call[t] = Idle
  BY IdleIsACall DEF Init
<1>3. Counted
  <2>1. Busy = {}
    BY <1>2 DEF Busy
  <2>2. Cardinality(Busy) = 0
    BY <2>1, FS_EmptySet
  <2> QED
    BY <2>2 DEF Counted, Init
<1>4. SealedOK
  BY <1>2 DEF SealedOK, Idle
<1>5. OneKeyPerScope /\ AnswersHaveReceipts
  BY DEF Init, OneKeyPerScope, AnswersHaveReceipts
<1> QED
  BY <1>1, <1>2, <1>3, <1>4, <1>5 DEF IInv

\* What every call of a tab knows is so in every state.
THEOREM BrowserInvariance == Spec => []IInv
  BY InitOK, NextKeeps, PTL DEF Spec

-----------------------------------------------------------------------------
(* The ledger.                                                             *)

\* The transaction that publishes is the ledger's commit.
LEMMA PublishIsCommit ==
  ASSUME IInv, NEW t \in Tabs, Publish(t), Receipt(t) = Missing, AsRead(t), Revisions(t)
  PROVE  /\ call[t].op \in OpIds /\ call[t].request \in Requests \union Deletions
         /\ Ledger!Commit(call[t].op, call[t].request)
<1> DEFINE r == call[t].request
           op == call[t].op
<1>1. /\ call[t] \in Call /\ op \in OpIds /\ Prepared(call[t]) /\ call[t].at = "publish"
  BY DEF IInv, Types, CallOK, Publish
<1>2. /\ r \in Request /\ r \in Requests \union Deletions
      /\ r.kind = "commit" =>
              /\ \A m \in r.mutations : Owner[m.ref] = r.scope
              /\ \A k \in DOMAIN r.files : call[t].files[r.files[k].path] = r.files[k].expected
      /\ r.kind # "commit" => r.files = <<>> /\ r.record = Keep
  BY <1>1, PreparedIsKnown
<1>3. Apply(t) /\ Record(t, "committed")
  BY DEF Publish
<1>4. \A w \in Workspaces :
        Ledger!Uncontested(r, w) = IF r.scope = w THEN DOMAIN r.files ELSE {}
  BY DEF Ledger!Uncontested
<1>5. outcome[op] = Missing
  BY DEF Receipt
<1>6. \A m \in r.mutations : secrets[m.ref].revision = m.expected
  BY DEF Revisions
<1>7. ASSUME NEW w \in Workspaces, NEW k \in Ledger!Uncontested(r, w)
      PROVE  files[w][r.files[k].path] = r.files[k].expected
  <2>1. r.scope = w /\ k \in DOMAIN r.files
    BY <1>4
  <2>2. r.kind = "commit"
    BY <1>2, <2>1
  <2>3. files[w] = call[t].files
    BY <2>1, <2>2, BrowserAssumption DEF AsRead
  <2> QED
    BY <1>2, <2>1, <2>2, <2>3
<1>8. files' = Ledger!NewFiles(r)
  <2> DEFINE Pick(K, p) == CHOOSE k \in K : r.files[k].path = p
             Given(K, p) == \E k \in K : r.files[k].path = p
  <2>1. files' = [w \in Workspaces |-> [p \in Paths |->
                    IF r.scope = w /\ Given(DOMAIN r.files, p)
                    THEN r.files[Pick(DOMAIN r.files, p)].content ELSE files[w][p]]]
    BY <1>3 DEF Apply
  <2>2. Ledger!NewFiles(r) = [w \in Workspaces |-> [p \in Paths |->
                    IF Given(Ledger!Uncontested(r, w), p)
                    THEN r.files[Pick(Ledger!Uncontested(r, w), p)].content ELSE files[w][p]]]
    BY DEF Ledger!NewFiles
  <2>3. \A p : ~Given({}, p)
    OBVIOUS
  <2> HIDE DEF Pick, Given
  <2> QED
    BY <1>4, <2>1, <2>2, <2>3
<1>9. records' = Ledger!NewRecords(r)
  BY <1>3 DEF Apply, Ledger!NewRecords
<1>10. secrets' = Ledger!NewSecrets(r)
  BY <1>3 DEF Apply, Ledger!NewSecrets
<1>11. outcome' = [outcome EXCEPT ![op] = [state |-> "committed", request |-> r]]
  BY <1>3 DEF Record
<1> QED
  BY <1>1, <1>2, <1>5, <1>6, <1>7, <1>8, <1>9, <1>10, <1>11 DEF Ledger!Commit

\* A transaction that finds something moved is the ledger's abort.
LEMMA PublishIsAbort ==
  ASSUME IInv, NEW t \in Tabs, Publish(t), Receipt(t) = Missing,
         ~(AsRead(t) /\ Revisions(t))
  PROVE  /\ call[t].op \in OpIds /\ call[t].request \in Requests \union Deletions
         /\ Ledger!Abort(call[t].op, call[t].request)
<1>1. /\ call[t] \in Call /\ call[t].op \in OpIds /\ Prepared(call[t])
  BY DEF IInv, Types, CallOK, Publish
<1>2. call[t].request \in Requests \union Deletions
  BY <1>1, PreparedIsKnown
<1> QED
  BY <1>1, <1>2 DEF Publish, Record, Receipt, Ledger!Abort

\* Every other step leaves what the ledger speaks of.
LEMMA StepsOfTheLedger ==
  IInv /\ [Next]_vars => [Ledger!Next]_<<files, records, secrets, outcome>>
<1> SUFFICES ASSUME IInv, Next PROVE [Ledger!Next]_<<files, records, secrets, outcome>>
  BY DEF vars
<1>1. PICK t \in Tabs :
            \/ \E o \in OpIds, r \in Requests : Begin(t, o, r)
            \/ \E w \in Workspaces : Delete(t, w)
            \/ Step(t) \/ GiveUp(t)
  BY DEF Next
<1>2. CASE Publish(t)
  <2>1. CASE Receipt(t) # Missing
    BY <1>2, <2>1 DEF Publish, stored
  <2>2. CASE Receipt(t) = Missing
    BY <1>2, <2>2, PublishIsCommit, PublishIsAbort DEF Ledger!Next
  <2> QED
    BY <2>1, <2>2
<1>3. CASE ~Publish(t)
  BY <1>1, <1>3 DEF Begin, Delete, Step, GiveUp, ReadReceipt, ReadFiles, ReadRecord,
     ReadListed, ReadRefs, ReadRevisions, Seal, stored
<1> QED
  BY <1>2, <1>3

\* Saves, secret batches and deletions of any number of tabs are the one ledger that
\* the native coordinator keeps as well, success is only answered for a receipt of
\* that very request, and of one scope everything is sealed with the key that is
\* stored.
THEOREM TabsKeepTheLedger == Spec => KeepsLedger /\ []OneKeyPerScope
<1>1. Init => Ledger!Init
  BY DEF Init, Ledger!Init, Ledger!Scopes, Scopes, NoFiles, NoRecord, File
<1>2. IInv => AnswersHaveReceipts /\ OneKeyPerScope
  BY DEF IInv
<1> QED
  BY <1>1, <1>2, BrowserInvariance, StepsOfTheLedger, PTL DEF Spec, KeepsLedger

-----------------------------------------------------------------------------
(* The suite.                                                              *)

\* Whatever runs, the store takes its own steps or stands still.
LEMMA SuiteIsBrowser == Suite => Spec
<1>1. SuiteInit => Init
  BY DEF SuiteInit
<1>2. [SuiteNext]_allVars => [Next]_vars
  BY DEF SuiteNext, OfPair, OfBrowser, OfCredentials, OfFiles, Only, allVars
<1> QED
  BY <1>1, <1>2, PTL DEF Suite, Spec

\* The same of the suite, as its run checks it.
THEOREM SuiteTabsAgree == Suite => TabsAgree
<1>1. [Ledger!Next]_<<files, records, secrets, outcome>> =>
        [part = "browser" /\ <<files, records, secrets, outcome>>'
                                # <<files, records, secrets, outcome>> =>
            Ledger!Next]_<<files, records, secrets, outcome>>
  OBVIOUS
<1> QED
  BY <1>1, SuiteIsBrowser, TabsKeepTheLedger, PTL DEF KeepsLedger, TabsAgree

CaptureOf == INSTANCE ResponseProofs WITH outcome <- reported, Requests <- Responses

\* The instance of ResponseProofs is of the machine of MCSuite: their definitions
\* are the same.
LEMMA CaptureIsOne ==
  /\ Capture!Init => CaptureOf!Init
  /\ [Capture!Next]_(Capture!vars) => [CaptureOf!Next]_(CaptureOf!vars)
  /\ CaptureOf!ResponsesAreGuarded => Capture!ResponsesAreGuarded
<1>1. /\ Capture!Pruned = CaptureOf!Pruned /\ Capture!Forgotten = CaptureOf!Forgotten
      /\ \A e : Capture!Crowded(e) <=> CaptureOf!Crowded(e)
  BY DEF Capture!Pruned, CaptureOf!Pruned, Capture!Forgotten, CaptureOf!Forgotten,
         Capture!Crowded, CaptureOf!Crowded, Capture!Cardinality, CaptureOf!Cardinality
<1>2. ASSUME NEW r, Capture!Cancel(r) PROVE CaptureOf!Cancel(r)
  BY <1>1, <1>2, Zenon
  DEF Capture!Cancel, CaptureOf!Cancel, Capture!capture, CaptureOf!capture,
      Capture!bounds, CaptureOf!bounds
<1> USE DEF Capture!Init, Capture!vars, Capture!TypeOK, Capture!StoredAsReported,
            Capture!NoWorker, Capture!Workers, Capture!NoRow, Capture!NotEnded,
            Capture!TombstoneAges, Capture!Send, Capture!Abort, Capture!Receive,
            Capture!LetGo, Capture!Forget, Capture!Record, Capture!DeleteExecution,
            Capture!RowExpires, Capture!Work, Capture!Unlock, Capture!CloseWindow,
            Capture!Crash, Capture!webview, Capture!registry, Capture!capture,
            Capture!bounds, Capture!history, Capture!Stages, Capture!Jobs,
            Capture!Content, Capture!ReadableIsWhole, Capture!FailedLeavesNothing,
            Capture!Pruned, Capture!Crowded, Capture!Forgotten, Capture!Register,
            Capture!Begin, Capture!Call, Capture!Headers, Capture!FullBatch,
            Capture!BodyEnds, Capture!BodyFails, Capture!EnqueueBatch,
            Capture!AwaitWrite, Capture!Drained, Capture!Cancelled, Capture!Return,
            Capture!Drop, Capture!Adopted, Capture!Succeeds, Capture!Applied,
            Capture!Answer, Capture!Surviving, Capture!Wanted, Capture!Cleaned,
            Capture!Enqueue, Capture!Job, Capture!Waiting, Capture!AfterEnqueue,
            Capture!CanProtect, CaptureOf!Init, CaptureOf!vars, CaptureOf!TypeOK,
            CaptureOf!StoredAsReported, CaptureOf!NoWorker, CaptureOf!Workers,
            CaptureOf!NoRow, CaptureOf!NotEnded, CaptureOf!TombstoneAges,
            CaptureOf!Send, CaptureOf!Abort, CaptureOf!Receive, CaptureOf!LetGo,
            CaptureOf!Forget, CaptureOf!Record, CaptureOf!DeleteExecution,
            CaptureOf!RowExpires, CaptureOf!Work, CaptureOf!Unlock,
            CaptureOf!CloseWindow, CaptureOf!Crash, CaptureOf!webview,
            CaptureOf!registry, CaptureOf!capture, CaptureOf!bounds, CaptureOf!history,
            CaptureOf!Stages, CaptureOf!Jobs, CaptureOf!Content,
            CaptureOf!ReadableIsWhole, CaptureOf!FailedLeavesNothing, CaptureOf!Pruned,
            CaptureOf!Crowded, CaptureOf!Forgotten, CaptureOf!Register, CaptureOf!Begin,
            CaptureOf!Call, CaptureOf!Headers, CaptureOf!FullBatch, CaptureOf!BodyEnds,
            CaptureOf!BodyFails, CaptureOf!EnqueueBatch, CaptureOf!AwaitWrite,
            CaptureOf!Drained, CaptureOf!Cancelled, CaptureOf!Return, CaptureOf!Drop,
            CaptureOf!Adopted, CaptureOf!Succeeds, CaptureOf!Applied, CaptureOf!Answer,
            CaptureOf!Surviving, CaptureOf!Wanted, CaptureOf!Cleaned, CaptureOf!Enqueue,
            CaptureOf!Job, CaptureOf!Waiting, CaptureOf!AfterEnqueue,
            CaptureOf!CanProtect
<1>3. ASSUME Capture!Init PROVE CaptureOf!Init
  BY <1>3
<1>5. ASSUME CaptureOf!ResponsesAreGuarded PROVE Capture!ResponsesAreGuarded
  BY <1>5 DEF CaptureOf!ResponsesAreGuarded, Capture!ResponsesAreGuarded,
              CaptureOf!RecordedStaysReadable, Capture!RecordedStaysReadable,
              CaptureOf!OnlyAdmittedSends, Capture!OnlyAdmittedSends
<1>6. ASSUME NEW r, Capture!Register(r) PROVE CaptureOf!Register(r)
  BY <1>6
<1>7. ASSUME NEW r, Capture!Begin(r) PROVE CaptureOf!Begin(r)
  BY <1>7
<1>8. ASSUME NEW r, Capture!Call(r) PROVE CaptureOf!Call(r)
  BY <1>8
<1>9. ASSUME NEW r, Capture!Headers(r) PROVE CaptureOf!Headers(r)
  BY <1>9
<1>10. ASSUME NEW r, Capture!FullBatch(r) PROVE CaptureOf!FullBatch(r)
  BY <1>10
<1>11. ASSUME NEW r, Capture!BodyEnds(r) PROVE CaptureOf!BodyEnds(r)
  BY <1>11
<1>12. ASSUME NEW r, Capture!BodyFails(r) PROVE CaptureOf!BodyFails(r)
  BY <1>12
<1>13. ASSUME NEW r, Capture!EnqueueBatch(r) PROVE CaptureOf!EnqueueBatch(r)
  BY <1>13
<1>14. ASSUME NEW r, Capture!AwaitWrite(r) PROVE CaptureOf!AwaitWrite(r)
  BY <1>14
<1>15. ASSUME NEW r, Capture!Drained(r) PROVE CaptureOf!Drained(r)
  BY <1>15
<1>16. ASSUME NEW r, Capture!Cancelled(r) PROVE CaptureOf!Cancelled(r)
  BY <1>16
<1>17. ASSUME NEW r, Capture!Return(r) PROVE CaptureOf!Return(r)
  BY <1>17
<1>18. ASSUME NEW r, Capture!TombstoneAges(r) PROVE CaptureOf!TombstoneAges(r)
  BY <1>18
<1>19. ASSUME NEW r, Capture!Send(r) PROVE CaptureOf!Send(r)
  BY <1>19
<1>20. ASSUME NEW r, Capture!Abort(r) PROVE CaptureOf!Abort(r)
  BY <1>20
<1>21. ASSUME NEW r, Capture!Receive(r) PROVE CaptureOf!Receive(r)
  BY <1>21
<1>22. ASSUME NEW r, Capture!LetGo(r) PROVE CaptureOf!LetGo(r)
  BY <1>22
<1>23. ASSUME NEW r, Capture!Forget(r) PROVE CaptureOf!Forget(r)
  BY <1>23
<1>24. ASSUME NEW r, Capture!Record(r) PROVE CaptureOf!Record(r)
  BY <1>24
<1>25. ASSUME NEW r, Capture!DeleteExecution(r) PROVE CaptureOf!DeleteExecution(r)
  BY <1>25
<1>26. ASSUME NEW r, Capture!RowExpires(r) PROVE CaptureOf!RowExpires(r)
  BY <1>26
<1>27. ASSUME NEW w, Capture!Work(w) PROVE CaptureOf!Work(w)
  BY <1>27
<1>28. ASSUME Capture!Unlock PROVE CaptureOf!Unlock
  BY <1>28
<1>29. ASSUME Capture!CloseWindow PROVE CaptureOf!CloseWindow
  BY <1>29
<1>30. ASSUME Capture!Crash PROVE CaptureOf!Crash
  BY <1>30
<1>31. ASSUME UNCHANGED Capture!vars PROVE UNCHANGED CaptureOf!vars
  BY <1>31
<1> HIDE DEF Capture!Init, Capture!vars, Capture!TypeOK, Capture!StoredAsReported,
            Capture!NoWorker, Capture!NoRow, Capture!NotEnded, Capture!TombstoneAges, Capture!Send,
            Capture!Abort, Capture!Receive, Capture!LetGo, Capture!Forget,
            Capture!Record, Capture!DeleteExecution, Capture!RowExpires, Capture!Work,
            Capture!Unlock, Capture!CloseWindow, Capture!Crash, Capture!webview,
            Capture!registry, Capture!capture, Capture!bounds, Capture!history,
            Capture!Stages, Capture!Jobs, Capture!Content, Capture!ReadableIsWhole,
            Capture!FailedLeavesNothing, Capture!Pruned, Capture!Crowded,
            Capture!Forgotten, Capture!Register, Capture!Begin, Capture!Call,
            Capture!Headers, Capture!FullBatch, Capture!BodyEnds, Capture!BodyFails,
            Capture!EnqueueBatch, Capture!AwaitWrite, Capture!Drained,
            Capture!Cancelled, Capture!Return, Capture!Drop, Capture!Adopted,
            Capture!Succeeds, Capture!Applied, Capture!Answer, Capture!Surviving,
            Capture!Wanted, Capture!Cleaned, Capture!Enqueue, Capture!Job,
            Capture!Waiting, Capture!AfterEnqueue, Capture!CanProtect, CaptureOf!Init,
            CaptureOf!vars, CaptureOf!TypeOK, CaptureOf!StoredAsReported,
            CaptureOf!NoWorker, CaptureOf!NoRow, CaptureOf!NotEnded,
            CaptureOf!TombstoneAges, CaptureOf!Send, CaptureOf!Abort, CaptureOf!Receive,
            CaptureOf!LetGo, CaptureOf!Forget, CaptureOf!Record,
            CaptureOf!DeleteExecution, CaptureOf!RowExpires, CaptureOf!Work,
            CaptureOf!Unlock, CaptureOf!CloseWindow, CaptureOf!Crash, CaptureOf!webview,
            CaptureOf!registry, CaptureOf!capture, CaptureOf!bounds, CaptureOf!history,
            CaptureOf!Stages, CaptureOf!Jobs, CaptureOf!Content,
            CaptureOf!ReadableIsWhole, CaptureOf!FailedLeavesNothing, CaptureOf!Pruned,
            CaptureOf!Crowded, CaptureOf!Forgotten, CaptureOf!Register, CaptureOf!Begin,
            CaptureOf!Call, CaptureOf!Headers, CaptureOf!FullBatch, CaptureOf!BodyEnds,
            CaptureOf!BodyFails, CaptureOf!EnqueueBatch, CaptureOf!AwaitWrite,
            CaptureOf!Drained, CaptureOf!Cancelled, CaptureOf!Return, CaptureOf!Drop,
            CaptureOf!Adopted, CaptureOf!Succeeds, CaptureOf!Applied, CaptureOf!Answer,
            CaptureOf!Surviving, CaptureOf!Wanted, CaptureOf!Cleaned, CaptureOf!Enqueue,
            CaptureOf!Job, CaptureOf!Waiting, CaptureOf!AfterEnqueue,
            CaptureOf!CanProtect
<1>32. ASSUME Capture!Next PROVE CaptureOf!Next
    BY <1>32, <1>2, <1>6, <1>7, <1>8, <1>9, <1>10, <1>11, <1>12, <1>13, <1>14, <1>15,
     <1>16, <1>17, <1>18, <1>19, <1>20, <1>21, <1>22, <1>23, <1>24, <1>25, <1>26, <1>27,
     <1>28, <1>29, <1>30
  DEF Capture!Next, CaptureOf!Next, Capture!Task, CaptureOf!Task
<1> QED
  BY <1>3, <1>5, <1>31, <1>32

\* What ResponseProofs assumes holds of the instance.
LEMMA CaptureAssumed == CaptureOf!CaptureAssumption
  BY SuiteAssumption DEF CaptureOf!CaptureAssumption

\* Several responses that share registry, workers and expiry: a recorded execution
\* keeps its whole response, a cancelled request never reaches the network, and a
\* response that must be encrypted is never with a worker that has no keys.
THEOREM SuiteResponsesAreGuarded == Suite => []ResponsesAreGuarded
<1>1. SuiteInit => CaptureOf!Init
  BY CaptureIsOne DEF SuiteInit
<1>2. [SuiteNext]_allVars => [Capture!Next]_(Capture!vars)
  BY DEF SuiteNext, OfPair, OfBrowser, OfCredentials, OfFiles, Only, allVars, captureVars,
         Capture!vars, Capture!webview, Capture!registry, Capture!capture, Capture!bounds,
         Capture!history
<1>3. [SuiteNext]_allVars => [CaptureOf!Next]_(CaptureOf!vars)
  BY <1>2, CaptureIsOne
<1>4. CaptureOf!Spec => []CaptureOf!ResponsesAreGuarded
  BY CaptureAssumed, CaptureOf!ResponsesGuarded
<1>5. CaptureOf!ResponsesAreGuarded => ResponsesAreGuarded
  BY CaptureIsOne DEF ResponsesAreGuarded
<1> QED
  BY <1>1, <1>3, <1>4, <1>5, PTL DEF Suite, CaptureOf!Spec
=============================================================================
