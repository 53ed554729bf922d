---------------------------- MODULE CommitLedger ----------------------------
(***************************************************************************)
(* What the commit path of src-tauri/src/persistence promises, without     *)
(* journals, phases or crashes: an operation identifier is resolved at     *)
(* most once, and the step that resolves it as committed is the ONE step   *)
(* in which its project files, its local record, its secrets and its       *)
(* receipt change together, against the revisions it was prepared for.     *)
(*                                                                         *)
(* The project directory is shared with editors Purr does not control.  A  *)
(* file such an editor saves while a commit is under way is "contested":   *)
(* it holds whatever was saved last and the commit promises nothing of it. *)
(*                                                                         *)
(* CommitCoordinator implements this specification; the refinement mapping *)
(* is at its end.                                                          *)
(***************************************************************************)
EXTENDS Naturals, Sequences

CONSTANTS
  Workspaces,   \* identifiers of project workspaces
  Global,       \* the "__global__" scope, which has no project files
  Paths,        \* managed file paths of a project
  Contents,     \* file contents (their SHA-256 is their revision)
  Values,       \* values of secrets and of local records
  Refs,         \* secret references
  OpIds,        \* operation identifiers
  Absent,       \* no file, no value
  Keep,         \* a request that leaves the local record alone
  Missing,      \* an operation identifier nobody has resolved
  Requests,     \* the commits clients may ask for
  Owner         \* [Refs -> Scopes]: the scope a secret belongs to

VARIABLES
  files,        \* [Workspaces -> [Paths -> file]]: what a recovered reader sees
  contested,    \* files an outside editor saved since a commit read them
  records,      \* [Scopes -> [value, sealed]]: one local record of each scope
  secrets,      \* [Refs -> [value, revision]]
  outcome       \* [OpIds -> Missing or [state, request]]

vars == <<files, contested, records, secrets, outcome>>

Scopes == Workspaces \cup {Global}

(* The files request r changes in workspace w that nobody else has touched. *)
Uncontested(r, w) ==
  {k \in DOMAIN r.files : r.scope = w /\ <<w, r.files[k].path>> \notin contested}

NewFiles(r) ==
  [w \in Workspaces |-> [p \in Paths |->
     IF \E k \in Uncontested(r, w) : r.files[k].path = p
       THEN r.files[CHOOSE k \in Uncontested(r, w) : r.files[k].path = p].content
       ELSE files[w][p]]]

NewRecords(r) ==
  IF r.record = Keep
    THEN records
    ELSE [records EXCEPT ![r.scope] = 
            [value |-> r.record, sealed |-> r.sealed /\ r.record # Absent]]

NewSecrets(r) ==
  [ref \in Refs |->
     IF \E m \in r.mutations : m.ref = ref
       THEN [value |-> (CHOOSE m \in r.mutations : m.ref = ref).value,
             revision |-> secrets[ref].revision + 1]
       ELSE secrets[ref]]

Init ==
  /\ files \in [Workspaces -> [Paths -> Contents \cup {Absent}]]
  /\ contested = {}
  /\ records = [s \in Scopes |-> [value |-> Absent, sealed |-> FALSE]]
  /\ secrets = [ref \in Refs |-> [value |-> Absent, revision |-> 0]]
  /\ outcome = [o \in OpIds |-> Missing]

(* Everything request r asks for becomes visible in this step.  It was     *)
(* prepared against the current revision of every secret and of every file *)
(* no outside editor has touched since, and a save of one scope leaves the *)
(* secrets of the others alone.                                            *)
Commit(o, r) ==
  /\ outcome[o] = Missing
  /\ r.kind = "commit" => \A m \in r.mutations : Owner[m.ref] = r.scope
  /\ \A m \in r.mutations : secrets[m.ref].revision = m.expected
  /\ \A w \in Workspaces : \A k \in Uncontested(r, w) :
       files[w][r.files[k].path] = r.files[k].expected
  /\ files' = NewFiles(r)
  /\ records' = NewRecords(r)
  /\ secrets' = NewSecrets(r)
  /\ outcome' = [outcome EXCEPT ![o] = [state |-> "committed", request |-> r]]
  /\ UNCHANGED contested

(* The operation is given up for good, without any other effect. *)
Abort(o, r) ==
  /\ outcome[o] = Missing
  /\ outcome' = [outcome EXCEPT ![o] = [state |-> "aborted", request |-> r]]
  /\ UNCHANGED <<files, contested, records, secrets>>

(* An outside editor saves a file. *)
Edit(w, p, c) ==
  /\ files' = [files EXCEPT ![w][p] = c]
  /\ contested' = contested \cup {<<w, p>>}
  /\ UNCHANGED <<records, secrets, outcome>>

(* A commit takes the present content of a file as its baseline. *)
Baseline(w, p) ==
  /\ contested' = contested \ {<<w, p>>}
  /\ UNCHANGED <<files, records, secrets, outcome>>

Next ==
  \/ \E o \in OpIds, r \in Requests : Commit(o, r) \/ Abort(o, r)
  \/ \E w \in Workspaces, p \in Paths, c \in Contents \cup {Absent} : Edit(w, p, c)
  \/ \E w \in Workspaces, p \in Paths : Baseline(w, p)

Spec == Init /\ [][Next]_vars
=============================================================================
