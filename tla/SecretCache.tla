----------------------------- MODULE SecretCache -----------------------------
(***************************************************************************)
(* One credential behind the cache the frontend reads secrets through      *)
(* (storage/secrets.ts, CachedSecureStore) and the saves that are prepared *)
(* on it (SecretPreparationStore, the batch of setSecretValue and persist  *)
(* in workspace-persistence.ts).                                           *)
(*                                                                         *)
(* Reads and commits are commands that other ones overtake: what the       *)
(* native side answered and what the cache does with the answer are two    *)
(* steps.  A commit is applied only at the revision it was prepared at     *)
(* (secret_commits.rs, apply_mutations; CommitCoordinator).                *)
(***************************************************************************)
EXTENDS Naturals

CONSTANTS
    Clients,  \* saves and executions that read the credential
    Values,
    None,     \* a value that is missing, an entry that is not there
    MaxRevision

VARIABLES
    vault,     \* [value, revision] of the credential
    cache,     \* CachedSecureStore.values, for the credential
    answer,    \* per client: what a command answered, not yet handled
    baseline,  \* per client: the snapshot its save is prepared on
    staged,    \* per client: [value] wanted, or None
    saved      \* per client: how its save ended

vars == <<vault, cache, answer, baseline, staged, saved>>

Snapshots == [value : Values \cup {None}, revision : Nat]
NoEntry == [value |-> None]
Wanted == {NoEntry} \cup [want : Values \cup {None}]

Init ==
    /\ vault = [value |-> None, revision |-> 0]
    /\ cache = NoEntry
    /\ answer = [c \in Clients |-> NoEntry]
    /\ baseline = [c \in Clients |-> NoEntry]
    /\ staged = [c \in Clients |-> NoEntry]
    /\ saved = [c \in Clients |-> "no"]

-----------------------------------------------------------------------------

Idle(c) == answer[c] = NoEntry /\ saved[c] = "no"

\* set and delete of a preparation store read the baseline first, from the
\* cache if that has it.
Cached(c, v) ==
    /\ Idle(c) /\ baseline[c] = NoEntry /\ cache # NoEntry
    /\ baseline' = [baseline EXCEPT ![c] = cache]
    /\ staged' = [staged EXCEPT ![c] = [want |-> v]]
    /\ UNCHANGED <<vault, cache, answer, saved>>

\* The native side answers a read or a resolve.
Answer(c) ==
    /\ Idle(c) /\ baseline[c] = NoEntry
    /\ answer' = [answer EXCEPT ![c] = vault]
    /\ UNCHANGED <<vault, cache, baseline, staged, saved>>

\* Its answer is cached when it arrives; a save goes on from the cache, an
\* execution only used the value.
Arrive(c) ==
    /\ answer[c] # NoEntry /\ saved[c] = "no"
    /\ cache' = answer[c]
    /\ answer' = [answer EXCEPT ![c] = NoEntry]
    /\ \/ UNCHANGED <<baseline, staged>>
       \/ \E v \in Values \cup {None} :
              /\ baseline' = [baseline EXCEPT ![c] = answer[c]]
              /\ staged' = [staged EXCEPT ![c] = [want |-> v]]
    /\ UNCHANGED <<vault, saved>>

\* Storage became unreadable: the entry goes, a save that waits fails later.
Unreadable ==
    /\ cache # NoEntry
    /\ cache' = NoEntry
    /\ UNCHANGED <<vault, answer, baseline, staged, saved>>

\* batch: a save that wants what its baseline holds has nothing to publish.
Changes(c) == baseline[c].value # staged[c].want

SaveNothing(c) ==
    /\ saved[c] = "no" /\ staged[c] # NoEntry /\ ~Changes(c)
    /\ saved' = [saved EXCEPT ![c] = "unchanged"]
    /\ UNCHANGED <<vault, cache, answer, baseline, staged>>

\* Mutant: a credential that was deleted begins anew.
AppliedForgetting(v) ==
    [value |-> v, revision |-> IF v = None THEN 0 ELSE vault.revision + 1]

\* A deletion leaves the revision behind and counts it on.
Applied(v) == [value |-> v, revision |-> vault.revision + 1]

\* Refused, or applied.
Commit(c) ==
    /\ saved[c] = "no" /\ staged[c] # NoEntry /\ Changes(c)
    /\ IF baseline[c].revision = vault.revision
       THEN /\ vault.revision < MaxRevision
            /\ vault' = Applied(staged[c].want)
            /\ saved' = [saved EXCEPT ![c] = "committed"]
       ELSE saved' = [saved EXCEPT ![c] = "refused"] /\ UNCHANGED vault
    /\ UNCHANGED <<cache, answer, baseline, staged>>

\* Whatever became of the commit, its end clears the cache.  A client that tries
\* again prepares anew, or forks: with the baseline it has.
CommitEnds(c) ==
    /\ saved[c] # "no"
    /\ cache' = NoEntry
    /\ saved' = [saved EXCEPT ![c] = "no"]
    /\ \/ /\ baseline' = [baseline EXCEPT ![c] = NoEntry]
          /\ staged' = [staged EXCEPT ![c] = NoEntry]
       \/ saved[c] = "refused" /\ UNCHANGED <<baseline, staged>>
    /\ UNCHANGED <<vault, answer>>

Step(c) ==
    \/ \E v \in Values \cup {None} : Cached(c, v)
    \/ Answer(c) \/ Arrive(c) \/ SaveNothing(c) \/ Commit(c) \/ CommitEnds(c)

Next == Unreadable \/ \E c \in Clients : Step(c)

Spec == Init /\ [][Next]_vars

-----------------------------------------------------------------------------

TypeOK ==
    /\ vault \in Snapshots
    /\ cache \in Snapshots \cup {NoEntry}
    /\ answer \in [Clients -> Snapshots \cup {NoEntry}]
    /\ baseline \in [Clients -> Snapshots \cup {NoEntry}]
    /\ staged \in [Clients -> Wanted]
    /\ saved \in [Clients -> {"no", "unchanged", "committed", "refused"}]
    /\ \A c \in Clients : staged[c] # NoEntry => baseline[c] # NoEntry

\* What a snapshot may be: as old as one likes, but when it has the vault's
\* revision it has the vault's value.
Recognisable(s) ==
    s = NoEntry \/ (s.revision <= vault.revision
                    /\ (s.revision = vault.revision => s = vault))

\* However reads and commits overtake each other, whatever was put in the cache
\* after it had been cleared, a stale entry is told from a current one by its
\* revision.
StaleIsRecognised ==
    /\ Recognisable(cache)
    /\ \A c \in Clients : Recognisable(answer[c]) /\ Recognisable(baseline[c])

\* So a commit that is accepted was prepared on the value it replaces: no save
\* takes away what another one published meanwhile.
CommitsSeeCurrent ==
    [][\A c \in Clients : saved[c] = "no" /\ saved'[c] = "committed" =>
        baseline[c] = vault]_vars
=============================================================================
