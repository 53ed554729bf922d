---------------------------- MODULE CleanupProofs ----------------------------
(***************************************************************************)
(* The theorems of WorkspaceCleanup, for any files and contents and any    *)
(* number of changes by other programs, failures and ends of the process:  *)
(* deleting a workspace takes nothing but what was recorded.               *)
(***************************************************************************)
EXTENDS WorkspaceCleanup, TLAPS

Cleaning == {"compare", "rename", "record", "verify", "remove", "finish"}

\* What is there is a directory of files; inside the cleanup an intent is
\* recorded; the changes of other programs are counted.
ShapesOK ==
    /\ source \in Directories \cup {NoDir}
    /\ quarantine \in Directories \cup {NoDir}
    /\ taken \in Directories \cup {NoDir}
    /\ intent \in Intents \cup {NoIntent}
    /\ pc \in Cleaning => intent \in Intents
    /\ externals \in Nat

\* What each stage of the cleanup has found out: nothing but the cleanup
\* touches the intent and the quarantine, so it stays true while other
\* programs go on in the source.
StageOK ==
    /\ pc \in Cleaning => ~registered
    /\ pc \in {"compare", "rename"} => intent # NoIntent
    /\ pc = "rename" => ~intent.quarantined /\ quarantine = NoDir
    /\ pc \in {"verify", "remove", "finish"} => intent.quarantined
    /\ pc = "remove" => quarantine \in Directories /\ UnchangedRemaining(quarantine)

\* A directory that was quarantined is still there, or the intent remembers
\* it, or the cleanup is over: no retry takes the path again.
MovedOK == moved => intent = NoIntent \/ quarantine # NoDir \/ intent.quarantined

IInv == ShapesOK /\ StageOK /\ MovedOK /\ PendingIsReserved

-----------------------------------------------------------------------------

\* The transaction of a deletion: the workspace is gone and its files are on
\* record, unless an older intent was.
LEMMA CommitDeleteKeeps ==
  ASSUME IInv, CommitDelete
  PROVE  IInv'
<1>1. intent' \in Intents \cup {NoIntent}
  BY DEF CommitDelete, IInv, ShapesOK, Intents
<1>2. pc' \in {"idle", "compare"} /\ (pc' = "compare" => intent' # NoIntent)
  BY DEF CommitDelete
<1>3. ShapesOK'
  BY <1>1, <1>2 DEF CommitDelete, IInv, ShapesOK, Cleaning, disk, bounds
<1>4. StageOK' /\ MovedOK' /\ PendingIsReserved'
  BY <1>2 DEF CommitDelete, StageOK, MovedOK, PendingIsReserved, Cleaning
<1> QED
  BY <1>3, <1>4 DEF IInv

\* Comparing, moving and recording the quarantine.
LEMMA QuarantineKeeps ==
  ASSUME IInv, Compare \/ Rename \/ RecordQuarantine \/ Verify
  PROVE  IInv'
<1>1. CASE Compare
  BY <1>1 DEF Compare, ToBeMoved, IInv, ShapesOK, StageOK, MovedOK, PendingIsReserved,
              Cleaning, disk, bounds, UnchangedRemaining
<1>2. CASE Rename
  BY <1>2 DEF Rename, IInv, ShapesOK, StageOK, MovedOK, PendingIsReserved, Cleaning,
              disk, bounds, UnchangedRemaining
<1>3. CASE RecordQuarantine
  <2>1. intent \in Intents /\ intent' = [intent EXCEPT !.quarantined = TRUE]
    BY <1>3 DEF RecordQuarantine, IInv, ShapesOK, Cleaning
  <2>2. intent' \in Intents /\ intent'.quarantined
    BY <2>1 DEF Intents
  <2>3. ShapesOK' /\ StageOK' /\ MovedOK'
    BY <1>3, <2>2 DEF RecordQuarantine, IInv, ShapesOK, StageOK, MovedOK, Cleaning,
                      disk, bounds, UnchangedRemaining
  <2> QED
    BY <1>3, <2>3 DEF RecordQuarantine, IInv, StageOK, Cleaning, PendingIsReserved
<1>4. CASE Verify
  BY <1>4 DEF Verify, UnchangedRemaining, IInv, ShapesOK, StageOK, MovedOK,
              PendingIsReserved, Cleaning, disk, bounds, UnchangedRemaining
<1> QED
  BY <1>1, <1>2, <1>3, <1>4

\* Removing what is in quarantine.
LEMMA RemovalKeeps ==
  ASSUME IInv, RemoveFile \/ RemoveDirectory \/ FinishCleanup
  PROVE  IInv'
<1>1. CASE RemoveFile
  <2>1. PICK n \in Names : quarantine' = [quarantine EXCEPT ![n] = Missing]
    BY <1>1 DEF RemoveFile
  <2>2. quarantine \in Directories /\ UnchangedRemaining(quarantine) /\ intent.quarantined
    BY <1>1 DEF RemoveFile, IInv, StageOK
  <2>3. quarantine' \in Directories
    BY <2>1, <2>2 DEF Directories
  <2>4. \A m \in Names : quarantine'[m] = Missing \/ quarantine'[m] = quarantine[m]
    BY <2>1, <2>2 DEF Directories
  <2>5. UnchangedRemaining(quarantine)'
    BY <1>1, <2>2, <2>4 DEF RemoveFile, UnchangedRemaining
  <2> QED
    BY <1>1, <2>2, <2>3, <2>5 DEF RemoveFile, IInv, ShapesOK, StageOK, MovedOK,
                                  PendingIsReserved, Cleaning,
              bounds, UnchangedRemaining
<1>2. CASE RemoveDirectory
  BY <1>2 DEF RemoveDirectory, IInv, ShapesOK, StageOK, MovedOK, PendingIsReserved,
              Cleaning, 
              bounds, UnchangedRemaining
<1>3. CASE FinishCleanup
  BY <1>3 DEF FinishCleanup, IInv, ShapesOK, StageOK, MovedOK, PendingIsReserved,
              Cleaning, 
              disk, bounds, UnchangedRemaining
<1> QED
  BY <1>1, <1>2, <1>3

\* A command that begins, fails, dies with the process or is taken up again.
LEMMA ProcessKeeps ==
  ASSUME IInv, BeginDelete \/ Fail \/ Crash \/ Reopen \/ Startup
  PROVE  IInv'
<1>1. CASE BeginDelete
  BY <1>1 DEF BeginDelete, IInv, ShapesOK, StageOK, MovedOK, PendingIsReserved,
              Cleaning, disk, bounds, UnchangedRemaining
<1>2. CASE Fail \/ Crash \/ Reopen
  BY <1>2 DEF Fail, Crash, Reopen, IInv, ShapesOK, StageOK, MovedOK, PendingIsReserved,
              Cleaning, disk, bounds, UnchangedRemaining
<1>3. CASE Startup
  <2>1. source' \in Directories \cup {NoDir}
    BY <1>3 DEF Startup, IInv, ShapesOK, Directories
  <2>2. pc' \in {"idle", "compare"} /\ (pc' = "compare" => intent # NoIntent)
    BY <1>3 DEF Startup, Retry
  <2> QED
    BY <1>3, <2>1, <2>2 DEF Startup, IInv, ShapesOK, StageOK, MovedOK, PendingIsReserved,
                            Cleaning, bounds, UnchangedRemaining
<1> QED
  BY <1>1, <1>2, <1>3

\* The user and other programs: nobody but the cleanup touches the quarantine
\* or the intent.
LEMMA OthersKeep ==
  ASSUME IInv, Register \/ ExternalEdit \/ ExternalRemove \/ ExternalCreate
  PROVE  IInv'
<1>1. source' \in Directories \cup {NoDir}
  <2>1. CASE ExternalEdit
    BY <2>1 DEF ExternalEdit, IInv, ShapesOK, Directories
  <2>2. CASE Register \/ ExternalRemove \/ ExternalCreate
    BY <2>2 DEF Register, ExternalRemove, ExternalCreate, IInv, ShapesOK
  <2> QED
    BY <2>1, <2>2
<1>2. CASE Register
  BY <1>1, <1>2 DEF Register, Available, IInv, ShapesOK, StageOK, MovedOK,
                    PendingIsReserved, Cleaning,
              bounds, UnchangedRemaining
<1>3. CASE ExternalEdit \/ ExternalRemove \/ ExternalCreate
  <2>1. /\ UNCHANGED <<registered, intent, quarantine, pc, taken, moved>>
        /\ externals' = externals + 1
    BY <1>3 DEF ExternalEdit, ExternalRemove, ExternalCreate, External
  <2> QED
    BY <1>1, <2>1 DEF IInv, ShapesOK, StageOK, MovedOK, PendingIsReserved,
                      UnchangedRemaining
<1> QED
  BY <1>2, <1>3

\* What the stages have found out holds in every reachable state.
THEOREM CleanupInvariance == Spec => []IInv
<1>1. Init => IInv
  BY DEF Init, IInv, ShapesOK, StageOK, MovedOK, PendingIsReserved, Cleaning,
              bounds, UnchangedRemaining
<1>2. IInv /\ [Next]_vars => IInv'
  <2>1. ASSUME IInv, Next
        PROVE  IInv'
    BY <2>1, CommitDeleteKeeps, QuarantineKeeps, RemovalKeeps, ProcessKeeps, OthersKeep
       DEF Next, Step
  <2>2. ASSUME IInv, UNCHANGED vars
        PROVE  IInv'
    BY <2>2 DEF vars, disk, bounds, IInv, ShapesOK, StageOK, MovedOK, PendingIsReserved,
                UnchangedRemaining
  <2> QED
    BY <2>1, <2>2
<1> QED
  BY <1>1, <1>2, PTL DEF Spec

-----------------------------------------------------------------------------

\* "A recreated source directory is never touched after quarantine exists": a
\* step that takes the source away is a rename, and nothing was quarantined in
\* this deletion before it.
LEMMA MovedIsLeftAlone ==
  ASSUME IInv, [Next]_vars, moved, source # NoDir, ~registered, externals' = externals
  PROVE  source' = source
<1>1. CASE Rename
  <2>1. intent # NoIntent /\ ~intent.quarantined /\ quarantine = NoDir
    BY <1>1 DEF Rename, IInv, StageOK
  <2> QED
    BY <2>1 DEF IInv, MovedOK
<1>2. CASE ExternalEdit \/ ExternalRemove \/ ExternalCreate
  <2>1. externals' = externals + 1
    BY <1>2 DEF ExternalEdit, ExternalRemove, ExternalCreate, External
  <2> QED
    BY <2>1 DEF IInv, ShapesOK
<1>3. CASE Register \/ Startup
  BY <1>3 DEF Register, Startup
<1>4. CASE \/ BeginDelete \/ CommitDelete \/ Compare \/ RecordQuarantine \/ Verify
           \/ RemoveFile \/ RemoveDirectory \/ FinishCleanup
           \/ Fail \/ Crash \/ Reopen \/ UNCHANGED vars
  BY <1>4 DEF BeginDelete, CommitDelete, Compare, RecordQuarantine, Verify, RemoveFile,
              RemoveDirectory, FinishCleanup, Fail, Crash, Reopen, vars, disk
<1> QED
  BY <1>1, <1>2, <1>3, <1>4 DEF Next, Step

\* Whatever is not part of what was deleted is left where it is: a workspace in
\* use has no cleanup pending, a file goes only with the content it had when
\* the deletion was asked for, and a directory made anew stays.
THEOREM OthersAreKept == Spec => CleanupKeepsOthers
<1>1. IInv => PendingIsReserved
  BY DEF IInv
<1>2. IInv /\ [Next]_vars =>
        [\A n \in Names :
          (pc = "remove" /\ quarantine[n] # Missing
              /\ (quarantine' = NoDir \/ quarantine'[n] = Missing))
          => quarantine[n] = intent.entries[n]]_vars
  BY DEF IInv, StageOK, UnchangedRemaining
<1>3. IInv /\ [Next]_vars =>
        [moved /\ source # NoDir /\ ~registered /\ externals' = externals =>
          source' = source]_vars
  BY MovedIsLeftAlone
<1>4. Spec => RemovesOnlyRecorded /\ QuarantinedOnce
  BY <1>2, <1>3, CleanupInvariance, PTL DEF Spec, RemovesOnlyRecorded, QuarantinedOnce
<1> QED
  BY <1>1, <1>4, CleanupInvariance, PTL DEF CleanupKeepsOthers

Flags == registered \in BOOLEAN /\ moved \in BOOLEAN
Counted ==
    /\ pc \in {"idle", "down", "commit"} \cup Cleaning
    /\ externals \in 0..MaxExternal /\ faults \in 0..MaxFaults
    /\ crashes \in 0..MaxCrashes /\ uses \in 0..MaxUses

\* Everything stays of its type, counted within the bounds (TypeOK).
THEOREM CleanupTypes ==
  ASSUME MaxExternal \in Nat, MaxFaults \in Nat, MaxCrashes \in Nat, MaxUses \in Nat,
         NoDir \notin Directories, NoIntent \notin Intents
  PROVE  Spec => []TypeOK
<1>1. Init => Counted
  BY DEF Init, Counted
<1>2. ASSUME Counted, [Next]_vars PROVE Counted'
  <2>1. CASE \/ CommitDelete \/ Compare \/ Rename \/ RecordQuarantine \/ Verify
             \/ RemoveFile \/ RemoveDirectory \/ FinishCleanup
    <3>1. UNCHANGED <<externals, faults, crashes, uses>>
      BY <2>1 DEF CommitDelete, Compare, Rename, RecordQuarantine, Verify, RemoveFile,
                  RemoveDirectory, FinishCleanup, bounds
    <3>2. pc' \in {"idle"} \cup Cleaning
      BY <2>1 DEF CommitDelete, Compare, Rename, RecordQuarantine, Verify, RemoveFile,
                  RemoveDirectory, FinishCleanup, Cleaning
    <3> QED
      BY <1>2, <3>1, <3>2 DEF Counted
  <2>2. CASE BeginDelete \/ Fail \/ Crash \/ Reopen \/ Startup
    BY <1>2, <2>2 DEF BeginDelete, Fail, Crash, Reopen, Startup, Retry, Counted, Cleaning,
                      disk, bounds
  <2>3. CASE Register \/ ExternalEdit \/ ExternalRemove \/ ExternalCreate
    BY <1>2, <2>3 DEF Register, External, ExternalEdit, ExternalRemove, ExternalCreate,
                      Counted
  <2>4. CASE UNCHANGED vars
    BY <1>2, <2>4 DEF vars, disk, bounds, Counted
  <2> QED
    BY <1>2, <2>1, <2>2, <2>3, <2>4 DEF Next, Step
<1>3. Init => Flags
  BY DEF Init, Flags
<1>4. Flags /\ [Next]_vars => Flags'
  BY DEF Flags, Next, Step, CommitDelete, Compare, Rename, RecordQuarantine, Verify,
         RemoveFile, RemoveDirectory, FinishCleanup, BeginDelete, Fail, Crash, Reopen,
         Startup, Register, External, ExternalEdit, ExternalRemove, ExternalCreate, vars
<1>5. IInv /\ Counted /\ Flags => TypeOK
  BY DEF IInv, ShapesOK, StageOK, Cleaning, Counted, Flags, TypeOK
<1> QED
  BY <1>1, <1>2, <1>3, <1>4, <1>5, CleanupInvariance, PTL DEF Spec
=============================================================================
