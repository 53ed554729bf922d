------------------------------- MODULE MCParts -------------------------------
(***************************************************************************)
(* The smaller machines of the native side, each checked by itself: the    *)
(* initial state says which of them runs, and the others stay as they are. *)
(***************************************************************************)
EXTENDS RequestUploads, TLC

\* The parameters of the machines beside those of RequestUploads.
CONSTANTS
    Names, Contents, Missing, NoDir, NoIntent,                        \* cleanup
    MaxExternal, MaxCleanupFaults, MaxCleanupCrashes, MaxUses,
    Responses, Batches, Capacity, MaxTickets, MaxCaptureFaults, MaxCaptureCrashes

\* A bound is a number, a channel holds a job, and what stands for nothing is no
\* directory and no intent.
ASSUME PartsAssumption ==
    /\ {MaxExternal, MaxCleanupFaults, MaxCleanupCrashes, MaxUses, Batches, Capacity,
        MaxTickets, MaxCaptureFaults, MaxCaptureCrashes} \subseteq Nat
    /\ Capacity > 0
    /\ NoDir \notin [Names -> Contents \cup {Missing}]
    /\ NoIntent \notin [entries : [Names -> Contents \cup {Missing}], quarantined : BOOLEAN]

VARIABLES
    part,
    registered, intent, source, quarantine, pc, taken, externals, uses, moved,
    cleanupFaults, cleanupCrashes,
    client, abandoned, cancels, destroyed, ticket, signal, task, handle, received,
    enqueued, awaited, wrote, outcome, queue, current, row, unlocked,
    captureFaults, captureCrashes, network, revoked, body, leaked

cleanupVars == <<registered, intent, source, quarantine, pc, taken, externals,
    uses, moved, cleanupFaults, cleanupCrashes>>
captureVars == <<client, abandoned, cancels, destroyed, ticket, signal, task, handle,
    received, enqueued, awaited, wrote, outcome, queue, current, row, unlocked,
    captureFaults, captureCrashes, network, revoked, body, leaked>>
allVars == <<part, vars, cleanupVars, captureVars>>

Cleanup == INSTANCE WorkspaceCleanup
    WITH faults <- cleanupFaults, crashes <- cleanupCrashes,
         MaxFaults <- MaxCleanupFaults, MaxCrashes <- MaxCleanupCrashes

\* Responses that must be encrypted.
Capture == INSTANCE ResponseCapture
    WITH aborted <- abandoned, closed <- destroyed, entry <- ticket, pc <- task,
         faults <- captureFaults, crashes <- captureCrashes,
         Requests <- Responses, Encrypted <- Responses, MaxEntries <- MaxTickets,
         MaxFaults <- MaxCaptureFaults, MaxCrashes <- MaxCaptureCrashes

-----------------------------------------------------------------------------

PartsInit ==
    /\ part \in {"cleanup", "uploads", "capture"}
    /\ Init /\ Cleanup!Init /\ Capture!Init
    /\ part # "cleanup" => source = [n \in Names |-> Missing]
    /\ part # "uploads" => size = 0
    /\ part # "capture" => ~unlocked

OfUploads(A) == part = "uploads" /\ A /\ UNCHANGED <<part, cleanupVars, captureVars>>
OfCleanup(A) == part = "cleanup" /\ A /\ UNCHANGED <<part, vars, captureVars>>
OfCapture(A) == part = "capture" /\ A /\ UNCHANGED <<part, vars, cleanupVars>>

PartsNext ==
    OfUploads(Next) \/ OfCleanup(Cleanup!Next) \/ OfCapture(Capture!Next)

\* What each machine assumes of its environment; one weak condition is enough,
\* since only one of them runs.
Fairly ==
    \/ OfUploads(Open \/ Execution \/ \E h \in Hops : Transfer(h))
    \/ OfCleanup(Cleanup!Step \/ Cleanup!Startup \/ Cleanup!Reopen)
    \/ OfCapture(\E w \in {"public", "keyed"} : Capture!Work(w))

Parts ==
    /\ PartsInit /\ [][PartsNext]_allVars
    /\ WF_allVars(Fairly)
    /\ \A r \in Responses : /\ SF_allVars(OfCapture(Capture!Task(r)))
                            /\ SF_allVars(OfCapture(Capture!Receive(r)))

-----------------------------------------------------------------------------
(* The properties of the three components, under their names there.        *)

PartsTypeOK ==
    /\ part = "uploads" => TypeOK
    /\ part = "cleanup" => Cleanup!TypeOK
    /\ part = "capture" => Capture!TypeOK

CleanupKeepsOthers ==
    /\ [](part = "cleanup" => Cleanup!PendingIsReserved)
    /\ Cleanup!RemovesOnlyRecorded /\ Cleanup!QuarantinedOnce
StoredAsReported == part = "capture" => Capture!StoredAsReported

\* UploadEnds, CleanupEnds and EveryRequestEnds at once.
Waiting ==
    \/ part = "uploads" /\ ui # "idle"
    \/ part = "cleanup"
    \/ part = "capture" /\ \E r \in Responses : client[r] = "waiting"

Done ==
    /\ part = "uploads" => UploadEnded
    /\ part = "cleanup" => Cleanup!Resolved
    /\ part = "capture" => \A r \in Responses : client[r] # "waiting"

WaitsEnd == Waiting ~> Done
=============================================================================
