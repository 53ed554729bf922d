------------------------- MODULE MCCommitCoordinator -------------------------
(***************************************************************************)
(* Instances of CommitCoordinator for TLC.                                 *)
(***************************************************************************)
EXTENDS CommitCoordinator

CONSTANTS w1, w2, p1, p2, old, new, alien, v1, tokenA, tokenG

MCOwner == [ref \in {tokenA, tokenG} |-> IF ref = tokenA THEN w1 ELSE Global]

MCInitialFiles ==
  {[w \in Workspaces |-> [p \in Paths |-> IF p = p1 THEN old ELSE Absent]]}

Edited(path, content, expected) ==
  [path |-> path, content |-> content, expected |-> expected]

Secret(ref, value, expected) ==
  [ref |-> ref, value |-> value, expected |-> expected]

(* A save that changes one file, creates another and sets a secret. *)
SaveWithSecret ==
  [kind |-> "commit", scope |-> w1,
   files |-> <<Edited(p1, new, old), Edited(p2, new, Absent)>>,
   record |-> v1, sealed |-> TRUE, mutations |-> {Secret(tokenA, v1, 0)}]

(* A public save that deletes a file and replaces the local record. *)
PublicSave ==
  [kind |-> "commit", scope |-> w1, files |-> <<Edited(p1, Absent, old)>>,
   record |-> v1, sealed |-> FALSE, mutations |-> {}]

OtherWorkspace == [PublicSave EXCEPT !.scope = w2]

GlobalSave ==
  [kind |-> "commit", scope |-> Global, files |-> << >>,
   record |-> v1, sealed |-> FALSE, mutations |-> {Secret(tokenG, v1, 0)}]

(* A secret-only batch that deletes a secret, at revision 0 an absent one. *)
DeleteSecret(revision) ==
  [kind |-> "secrets", scope |-> w1, files |-> << >>, record |-> Keep,
   sealed |-> FALSE, mutations |-> {Secret(tokenA, Absent, revision)}]

(* Refused: a secret of another scope, and a path named twice. *)
WrongScope == [PublicSave EXCEPT !.mutations = {Secret(tokenG, v1, 0)}]
TwicePath ==
  [PublicSave EXCEPT !.files = <<Edited(p1, new, old), Edited(p1, old, old)>>]

SafetyRequests == {SaveWithSecret, PublicSave, DeleteSecret(0), DeleteSecret(1)}
RecoveryRequests ==
  {SaveWithSecret, OtherWorkspace, GlobalSave, WrongScope, TwicePath}
GlobalRequests == {GlobalSave}
=============================================================================
