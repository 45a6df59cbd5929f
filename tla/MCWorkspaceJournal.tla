------------------------- MODULE MCWorkspaceJournal -------------------------
(* WorkspaceJournal for TLC: processes, turn ids and contents are            *)
(* interchangeable, but for the chat merge's ids.                            *)
EXTENDS WorkspaceJournal, TLC

Symmetric ==
  Permutations(Managers) \cup Permutations(Turns) \cup Permutations(Contents)

(* Bound: states with more file identities in use at once are not explored   *)
(* further.  Two turns on one file and an edit of the user need four: what   *)
(* was there first, what each turn left, and the edit.                       *)
FewIdentities == Cardinality(UsedIds) <= 4
=============================================================================
