---------------------------- MODULE MCTurnKernel ----------------------------
(* Small instances of TurnKernel for TLC.                                   *)
EXTENDS TurnKernel, TLC

\* Call, request and sample identities are interchangeable in the reducer.
Symmetry == Permutations(Calls) \union Permutations(Requests)
              \union Permutations(Samples)

=============================================================================
