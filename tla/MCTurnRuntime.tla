---------------------------- MODULE MCTurnRuntime ----------------------------
(* Small instances of TurnRuntime for TLC.                                  *)
EXTENDS TurnRuntime, TLC

\* Call and sample identities, and the requests of one kind, are
\* interchangeable.
Symmetry ==
  Permutations(Calls) \union Permutations(Samples)
    \union Permutations(InputRequests)
    \union Permutations(Requests \ InputRequests)

=============================================================================
