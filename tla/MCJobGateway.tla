---------------------------- MODULE MCJobGateway ----------------------------
EXTENDS JobGateway, TLC

\* Identifiers are interchangeable: no definition names one of them.
Symmetry ==
  Permutations(Apps) \cup Permutations(Handlers) \cup Permutations(Callers)
=============================================================================
