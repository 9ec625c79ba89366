--------------------------- MODULE MCUserService ----------------------------
EXTENDS UserService, TLC

\* Identifiers and addresses are interchangeable.
Symmetry == Permutations(Ids) \cup Permutations(Emails) \cup Permutations(Handlers)
=============================================================================
