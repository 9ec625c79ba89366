----------------------------- MODULE MCChatPage -----------------------------
EXTENDS ChatPage, TLC

\* Requests are interchangeable; peers are not, some names being known.
Symmetry == Permutations(Requests)
=============================================================================
