---------------------------- MODULE MCMessaging -----------------------------
EXTENDS MessagingClients

CONSTANT FullTime    \* where the clock stops for the reader of pages

\* Requests to send are interchangeable, and so are the other users.
Symmetry == Permutations(Senders) \cup Permutations(Others)

\* The two clients do not touch each other.  For the reader of pages the table
\* fills up; for the unread marks it does not, and the clock goes on.
OneClient ==
  \/ /\ now <= FullTime
     /\ \A p \in Others : readAt[p] = 0
  \/ /\ reading.with = Nobody
     /\ Cardinality(messages) + Cardinality(Stamped) < MaxRows
=============================================================================
