---------------------------- MODULE UserAccounts ----------------------------
(***************************************************************************)
(* What the user service promises about its table, with each request taken *)
(* as one step: an e-mail address belongs to one account, and an update of *)
(* a profile changes the fields it names and no other.                     *)
(***************************************************************************)
CONSTANTS
  Ids, Emails, Passwords, Roles,
  Fields,        \* the fields of a profile that an update may name
  Values,
  Blank,         \* the empty string, and the empty list of skills
  Absent,        \* a field that an update does not name
  NoRow

VARIABLE users   \* table users

Profile == [Fields -> Values]

Patch == [Fields -> Values \cup {Absent}]

User == [email: Emails, password: Passwords, role: Roles, profile: Profile]

TableOK == users \in [Ids -> User \cup {NoRow}]

Stored(u) == users[u] # NoRow

\* "Apply partial updates".
Merge(profile, patch) ==
  [f \in Fields |-> IF patch[f] = Absent THEN profile[f] ELSE patch[f]]

NewProfile(name) == [f \in Fields |-> IF f = "name" THEN name ELSE Blank]

EmailTaken(e) == \E u \in Ids : Stored(u) /\ users[u].email = e

Init == users = [u \in Ids |-> NoRow]

Register(u, e, p, r, n) ==
  /\ ~Stored(u)
  /\ ~EmailTaken(e)
  /\ users' = [users EXCEPT ![u] = [email |-> e, password |-> p, role |-> r,
                                    profile |-> NewProfile(n)]]

Update(u, patch) ==
  /\ Stored(u)
  /\ users' = [users EXCEPT ![u].profile = Merge(@, patch)]

Next ==
  \/ \E u \in Ids, e \in Emails, p \in Passwords, r \in Roles, n \in Values :
       Register(u, e, p, r, n)
  \/ \E u \in Ids, patch \in Patch : Update(u, patch)

Spec == Init /\ [][Next]_users
=============================================================================
