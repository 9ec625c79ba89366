---------------------------- MODULE UserService -----------------------------
(***************************************************************************)
(* The user service: src/user-service/internal/service/user_service.go     *)
(* over the users table and the JWT manager.                               *)
(*                                                                         *)
(* A Handler is the goroutine of a request; call[h] is where it stands     *)
(* between two statements.  Login and GetUser read the table once and      *)
(* write nothing.  Passwords stand for their bcrypt hashes.  A token is    *)
(* the claims it signs; signed tokens are never revoked, and when they     *)
(* expire is left out.                                                     *)
(***************************************************************************)
EXTENDS Naturals

CONSTANTS
  Ids, Emails, Passwords, Roles, Fields, Values, Blank, Absent, NoRow, Handlers

VARIABLES
  users,         \* table users
  call,          \* call[h]: the request h is serving
  tokens,        \* claims of the tokens handed out
  given          \* given[u][f]: what requests ever asked field f of u to be

vars == <<users, call, tokens, given>>

Accounts == INSTANCE UserAccounts

ASSUME ValueAssumption ==
  /\ Blank \in Values
  /\ Absent \notin Values
  /\ NoRow \notin Accounts!User

Stored(u)        == users[u] # NoRow
EmailTaken(e)    == Accounts!EmailTaken(e)
NewProfile(n)    == Accounts!NewProfile(n)

Idle == [at |-> "idle"]

TokenCall  == [at: {"token"}, user: Ids]
UpdateCall == [at: {"write"}, user: Ids, patch: Accounts!Patch,
               read: Accounts!Profile]

Call == {Idle} \cup TokenCall \cup UpdateCall

Claims == [user: Ids, email: Emails, role: Roles]

TypeOK ==
  /\ Accounts!TableOK
  /\ call \in [Handlers -> Call]
  /\ tokens \subseteq Claims
  /\ given \in [Ids -> [Fields -> SUBSET Values]]

Return(h) == call' = [call EXCEPT ![h] = Idle]

Init ==
  /\ Accounts!Init
  /\ call = [h \in Handlers |-> Idle]
  /\ tokens = {}
  /\ given = [u \in Ids |-> [f \in Fields |-> {}]]

(***************************************************************************)
(* Register: the INSERT, which the unique index refuses if the address is  *)
(* taken, then the token.                                                  *)
(***************************************************************************)
InsertUser(u, e, p, r, n) ==
  /\ users' = [users EXCEPT ![u] = [email |-> e, password |-> p, role |-> r,
                                    profile |-> NewProfile(n)]]
  /\ given' = [given EXCEPT ![u] = [f \in Fields |-> {NewProfile(n)[f]}]]

\* Mutant: there is no unique index on the address.
RegisterAnyEmail(h, u, e, p, r, n) ==
  /\ call[h] = Idle
  /\ ~Stored(u)
  /\ InsertUser(u, e, p, r, n)
  /\ call' = [call EXCEPT ![h] = [at |-> "token", user |-> u]]
  /\ UNCHANGED tokens

\* Mutant: INSERT ... ON CONFLICT DO UPDATE.
RegisterOrReplace(h, u, e, p, r, n) ==
  /\ call[h] = Idle
  /\ EmailTaken(e) => Stored(u) /\ users[u].email = e
  /\ InsertUser(u, e, p, r, n)
  /\ call' = [call EXCEPT ![h] = [at |-> "token", user |-> u]]
  /\ UNCHANGED tokens

\* Mutant: the error of the INSERT is not looked at.
RegisterUnchecked(h, u, e, p, r, n) ==
  /\ call[h] = Idle
  /\ ~Stored(u)
  /\ IF EmailTaken(e) THEN UNCHANGED <<users, given>> ELSE InsertUser(u, e, p, r, n)
  /\ call' = [call EXCEPT ![h] = [at |-> "token", user |-> u]]
  /\ UNCHANGED tokens

Register(h, u, e, p, r, n) ==
  /\ ~EmailTaken(e)
  /\ RegisterAnyEmail(h, u, e, p, r, n)

\* The deadline of the request passes, or the connection breaks, while the
\* INSERT runs: the row is stored and the caller is told that it failed.
RegisterUnacknowledged(h, u, e, p, r, n) ==
  /\ call[h] = Idle
  /\ ~Stored(u) /\ ~EmailTaken(e)
  /\ InsertUser(u, e, p, r, n)
  /\ UNCHANGED <<call, tokens>>

ClaimsOf(u) == [user |-> u, email |-> users[u].email, role |-> users[u].role]

RegisterToken(h) ==
  /\ call[h].at = "token"
  /\ tokens' = tokens \cup {ClaimsOf(call[h].user)}
  /\ Return(h)
  /\ UNCHANGED <<users, given>>

(***************************************************************************)
(* Login: SELECT by address, compare the hash, sign a token.               *)
(***************************************************************************)
Login(e, p) ==
  \E u \in Ids :
    /\ Stored(u) /\ users[u].email = e /\ users[u].password = p
    /\ tokens' = tokens \cup {ClaimsOf(u)}
    /\ UNCHANGED <<users, call, given>>

(***************************************************************************)
(* UpdateUser: SELECT the row, put the fields that the request names into  *)
(* the copy, UPDATE all fields of the row from the copy.                   *)
(***************************************************************************)
UpdateRead(h, u, patch) ==
  /\ call[h] = Idle
  /\ Stored(u)
  /\ call' = [call EXCEPT ![h] = [at |-> "write", user |-> u, patch |-> patch,
                                  read |-> users[u].profile]]
  /\ UNCHANGED <<users, tokens, given>>

\* Mutant: an empty list arrives as one.
ReceivedAsSent(patch) == patch

\* A list without elements is not on the wire: the service sees no skills.
Received(patch) ==
  [f \in Fields |-> IF f = "skills" /\ patch[f] = Blank THEN Absent ELSE patch[f]]

\* Mutant: a field that is not named is taken for an empty one.
MergeBlanks(profile, patch) ==
  [f \in Fields |-> IF patch[f] = Absent THEN Blank ELSE patch[f]]

\* Mutant: a field that is not named is written as NULL.
MergeNulls(profile, patch) == patch

Merge(profile, patch) == Accounts!Merge(profile, patch)

Ask(u, patch) ==
  given' = [given EXCEPT
    ![u] = [f \in Fields |-> @[f] \cup ({patch[f]} \ {Absent})]]

\* Whether the caller sees the answer makes no difference to the state.
UpdateWrite(h) ==
  /\ call[h].at = "write"
  /\ users' = [users EXCEPT
       ![call[h].user].profile = Merge(call[h].read, Received(call[h].patch))]
  /\ Ask(call[h].user, call[h].patch)
  /\ Return(h)
  /\ UNCHANGED tokens

(***************************************************************************)
(* The signing or the UPDATE fails, or the deadline passes before it ran.  *)
(***************************************************************************)
Fail(h) ==
  /\ call[h].at # "idle"
  /\ Return(h)
  /\ UNCHANGED <<users, tokens, given>>

\* The process dies and is started again.
CrashRestart ==
  /\ call' = [h \in Handlers |-> Idle]
  /\ UNCHANGED <<users, tokens, given>>

Next ==
  \/ \E h \in Handlers, u \in Ids, e \in Emails, p \in Passwords, r \in Roles,
        n \in Values \ {Blank} :
       \/ Register(h, u, e, p, r, n)
       \/ RegisterUnacknowledged(h, u, e, p, r, n)
  \/ \E e \in Emails, p \in Passwords : Login(e, p)
  \/ \E h \in Handlers, u \in Ids, patch \in Accounts!Patch :
       UpdateRead(h, u, patch)
  \/ \E h \in Handlers : RegisterToken(h) \/ UpdateWrite(h) \/ Fail(h)
  \/ CrashRestart

Spec == Init /\ [][Next]_vars

-----------------------------------------------------------------------------
(***************************************************************************)
(* Safety, for any number of handlers.                                     *)
(***************************************************************************)

\* An address names one account, however registrations race: Login, which looks
\* an account up by address, cannot find two.
EmailIsUnique ==
  \A u, w \in Ids :
    Stored(u) /\ Stored(w) /\ users[u].email = users[w].email => u = w

\* A token names an account that exists, with the address and role it has: a
\* registration that failed hands out none.
TokensAreBacked ==
  /\ \A t \in tokens :
       /\ Stored(t.user)
       /\ t.email = users[t.user].email
       /\ t.role = users[t.user].role
  /\ \A h \in Handlers : call[h] # Idle => Stored(call[h].user)

\* Whatever overlaps, the owner, credentials and role of an account are those
\* it was registered with.
IdentityIsFixed ==
  [][\A u \in Ids :
       Stored(u) =>
         /\ Stored(u)'
         /\ users'[u].email = users[u].email
         /\ users'[u].password = users[u].password
         /\ users'[u].role = users[u].role]_vars

\* Racing updates may bring an old value back, but never one that no request
\* asked for, and never one asked of another account.
ValuesWereGiven ==
  /\ \A u \in Ids :
       Stored(u) => \A f \in Fields : users[u].profile[f] \in given[u][f]
  /\ \A h \in Handlers :
       call[h].at = "write" =>
         \A f \in Fields : call[h].read[f] \in given[call[h].user][f]

(***************************************************************************)
(* What the service says, and keeps when requests do not overlap.          *)
(***************************************************************************)

\* "Partial update of profile fields": a field that a request does not name
\* keeps its value.
OtherFieldsKept ==
  [][\A h \in Handlers :
       call[h].at = "write" /\ users' # users =>
         \A f \in Fields :
           call[h].patch[f] = Absent =>
             users'[call[h].user].profile[f] = users[call[h].user].profile[f]]_vars

\* The table implements the accounts of UserAccounts.
RefinesAccounts == Accounts!Spec
=============================================================================
